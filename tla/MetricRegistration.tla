-------------------------- MODULE MetricRegistration --------------------------
(***************************************************************************)
(* How an endpoint turns metrics into compact ones: ConvertMetrics of      *)
(* endpoint.go with checkCache and registerMetrics.  Goroutines call it at *)
(* the same time and share the cache of metric ids, an entry of which may  *)
(* expire at any time.  The data registry is external: a call to it fails, *)
(* whatever it has stored by then, or is answered, in the order of the     *)
(* request and with an error for some of the metrics.  A metric is its     *)
(* cache key (name and dimensions) and its metadata; the id the registry   *)
(* gives is named after the key.  The timestamp and value of a metric are  *)
(* its position in the batch.                                              *)
(***************************************************************************)
EXTENDS Integers, Sequences, FiniteSets

CONSTANTS
    Callers,        \* goroutines that call ConvertMetrics
    Keys,           \* cache keys of metrics
    Tags, Values,   \* names and values of metadata fields
    ExcludedTags,   \* config.ExcludedTags
    Batches,        \* the batches ConvertMetrics is called with
    NumberOfRetries,\* config.NumberOfRetries
    NoId            \* an empty MetricIDNameAndHash: success is false at its index

Metadata == UNION {[T -> Values] : T \in SUBSET Tags}
Metric   == [key : Keys, meta : Metadata]

ASSUME MetricRegistrationAssumption ==
    /\ ExcludedTags \subseteq Tags
    /\ \A b \in Batches : b \in Seq(Metric)
    /\ NumberOfRetries \in Nat \ {0}
    /\ NoId \notin Keys

VARIABLES
    cache,          \* cache key -> id and hash
    acked,          \* history: keys and hashes of the metadata the registry acknowledged
    call            \* the call of each goroutine: see Call

vars == <<cache, acked, call>>

(* GetMetadataHash: excluded tags play no part in it.                      *)
Hash(meta) == [t \in DOMAIN meta \ ExcludedTags |-> meta[t]]

Entry   == [id : Keys, hash : Metadata]
Compact == [id : Keys, point : Nat]

(* The locals of a call.  Positions are those of "batch", indices those of *)
(* "misses"; "acks" is history: the positions acknowledged in this call.   *)
Call ==
    [pc : {"idle", "check", "register", "retry", "fill"},
     batch : Batches \cup {<<>>},
     compact : Seq(Compact),        \* cachedCompctMetrics, then the registered ones
     misses : Seq(Nat),             \* positions to register
     tries : 0..NumberOfRetries - 1,
     ids : Seq(Keys \cup {NoId}),   \* metricIdsNamesAndHashes, successesAndFailures
     failed : Seq(Nat),             \* FailedRegistrationContext.Index of each failure
     unconverted : Seq(Nat),        \* failedMetrics, the second result
     acks : SUBSET Nat]

NewCall(pc, b) ==
    [pc |-> pc, batch |-> b, compact |-> <<>>, misses |-> <<>>, tries |-> 0, ids |-> <<>>,
     failed |-> <<>>, unconverted |-> <<>>, acks |-> {}]

Init ==
    /\ cache = [k \in {} |-> {}]
    /\ acked = {}
    /\ call = [c \in Callers |-> NewCall("idle", <<>>)]

Put(m, k, v) == [x \in DOMAIN m \cup {k} |-> IF x = k THEN v ELSE m[x]]

ConvertMetrics(c, b) ==
    /\ call[c].pc = "idle"
    /\ call' = [call EXCEPT ![c] = NewCall("check", b)]
    /\ UNCHANGED <<cache, acked>>

-----------------------------------------------------------------------------
(* checkCache, one metric at a time: every cache.Get takes the cache's lock *)
(* anew.                                                                    *)

Checked(q) == Len(q.compact) + Len(q.misses)

(* Bug: a change of the metadata goes unnoticed.                        *)
HitOnKey(m) == m.key \in DOMAIN cache

Hit(m) == m.key \in DOMAIN cache /\ cache[m.key].hash = Hash(m.meta)

CheckNext(c) ==
    LET q == call[c]
        i == Checked(q) + 1
        m == q.batch[i]
    IN  /\ q.pc = "check"
        /\ i <= Len(q.batch)
        /\ call' = [call EXCEPT ![c] =
               IF Hit(m)
               THEN [q EXCEPT !.compact = Append(@, [id |-> cache[m.key].id, point |-> i])]
               ELSE [q EXCEPT !.misses = Append(@, i)]]
        /\ UNCHANGED <<cache, acked>>

EndCheck(c) ==
    LET q == call[c]
    IN  /\ q.pc = "check"
        /\ Checked(q) = Len(q.batch)
        /\ call' = [call EXCEPT ![c] =
               [q EXCEPT !.pc = IF q.misses = <<>> THEN "idle" ELSE "register",
                         !.ids = [i \in 1..Len(q.misses) |-> NoId]]]
        /\ UNCHANGED <<cache, acked>>

-----------------------------------------------------------------------------
(* registerMetrics: a call for all misses, then one for those that failed. *)

Registering(q) == q.pc \in {"register", "retry"}

(* The index in misses of the j-th metric of the request under way.        *)
Index(q, j) == IF q.pc = "register" THEN j ELSE q.failed[j]

Requests(q) == 1..(IF q.pc = "register" THEN Len(q.misses) ELSE Len(q.failed))

Position(q, j) == q.misses[Index(q, j)]
Requested(q, j) == q.batch[Position(q, j)]

(* Bug: attempts are not limited.                                       *)
CallFailsForEver(c) ==
    LET q == call[c]
    IN  /\ Registering(q)
        /\ call' = [call EXCEPT ![c].tries = (@ + 1) % NumberOfRetries]
        /\ UNCHANGED <<cache, acked>>

(* Bug: the second call's failure is that of the first too.             *)
CallFailsForgetsFirst(c) ==
    LET q == call[c]
    IN  /\ Registering(q)
        /\ call' = [call EXCEPT ![c] =
               [q EXCEPT !.pc = "fill", !.tries = 0, !.ids = [i \in DOMAIN q.ids |-> NoId]]]
        /\ UNCHANGED <<cache, acked>>

(* backoff.Retry gives up after MaxTries, or earlier when the context ends. *)
(* After the first call every miss has failed; after the second the        *)
(* successes of the first stand.                                           *)
CallFails(c) ==
    LET q == call[c]
    IN  /\ Registering(q)
        /\ \/ /\ q.tries + 1 < NumberOfRetries
              /\ call' = [call EXCEPT ![c] = [q EXCEPT !.tries = @ + 1]]
           \/ call' = [call EXCEPT ![c] = [q EXCEPT !.pc = "fill", !.tries = 0]]
        /\ UNCHANGED <<cache, acked>>

(* Bug: the answers of the second call are taken for the first metrics. *)
IdsByAnswer(q, J) ==
    [i \in DOMAIN q.ids |-> IF i \in J THEN Requested(q, i).key ELSE q.ids[i]]

(* The ids after an answer that acknowledges the metrics J.                *)
Ids(q, J) ==
    [i \in DOMAIN q.ids |->
        IF \E j \in J : Index(q, j) = i
        THEN Requested(q, CHOOSE j \in J : Index(q, j) = i).key
        ELSE q.ids[i]]

(* What an answer that acknowledges the metrics J leaves of the call.      *)
Acknowledge(q, J) ==
    [q EXCEPT !.tries = 0,
              !.ids = Ids(q, J),
              !.acks = @ \cup {Position(q, j) : j \in J}]

Known(q, J) == {<<Requested(q, j).key, Hash(Requested(q, j).meta)>> : j \in J}

(* The first answer: the failed metrics, in order, make up a second call.  *)
Registered(c) ==
    LET q == call[c]
    IN  /\ q.pc = "register"
        /\ \E J \in SUBSET Requests(q) :
               LET bad == Requests(q) \ J
               IN  /\ acked' = acked \cup Known(q, J)
                   /\ \E f \in [1..Cardinality(bad) -> bad] :
                          /\ \A i, j \in DOMAIN f : i < j => f[i] < f[j]
                          /\ call' = [call EXCEPT ![c] =
                                 [Acknowledge(q, J) EXCEPT
                                     !.pc = IF bad = {} THEN "fill" ELSE "retry",
                                     !.failed = f]]
        /\ UNCHANGED cache

(* The second answer: errors left are final.                               *)
Retried(c) ==
    LET q == call[c]
    IN  /\ q.pc = "retry"
        /\ \E J \in SUBSET Requests(q) :
               /\ acked' = acked \cup Known(q, J)
               /\ call' = [call EXCEPT ![c] = [Acknowledge(q, J) EXCEPT !.pc = "fill"]]
        /\ UNCHANGED cache

-----------------------------------------------------------------------------
(* The rest of ConvertMetrics: an id goes to the result and to the cache.  *)

(* How many metrics of the batch are in neither result yet.                *)
Left(q) == Len(q.batch) - Len(q.compact) - Len(q.unconverted)

Fill(c) ==
    LET q  == call[c]
        n  == Len(q.misses) - Left(q) + 1
        i  == q.misses[n]
        m  == q.batch[i]
        id == q.ids[n]
        pc == IF Left(q) = 1 THEN "idle" ELSE "fill"
    IN  /\ q.pc = "fill"
        /\ IF id # NoId
           THEN /\ call' = [call EXCEPT ![c] =
                       [q EXCEPT !.pc = pc,
                                 !.compact = Append(@, [id |-> id, point |-> i])]]
                /\ cache' = Put(cache, m.key, [id |-> id, hash |-> Hash(m.meta)])
           ELSE /\ call' = [call EXCEPT ![c] =
                       [q EXCEPT !.pc = pc, !.unconverted = Append(@, i)]]
                /\ UNCHANGED cache
        /\ UNCHANGED acked

(* An entry's TTL ends, or the cache is full.                              *)
Expire(k) ==
    /\ k \in DOMAIN cache
    /\ cache' = [x \in DOMAIN cache \ {k} |-> cache[x]]
    /\ UNCHANGED <<acked, call>>

Steps(c) ==
    \/ CheckNext(c) \/ EndCheck(c)
    \/ CallFails(c) \/ Registered(c) \/ Retried(c)
    \/ Fill(c)

Next ==
    \/ \E c \in Callers : (\E b \in Batches : ConvertMetrics(c, b)) \/ Steps(c)
    \/ \E k \in Keys : Expire(k)

Spec == Init /\ [][Next]_vars

(* A call to the registry is answered or fails, for streams are broken in  *)
(* the end; everything else is the caller's own goroutine.                 *)
FairSpec == Spec /\ \A c \in Callers : WF_vars(Steps(c))

-----------------------------------------------------------------------------
TypeOK ==
    /\ DOMAIN cache \subseteq Keys /\ cache \in [DOMAIN cache -> Entry]
    /\ acked \subseteq Keys \X Metadata
    /\ call \in [Callers -> Call]

Points(q) == {q.compact[j].point : j \in DOMAIN q.compact}
Failures(q) == {q.unconverted[j] : j \in DOMAIN q.unconverted}

Increasing(s) == \A i, j \in DOMAIN s : i < j => s[i] < s[j]

(* The results of a call are complete and correct.                         *)
Converted(q) ==
    /\ Points(q) \cup Failures(q) = 1..Len(q.batch)
    /\ Points(q) \cap Failures(q) = {}
    /\ \A i, j \in DOMAIN q.compact : q.compact[i].point = q.compact[j].point => i = j
    /\ Increasing(q.unconverted)
    /\ \A j \in DOMAIN q.compact : q.compact[j].id = q.batch[q.compact[j].point].key

(* When ConvertMetrics returns, every metric of the batch is in exactly    *)
(* one of its results and there once, those that failed are in the order   *)
(* of the batch, and each compact metric has the id of its own metric:     *)
(* whatever was a hit, failed once, or was answered in the second call     *)
(* (endpoint.go:488-526, 550-600).                                         *)
ConvertCorrect == \A c \in Callers : call[c].pc = "idle" => Converted(call[c])

(* A compact metric leaves its metadata out: the registry has acknowledged *)
(* exactly this metadata for its id, in this call or, for a hit, when some *)
(* caller filled the cache (checkCache, endpoint.go:453-485).              *)
CompactWasRegistered ==
    \A c \in Callers : \A j \in DOMAIN call[c].compact :
        LET m == call[c].compact[j]
        IN  <<m.id, Hash(call[c].batch[m.point].meta)>> \in acked

(* A metric the registry has acknowledged in one of the two requests of a  *)
(* call is not given back as failed, though the other request may have     *)
(* failed as a whole (endpoint.go:551-602).                                *)
NoAckForgotten == \A c \in Callers : Failures(call[c]) \cap call[c].acks = {}

(* ConvertMetrics returns, for its attempts are counted.                   *)
ConvertReturns == \A c \in Callers : call[c].pc # "idle" ~> call[c].pc = "idle"
=============================================================================
