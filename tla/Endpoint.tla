------------------------------- MODULE Endpoint -------------------------------
(***************************************************************************)
(* What an endpoint does with the items it is given: the Put calls, the    *)
(* five bundlers, the sends and Flush of endpoint.go, and the tracker of   *)
(* internal/ttl that holds back models sent before.  A bundler is          *)
(* external (google.golang.org/api/support/bundler): it is modelled as the *)
(* endpoint configures and calls it, every item having size 1.  Goroutines *)
(* call Put at the same time; bundles are sent by goroutines of their      *)
(* bundler; a send may fail as a whole or in part.  Statistics are kept as *)
(* "owed": what is recorded as received and neither as failed nor as sent. *)
(***************************************************************************)
EXTENDS Integers, FiniteSetsExt, SequencesExt, Totals

CONSTANTS
    FlushOrder,             \* the bundlers, as Flush comes to them: "models", "metrics",
                            \* "compactMetrics", "taggedMetrics", "events" in the code
    Callers,                \* goroutines that call Put
    Requests,               \* what they call it with: sequences of items
    ModelKeys, ModelValues, \* hashes of the dimensions and the metadata of models
    Metrics,                \* items of the other kinds, told apart by nothing
    BundleCountThreshold,   \* items that make a bundle full
    BufferedByteLimit,      \* items a bundler keeps, those being sent included
    HandlerLimit,           \* bundles of one bundler that are sent at the same time
    ModelTTL                \* in ticks of the tracker, one second in the code

Kinds == Range(FlushOrder)

Model == [kind : {"models"}, key : ModelKeys, value : ModelValues]
Item  == Model \cup [kind : Kinds \ {"models"}, key : Metrics]

ASSUME EndpointAssumption ==
    /\ FlushOrder \in Seq(STRING) /\ IsInjective(FlushOrder) /\ "models" \in Kinds
    /\ IsFiniteSet(Callers) /\ \A request \in Requests : request \in Seq(Item)
    /\ BundleCountThreshold \in Nat \ {0} /\ BufferedByteLimit \in Nat \ {0}
    /\ HandlerLimit \in Nat \ {0}
    /\ ModelTTL \in Nat

VARIABLES
    current,    \* kind -> the items of the bundle being filled
    bundles,    \* kind -> full bundles, in order, each being sent or waiting to be
    tracker,    \* model key -> value and age of the model last let through
    call,       \* what each goroutine still has to do in its Put call
    flush,      \* the call of Flush: the bundler it is at, the bundles it waits for
    owed,       \* kind -> received - failed - sent, models held back left out
    older       \* history: kind -> bundles left of those there when Flush was called

bundlers == <<current, bundles>>
vars == <<current, bundles, tracker, call, flush, owed, older>>

NoCall == [pc |-> "idle", todo |-> <<>>, received |-> <<>>, failed |-> <<>>]

Init ==
    /\ current = [k \in Kinds |-> <<>>]
    /\ bundles = [k \in Kinds |-> <<>>]
    /\ tracker = [key \in {} |-> [value |-> 0, age |-> 0]]
    /\ call = [c \in Callers |-> NoCall]
    /\ flush = [at |-> 0, wait |-> 0]
    /\ owed = [k \in Kinds |-> 0]
    /\ older = [k \in Kinds |-> 0]

-----------------------------------------------------------------------------
(* The tracker.  An entry's age is the time since it was made; ages beyond *)
(* ModelTTL are not told apart.                                            *)

IsAlive(m) == m.key \in DOMAIN tracker /\ tracker[m.key].value = m.value

Marked(m) ==
    [key \in DOMAIN tracker \cup {m.key} |->
        IF key = m.key THEN [value |-> m.value, age |-> 0] ELSE tracker[key]]

(* Bug: being held back makes an entry live longer.                     *)
TrackedAnew(m) == Marked(m)

(* What IsAlive leaves of the tracker: an entry that is alive keeps its time. *)
Tracked(m) == IF IsAlive(m) THEN tracker ELSE Marked(m)

Clock ==
    /\ \E key \in DOMAIN tracker : tracker[key].age <= ModelTTL
    /\ tracker' = [key \in DOMAIN tracker |->
           [tracker[key] EXCEPT !.age = IF @ > ModelTTL THEN @ ELSE @ + 1]]
    /\ UNCHANGED <<bundlers, call, flush, owed, older>>

AgeAll ==
    LET expired == {key \in DOMAIN tracker : tracker[key].age > ModelTTL}
    IN  /\ expired # {}
        /\ tracker' = [key \in DOMAIN tracker \ expired |-> tracker[key]]
        /\ UNCHANGED <<bundlers, call, flush, owed, older>>

-----------------------------------------------------------------------------
(* Bundlers.                                                               *)

(* Items a bundler keeps: those of its bundles and of the one being filled. *)
Buffered(k) ==
    Len(current[k]) + Total([i \in DOMAIN bundles[k] |-> Len(bundles[k][i].items)])

Bundle(items) == [items |-> items, sending |-> FALSE]

(* The bundle being filled joins the others (a full one, a delay, a Flush). *)
Enqueued(k, items) ==
    /\ bundles' = [bundles EXCEPT ![k] = IF items = <<>> THEN @ ELSE Append(@, Bundle(items))]
    /\ current' = [current EXCEPT ![k] = <<>>]

(* Bundler.Add with size 1; full bundles do not wait for the delay.        *)
BundlerAdd(item) ==
    LET k     == item.kind
        items == Append(current[k], item)
    IN  IF Len(items) >= BundleCountThreshold
        THEN Enqueued(k, items)
        ELSE current' = [current EXCEPT ![k] = items] /\ UNCHANGED bundles

(* BundleDelayThreshold has passed.                                        *)
DelayPasses(k) ==
    /\ current[k] # <<>>
    /\ Enqueued(k, current[k])
    /\ UNCHANGED <<tracker, call, flush, owed, older>>

Sending(k) == {i \in DOMAIN bundles[k] : bundles[k][i].sending}

(* Bundles are sent in their order, up to HandlerLimit at the same time.   *)
BeginSend(k) ==
    LET waiting == DOMAIN bundles[k] \ Sending(k)
    IN  /\ waiting # {}
        /\ Cardinality(Sending(k)) < HandlerLimit
        /\ bundles' = [bundles EXCEPT ![k][Min(waiting)].sending = TRUE]
        /\ UNCHANGED <<current, tracker, call, flush, owed, older>>

-----------------------------------------------------------------------------
(* putMetrics, putModels and putEvents: the receiver takes some items of a *)
(* bundle and refuses the others, or the call fails.                       *)

(* Bug: a call that fails counts nothing.                               *)
FailedWithAnswer(bundle, error, taken) == IF error THEN 0 ELSE Len(bundle.items) - taken

Failed(bundle, error, taken) == Len(bundle.items) - (IF error THEN 0 ELSE taken)

Succeeded(error, taken) == IF error THEN 0 ELSE taken

WaitsFor(k, i) == flush.at > 0 /\ FlushOrder[flush.at] = k /\ i <= flush.wait

EndSend(k, i) ==
    LET bundle == bundles[k][i]
    IN  /\ i \in Sending(k)
        /\ \E error \in BOOLEAN, taken \in 0..Len(bundle.items) :
               owed' = [owed EXCEPT ![k] =
                   @ - Failed(bundle, error, taken) - Succeeded(error, taken)]
        /\ bundles' = [bundles EXCEPT ![k] = RemoveAt(@, i)]
        /\ flush' = IF WaitsFor(k, i) THEN [flush EXCEPT !.wait = @ - 1] ELSE flush
        /\ older' = [older EXCEPT ![k] = IF i <= @ THEN @ - 1 ELSE @]
        /\ UNCHANGED <<current, tracker, call>>

-----------------------------------------------------------------------------
(* PutEvents, PutMetrics and PutModels, one item at a time.                *)

Count(items, k) == Cardinality({j \in DOMAIN items : items[j].kind = k})

Put(c, request) ==
    /\ call[c].pc = "idle"
    /\ call' = [call EXCEPT ![c] =
           [pc |-> "next", todo |-> request,
            received |-> [k \in Kinds |-> Count(request, k)],
            failed |-> [k \in Kinds |-> 0]]]
    /\ UNCHANGED <<bundlers, tracker, flush, owed, older>>

AtModel(c) == call[c].pc = "next" /\ call[c].todo # <<>> /\ Head(call[c].todo) \in Model

(* A model that is alive is neither sent nor failed: "received" leaves it   *)
(* out here, so that the statistics of the code can be compared.           *)
HoldBack(c) ==
    LET m == Head(call[c].todo)
    IN  /\ AtModel(c)
        /\ IsAlive(m)
        /\ tracker' = Tracked(m)
        /\ call' = [call EXCEPT ![c].todo = Tail(@), ![c].received["models"] = @ - 1]
        /\ UNCHANGED <<bundlers, flush, owed, older>>

LetThrough(c) ==
    LET m == Head(call[c].todo)
    IN  /\ AtModel(c)
        /\ ~IsAlive(m)
        /\ tracker' = Tracked(m)
        /\ call' = [call EXCEPT ![c].pc = "add"]
        /\ UNCHANGED <<bundlers, flush, owed, older>>

AtAdd(c) == call[c].pc = "add" \/ (call[c].pc = "next" /\ call[c].todo # <<>> /\ ~AtModel(c))

(* Bug: the buffer takes one item more.                                 *)
AddOneMore(c) ==
    LET item == Head(call[c].todo)
    IN  /\ AtAdd(c)
        /\ Buffered(item.kind) <= BufferedByteLimit
        /\ BundlerAdd(item)
        /\ call' = [call EXCEPT ![c].pc = "next", ![c].todo = Tail(@)]
        /\ UNCHANGED <<tracker, flush, owed, older>>

Add(c) ==
    LET item == Head(call[c].todo)
    IN  /\ AtAdd(c)
        /\ Buffered(item.kind) < BufferedByteLimit
        /\ BundlerAdd(item)
        /\ call' = [call EXCEPT ![c].pc = "next", ![c].todo = Tail(@)]
        /\ UNCHANGED <<tracker, flush, owed, older>>

(* Bug: an item the bundler refuses is not counted.                     *)
AddRefusedUncounted(c) ==
    LET item == Head(call[c].todo)
    IN  /\ AtAdd(c)
        /\ Buffered(item.kind) >= BufferedByteLimit
        /\ call' = [call EXCEPT ![c].pc = "next", ![c].todo = Tail(@)]
        /\ UNCHANGED <<bundlers, tracker, flush, owed, older>>

(* ErrOverflow.                                                            *)
AddRefused(c) ==
    LET item == Head(call[c].todo)
    IN  /\ AtAdd(c)
        /\ Buffered(item.kind) >= BufferedByteLimit
        /\ call' = [call EXCEPT ![c].pc = "next", ![c].todo = Tail(@),
                                ![c].failed[item.kind] = @ + 1]
        /\ UNCHANGED <<bundlers, tracker, flush, owed, older>>

(* The statistics of a call are recorded when it returns.                  *)
EndPut(c) ==
    /\ call[c].pc = "next" /\ call[c].todo = <<>>
    /\ owed' = [k \in Kinds |-> owed[k] + call[c].received[k] - call[c].failed[k]]
    /\ call' = [call EXCEPT ![c] = NoCall]
    /\ UNCHANGED <<bundlers, tracker, flush, older>>

-----------------------------------------------------------------------------
(* Flush, bundler by bundler: fill no more, wait for the bundles there are. *)

(* Bug: the bundle being filled is left for later.                      *)
FlushBundlerFullOnly(n) ==
    /\ flush' = [at |-> n, wait |-> Len(bundles[FlushOrder[n]])]
    /\ UNCHANGED bundlers

FlushBundler(n) ==
    LET k == FlushOrder[n]
    IN  /\ Enqueued(k, current[k])
        /\ flush' = [at |-> n, wait |-> Len(bundles'[k])]

(* Bundles a Flush called now has to wait for.                             *)
Present(k) == Len(bundles[k]) + (IF current[k] = <<>> THEN 0 ELSE 1)

Flush ==
    /\ flush.at = 0
    /\ FlushBundler(1)
    /\ older' = [k \in Kinds |-> Present(k)]
    /\ UNCHANGED <<tracker, call, owed>>

(* Bug: Flush goes on when the bundler is empty.                        *)
FlushNextWhenEmpty ==
    /\ flush.at \in 1..Len(FlushOrder) - 1 /\ Buffered(FlushOrder[flush.at]) = 0
    /\ FlushBundler(flush.at + 1)
    /\ UNCHANGED <<tracker, call, owed, older>>

FlushNext ==
    /\ flush.at \in 1..Len(FlushOrder) - 1 /\ flush.wait = 0
    /\ FlushBundler(flush.at + 1)
    /\ UNCHANGED <<tracker, call, owed, older>>

FlushReturn ==
    /\ flush.at = Len(FlushOrder) /\ flush.wait = 0
    /\ flush' = [at |-> 0, wait |-> 0]
    /\ UNCHANGED <<bundlers, tracker, call, owed, older>>

-----------------------------------------------------------------------------
PutSteps(c) == HoldBack(c) \/ LetThrough(c) \/ Add(c) \/ AddRefused(c) \/ EndPut(c)
EndSends(k) == \E i \in 1..BufferedByteLimit : EndSend(k, i)
BundlerSteps(k) == DelayPasses(k) \/ BeginSend(k) \/ EndSends(k)

Next ==
    \/ \E c \in Callers : (\E request \in Requests : Put(c, request)) \/ PutSteps(c)
    \/ \E k \in Kinds : BundlerSteps(k)
    \/ Flush \/ FlushNext \/ FlushReturn
    \/ Clock \/ AgeAll

Spec == Init /\ [][Next]_vars

(* Sends end within config.Timeout, the bundler's timer and the tracker's  *)
(* ticker run, and a goroutine in a call goes on.  Nobody has to call Put  *)
(* or Flush.                                                               *)
Fairness ==
    /\ \A c \in Callers : WF_vars(PutSteps(c))
    /\ \A k \in Kinds : /\ WF_vars(DelayPasses(k)) /\ WF_vars(BeginSend(k))
                        /\ \A i \in 1..BufferedByteLimit : WF_vars(EndSend(k, i))
    /\ WF_vars(FlushNext) /\ WF_vars(FlushReturn)
    /\ WF_vars(Clock) /\ WF_vars(AgeAll)

FairSpec == Spec /\ Fairness

-----------------------------------------------------------------------------
Bundles == [items : Seq(Item), sending : BOOLEAN]

Calls ==
    [pc : {"next", "add"}, todo : Seq(Item), received : [Kinds -> Int], failed : [Kinds -> Nat]]

TypeOK ==
    /\ current \in [Kinds -> Seq(Item)]
    /\ bundles \in [Kinds -> Seq(Bundles)]
    /\ DOMAIN tracker \subseteq ModelKeys
    /\ tracker \in [DOMAIN tracker -> [value : ModelValues, age : 0..ModelTTL + 1]]
    /\ call \in [Callers -> {NoCall} \cup Calls]
    /\ \A c \in Callers : call[c].pc = "add" => call[c].todo # <<>>
    /\ flush \in [at : 0..Len(FlushOrder), wait : Nat]
    /\ owed \in [Kinds -> Int]
    /\ older \in [Kinds -> Nat]

(* What a call has put into bundler k and not recorded yet: no fewer than  *)
(* no items.                                                               *)
Unrecorded(c, k) ==
    IF call[c].pc = "idle" THEN 0
    ELSE call[c].received[k] - call[c].failed[k] - Count(call[c].todo, k)

(* Every item is accounted for once: what the statistics have as received  *)
(* and neither failed nor sent is in a bundle, though a refused item is    *)
(* counted by its call and an accepted one by its send, which may come     *)
(* first and fail in part (endpoint.go:683-688, 959-967).                  *)
Accounted ==
    \A k \in Kinds :
        /\ \A c \in Callers : Unrecorded(c, k) \in Nat
        /\ owed[k] + Total([c \in Callers |-> Unrecorded(c, k)]) = Buffered(k)

(* No bundler keeps more than BufferedByteLimit, whoever adds to it, and   *)
(* no bundle more than BundleCountThreshold (endpoint.go:159-186, 366-378).  *)
WithinLimits ==
    \A k \in Kinds :
        /\ Buffered(k) <= BufferedByteLimit
        /\ Len(current[k]) < BundleCountThreshold
        /\ \A i \in DOMAIN bundles[k] : Len(bundles[k][i].items) \in 1..BundleCountThreshold

(* Flush returns when all that was accepted before it was called has been  *)
(* sent, of every kind and whatever is added meanwhile (endpoint.go:845-851). *)
FlushWaits == [][flush.at # 0 /\ flush'.at = 0 => \A k \in Kinds : older[k] = 0]_vars

(* Flush returns though Put calls go on for ever.                          *)
FlushReturns == flush.at # 0 ~> flush.at = 0

(* When the program puts no more, the statistics settle though it never    *)
(* calls Flush: what they have as received is in the end all failed or     *)
(* sent, in however small a bundle it was left, behind whatever sends, and *)
(* whether they or its own Add failed (endpoint.go:361, 377, 683-688).     *)
StatisticsSettle ==
    <>[](\A c \in Callers : call[c].pc = "idle")
        => <>[](\A k \in Kinds : Buffered(k) = 0 /\ owed[k] = 0)

(* A model that is put again and again is sent again and again: being held *)
(* back does not make it live longer (ttl.go:55-69).                       *)
ModelIsRepeated ==
    \A m \in Model :
        []<><<\E c \in Callers : HoldBack(c) /\ Head(call[c].todo) = m>>_vars
            => []<><<\E c \in Callers : LetThrough(c) /\ Head(call[c].todo) = m>>_vars
=============================================================================
