----------------------- MODULE MetricRegistrationProofs -----------------------
(***************************************************************************)
(* Proofs about MetricRegistration, for any number of goroutines, every    *)
(* set of batches and of excluded tags, and any number of retries.         *)
(***************************************************************************)
EXTENDS MetricRegistration, TLAPS, SequenceTheorems, FiniteSetTheorems

(* The indices of misses still without a result, and the positions that    *)
(* have been looked at in checkCache.                                      *)
Handled(q) == IF q.pc = "check" THEN 0 ELSE Len(q.misses) - Left(q)
Rest(q) == {q.misses[k] : k \in (Handled(q) + 1)..Len(q.misses)}
Reached(q) == IF q.pc = "check" THEN Checked(q) ELSE Len(q.batch)

(* How far the results are, by the place of the call.                      *)
Progress(q) ==
    /\ q.pc = "check" => q.unconverted = <<>> /\ q.acks = {} /\ Checked(q) <= Len(q.batch)
    /\ Registering(q) => q.unconverted = <<>> /\ Left(q) = Len(q.misses) /\ q.misses # <<>>
    /\ q.pc = "fill" => Left(q) \in 1..Len(q.misses)
    /\ q.pc = "idle" => Left(q) = 0
    /\ q.pc # "check" => Len(q.ids) = Len(q.misses)
    /\ q.pc = "retry" => \A j \in DOMAIN q.failed : q.failed[j] \in 1..Len(q.misses)

(* Every position reached is in one of the results or has still to go to   *)
(* one, once, and those still to go come after the failures.               *)
Partition(q) ==
    /\ Points(q) \cup Failures(q) \cup Rest(q) = 1..Reached(q)
    /\ Points(q) \cap Failures(q) = {}
    /\ (Points(q) \cup Failures(q)) \cap Rest(q) = {}
    /\ \A i, j \in DOMAIN q.compact : q.compact[i].point = q.compact[j].point => i = j
    /\ Increasing(q.misses)
    /\ \A k \in DOMAIN q.misses : q.misses[k] \in 1..Len(q.batch)
    /\ Increasing(q.unconverted)
    /\ \A j \in DOMAIN q.unconverted : \A p \in Rest(q) : q.unconverted[j] < p

(* What is known of a metric that has an id: it is its own, and the        *)
(* registry has acknowledged its metadata.                                 *)
Earned(q, ak, p, id) ==
    /\ p \in 1..Len(q.batch)
    /\ id = q.batch[p].key
    /\ <<id, Hash(q.batch[p].meta)>> \in ak

IdsEarned(q, ak) ==
    /\ \A j \in DOMAIN q.compact : Earned(q, ak, q.compact[j].point, q.compact[j].id)
    /\ q.pc # "check" =>
        \A i \in DOMAIN q.misses : q.ids[i] # NoId => Earned(q, ak, q.misses[i], q.ids[i])

(* A failure has no id, and an acknowledged position has one.              *)
AcksKept(q) ==
    /\ \A j \in DOMAIN q.unconverted :
           \E k \in DOMAIN q.misses : q.misses[k] = q.unconverted[j] /\ q.ids[k] = NoId
    /\ \A p \in q.acks : \E k \in DOMAIN q.misses : q.misses[k] = p /\ q.ids[k] # NoId

CallInv(q, ak) == Progress(q) /\ Partition(q) /\ IdsEarned(q, ak) /\ AcksKept(q)

CacheInv ==
    \A k \in DOMAIN cache : cache[k].id = k /\ <<k, cache[k].hash>> \in acked

IInv == TypeOK /\ CacheInv /\ \A c \in Callers : CallInv(call[c], acked)

CacheOK == DOMAIN cache \subseteq Keys /\ cache \in [DOMAIN cache -> Entry]

(* What is acknowledged stays acknowledged. *)
LEMMA StillEarned ==
    ASSUME NEW q, NEW ak, NEW bk, ak \subseteq bk, CallInv(q, ak)
    PROVE  CallInv(q, bk)
<1>1. \A p, id : Earned(q, ak, p, id) => Earned(q, bk, p, id)
  BY DEF Earned
<1>2. IdsEarned(q, bk)
  BY <1>1 DEF CallInv, IdsEarned
<1>. QED
  BY <1>2 DEF CallInv

(* A step of one caller leaves the invariant when its own call keeps it. *)
LEMMA OneCall ==
    ASSUME IInv, NEW c \in Callers, NEW r \in Call, call' = [call EXCEPT ![c] = r],
           acked \subseteq acked', acked' \subseteq Keys \X Metadata,
           CacheOK', CacheInv', CallInv(r, acked')
    PROVE  IInv'
<1>1. call \in [Callers -> Call]
  BY DEF IInv, TypeOK
<1>2. TypeOK'
  BY <1>1 DEF TypeOK, CacheOK
<1>3. ASSUME NEW d \in Callers PROVE CallInv(call[d], acked)'
  <2>1. CASE d = c
    BY <1>1, <2>1
  <2>2. CASE d # c
    <3>1. call'[d] = call[d] /\ CallInv(call[d], acked)
      BY <1>1, <2>2 DEF IInv
    <3>2. CallInv(call[d], acked')
      BY <3>1, StillEarned
    <3>. QED
      BY <3>1, <3>2
  <2>. QED
    BY <2>1, <2>2
<1>. QED
  BY <1>2, <1>3 DEF IInv

LEMMA HashType == ASSUME NEW m \in Metadata PROVE Hash(m) \in Metadata
<1>1. PICK T \in SUBSET Tags : m \in [T -> Values]
  BY DEF Metadata
<1>2. Hash(m) \in [T \ ExcludedTags -> Values]
  BY <1>1 DEF Hash
<1>. QED
  BY <1>2 DEF Metadata

LEMMA BatchType ==
    ASSUME NEW q \in Call
    PROVE  /\ q.batch \in Seq(Metric) /\ Len(q.batch) \in Nat
           /\ \A i \in 1..Len(q.batch) :
                  q.batch[i].key \in Keys /\ Hash(q.batch[i].meta) \in Metadata
<1>1. q.batch \in Seq(Metric)
  <2>1. q.batch \in Batches \cup {<<>>}
    BY DEF Call
  <2>2. <<>> \in Seq(Metric)
    OBVIOUS
  <2>. QED
    BY <2>1, <2>2, MetricRegistrationAssumption
<1>2. \A i \in 1..Len(q.batch) : q.batch[i] \in Metric
  BY <1>1
<1>. QED
  BY <1>1, <1>2, HashType DEF Metric

(* Sums and differences of lengths. *)
LEMMA Sums ==
    ASSUME NEW a \in Nat, NEW b \in Nat, NEW d \in Nat
    PROVE  /\ a + b \in Nat /\ (a + 1) + b = (a + b) + 1 /\ a + (b + 1) = (a + b) + 1
           /\ a - b - d \in Int
           /\ a - (b + 1) - d = (a - b - d) - 1 /\ a - b - (d + 1) = (a - b - d) - 1
  OBVIOUS

LEMMA CallFields ==
    ASSUME NEW q \in Call
    PROVE  /\ q.compact \in Seq(Compact) /\ q.misses \in Seq(Nat)
           /\ q.ids \in Seq(Keys \cup {NoId}) /\ q.failed \in Seq(Nat)
           /\ q.unconverted \in Seq(Nat) /\ q.acks \in SUBSET Nat
           /\ Len(q.compact) \in Nat /\ Len(q.misses) \in Nat /\ Len(q.unconverted) \in Nat
           /\ Len(q.failed) \in Nat /\ Len(q.batch) \in Nat
           /\ Checked(q) \in Nat /\ Left(q) \in Int
<1>1. /\ q.compact \in Seq(Compact) /\ q.misses \in Seq(Nat)
      /\ q.ids \in Seq(Keys \cup {NoId}) /\ q.failed \in Seq(Nat)
      /\ q.unconverted \in Seq(Nat) /\ q.acks \in SUBSET Nat
  BY DEF Call
<1>2. /\ Len(q.compact) \in Nat /\ Len(q.misses) \in Nat /\ Len(q.unconverted) \in Nat
      /\ Len(q.failed) \in Nat
  BY <1>1
<1>3. Len(q.batch) \in Nat
  BY BatchType
<1>4. Checked(q) \in Nat /\ Left(q) \in Int
  BY <1>2, <1>3, Sums DEF Checked, Left
<1>. QED
  BY <1>1, <1>2, <1>3, <1>4

LEMMA Appended ==
    ASSUME NEW S, NEW s \in Seq(S), NEW e \in S
    PROVE  /\ Append(s, e) \in Seq(S)
           /\ Len(Append(s, e)) = Len(s) + 1
           /\ DOMAIN Append(s, e) = 1..(Len(s) + 1) /\ DOMAIN s = 1..Len(s)
           /\ Append(s, e)[Len(s) + 1] = e
           /\ \A j \in 1..Len(s) : Append(s, e)[j] = s[j]
  OBVIOUS

LEMMA OneMore ==
    ASSUME NEW n \in Nat
    PROVE  1..(n + 1) = 1..n \cup {n + 1} /\ n + 1 \notin 1..n
  OBVIOUS

LEMMA AppendedDomain ==
    ASSUME NEW S, NEW s \in Seq(S), NEW e \in S
    PROVE  /\ DOMAIN Append(s, e) = DOMAIN s \cup {Len(s) + 1}
           /\ Len(s) + 1 \notin DOMAIN s
           /\ \A j \in DOMAIN s : Append(s, e)[j] = s[j]
<1>1. Len(s) \in Nat
  OBVIOUS
<1>. QED
  BY <1>1, Appended, OneMore

(* What the invariant says of a call in checkCache. *)
LEMMA Checking ==
    ASSUME NEW q \in Call, NEW ak, CallInv(q, ak), q.pc = "check"
    PROVE  /\ q.unconverted = <<>> /\ q.acks = {} /\ Checked(q) <= Len(q.batch)
           /\ Rest(q) = {q.misses[k] : k \in DOMAIN q.misses}
           /\ Failures(q) = {}
           /\ Points(q) \cup Rest(q) = 1..Checked(q)
           /\ Points(q) \cap Rest(q) = {}
<1>1. q.unconverted = <<>> /\ q.acks = {} /\ Checked(q) <= Len(q.batch)
  BY DEF CallInv, Progress
<1>2. Handled(q) = 0 /\ Reached(q) = Checked(q)
  BY DEF Handled, Reached
<1>3. Rest(q) = {q.misses[k] : k \in DOMAIN q.misses}
  <2>1. (Handled(q) + 1)..Len(q.misses) = DOMAIN q.misses
    BY <1>2, CallFields
  <2>. QED
    BY <2>1 DEF Rest
<1>4. Failures(q) = {}
  BY <1>1 DEF Failures
<1>. QED
  BY <1>1, <1>2, <1>3, <1>4 DEF CallInv, Partition

(* A hit adds its own point to the compact metrics. *)
LEMMA HitKeeps ==
    ASSUME NEW q \in Call, NEW ak, CallInv(q, ak), q.pc = "check",
           NEW e \in Compact, e.point = Checked(q) + 1, e.point <= Len(q.batch),
           Earned(q, ak, e.point, e.id)
    PROVE  LET r == [q EXCEPT !.compact = Append(@, e)]
           IN  r \in Call /\ CallInv(r, ak)
<1> DEFINE r == [q EXCEPT !.compact = Append(@, e)]
           n == Checked(q)
<1>1. /\ r.pc = "check" /\ r.batch = q.batch /\ r.misses = q.misses /\ r.ids = q.ids
      /\ r.unconverted = q.unconverted /\ r.acks = q.acks
      /\ r.compact = Append(q.compact, e)
  BY DEF Call
<1>2. r \in Call
  <2>1. Append(q.compact, e) \in Seq(Compact)
    BY CallFields
  <2>. QED
    BY <2>1 DEF Call
<1> HIDE DEF r
<1>3. n \in Nat /\ n + 1 = e.point
  BY CallFields
<1>4. /\ Len(r.compact) = Len(q.compact) + 1
      /\ DOMAIN r.compact = 1..(Len(q.compact) + 1) /\ DOMAIN q.compact = 1..Len(q.compact)
      /\ r.compact[Len(q.compact) + 1] = e
      /\ \A j \in 1..Len(q.compact) : r.compact[j] = q.compact[j]
  BY <1>1, CallFields, Appended
<1>5. Checked(r) = n + 1
  <2>1. Len(q.compact) \in Nat /\ Len(q.misses) \in Nat
    BY CallFields
  <2>2. Checked(r) = Len(r.compact) + Len(r.misses) /\ n = Len(q.compact) + Len(q.misses)
    BY DEF Checked
  <2>. QED
    <3>1. Checked(r) = (Len(q.compact) + 1) + Len(q.misses)
      BY <1>1, <1>4, <2>2
    <3>2. (Len(q.compact) + 1) + Len(q.misses) = (Len(q.compact) + Len(q.misses)) + 1
      BY <2>1, Sums
    <3>. QED
      BY <2>2, <3>1, <3>2
<1>6. DOMAIN r.compact = DOMAIN q.compact \cup {Len(q.compact) + 1}
  BY <1>4, CallFields, OneMore
<1>7. Points(r) = Points(q) \cup {n + 1}
  BY <1>3, <1>4, <1>6 DEF Points
<1>8. Handled(r) = 0 /\ Handled(q) = 0 /\ Reached(r) = n + 1
  BY <1>1, <1>5 DEF Handled, Reached
<1>9. Failures(r) = {} /\ Rest(r) = Rest(q)
  BY <1>1, <1>8, Checking DEF Failures, Rest
<1>10. Progress(r)
  BY <1>1, <1>3, <1>5, Checking DEF Progress, Registering
<1>11. Partition(r)
  <2>1. n + 1 \notin Points(q) \cup Rest(q)
    BY <1>3, Checking, OneMore
  <2>2. Points(r) \cup Failures(r) \cup Rest(r) = 1..Reached(r)
    BY <1>3, <1>7, <1>8, <1>9, Checking, OneMore
  <2>3. (Points(r) \cup Failures(r)) \cap Rest(r) = {} /\ Points(r) \cap Failures(r) = {}
    BY <1>7, <1>9, <2>1, Checking
  <2>4. \A i, j \in DOMAIN r.compact : r.compact[i].point = r.compact[j].point => i = j
    <3>1. \A j \in DOMAIN q.compact : q.compact[j].point # n + 1
      BY <2>1 DEF Points
    <3>. QED
      BY <1>3, <1>4, <1>6, <3>1 DEF CallInv, Partition
  <2>5. DOMAIN r.unconverted = {} /\ Increasing(r.unconverted)
    BY <1>1, Checking DEF Increasing
  <2>. QED
    BY <1>1, <2>2, <2>3, <2>4, <2>5 DEF CallInv, Partition
<1>12. IdsEarned(r, ak)
  <2>1. \A p, id : Earned(q, ak, p, id) => Earned(r, ak, p, id)
    BY <1>1 DEF Earned
  <2>. QED
    BY <1>1, <1>4, <1>6, <2>1 DEF CallInv, IdsEarned
<1>13. AcksKept(r)
  BY <1>1, Checking DEF AcksKept
<1>. QED
  BY <1>2, <1>10, <1>11, <1>12, <1>13 DEF CallInv, r

(* A miss adds its position to the misses. *)
LEMMA MissKeeps ==
    ASSUME NEW q \in Call, NEW ak, CallInv(q, ak), q.pc = "check", Checked(q) < Len(q.batch)
    PROVE  LET r == [q EXCEPT !.misses = Append(@, Checked(q) + 1)]
           IN  r \in Call /\ CallInv(r, ak)
<1> DEFINE n == Checked(q)
           r == [q EXCEPT !.misses = Append(@, n + 1)]
<1>1. /\ r.pc = "check" /\ r.batch = q.batch /\ r.compact = q.compact /\ r.ids = q.ids
      /\ r.unconverted = q.unconverted /\ r.acks = q.acks
      /\ r.misses = Append(q.misses, n + 1)
  BY DEF Call
<1>2. n \in Nat /\ n + 1 \in Nat /\ n + 1 \in 1..Len(q.batch)
  BY CallFields
<1>3. r \in Call
  <2>1. Append(q.misses, n + 1) \in Seq(Nat)
    BY <1>2, CallFields, Appended
  <2>. QED
    BY <2>1 DEF Call
<1> HIDE DEF r
<1>4. /\ Len(r.misses) = Len(q.misses) + 1
      /\ DOMAIN r.misses = 1..(Len(q.misses) + 1) /\ DOMAIN q.misses = 1..Len(q.misses)
      /\ r.misses[Len(q.misses) + 1] = n + 1
      /\ \A j \in 1..Len(q.misses) : r.misses[j] = q.misses[j]
  BY <1>1, <1>2, CallFields, Appended
<1>5. Checked(r) = n + 1
  <2>1. Len(q.compact) \in Nat /\ Len(q.misses) \in Nat
    BY CallFields
  <2>2. Checked(r) = Len(r.compact) + Len(r.misses) /\ n = Len(q.compact) + Len(q.misses)
    BY DEF Checked
  <2>. QED
    <3>1. Checked(r) = Len(q.compact) + (Len(q.misses) + 1)
      BY <1>1, <1>4, <2>2
    <3>2. Len(q.compact) + (Len(q.misses) + 1) = (Len(q.compact) + Len(q.misses)) + 1
      BY <2>1, Sums
    <3>. QED
      BY <2>2, <3>1, <3>2
<1>6. DOMAIN r.misses = DOMAIN q.misses \cup {Len(q.misses) + 1}
  BY <1>4, CallFields, OneMore
<1>7. Reached(r) = n + 1 /\ Points(r) = Points(q) /\ Failures(r) = {}
  BY <1>1, <1>5, Checking DEF Reached, Points, Failures
<1>8. Rest(r) = Rest(q) \cup {n + 1}
  <2>1. (Handled(r) + 1)..Len(r.misses) = DOMAIN r.misses
    BY <1>1, <1>4 DEF Handled
  <2>2. Rest(r) = {r.misses[k] : k \in DOMAIN r.misses}
    BY <2>1 DEF Rest
  <2>. QED
    BY <1>4, <1>6, <2>2, Checking
<1>9. Progress(r)
  BY <1>1, <1>2, <1>5, Checking DEF Progress, Registering
<1>10. Partition(r)
  <2>1. n + 1 \notin Points(q) \cup Rest(q)
    BY <1>2, Checking, OneMore
  <2>2. Points(r) \cup Failures(r) \cup Rest(r) = 1..Reached(r)
    BY <1>2, <1>7, <1>8, Checking, OneMore
  <2>3. (Points(r) \cup Failures(r)) \cap Rest(r) = {} /\ Points(r) \cap Failures(r) = {}
    BY <1>7, <1>8, <2>1, Checking
  <2>4. \A k \in DOMAIN q.misses : q.misses[k] \in 1..n
    BY Checking
  <2>5. Increasing(r.misses)
    <3>1. ASSUME NEW i \in DOMAIN r.misses, NEW j \in DOMAIN r.misses, i < j
          PROVE  r.misses[i] < r.misses[j]
      <4>1. i \in DOMAIN q.misses
        BY <1>4, <3>1, CallFields
      <4>2. CASE j \in DOMAIN q.misses
        BY <1>4, <3>1, <4>1, <4>2 DEF CallInv, Partition, Increasing
      <4>3. CASE j = Len(q.misses) + 1
        BY <1>2, <1>4, <2>4, <4>1, <4>3
      <4>. QED
        BY <1>6, <4>2, <4>3
    <3>. QED
      BY <3>1 DEF Increasing
  <2>6. \A k \in DOMAIN r.misses : r.misses[k] \in 1..Len(r.batch)
    BY <1>1, <1>2, <1>4, <1>6 DEF CallInv, Partition
  <2>7. DOMAIN r.unconverted = {} /\ Increasing(r.unconverted)
    BY <1>1, Checking DEF Increasing
  <2>. QED
    BY <1>1, <2>2, <2>3, <2>5, <2>6, <2>7 DEF CallInv, Partition
<1>11. IdsEarned(r, ak)
  <2>1. \A p, id : Earned(q, ak, p, id) => Earned(r, ak, p, id)
    BY <1>1 DEF Earned
  <2>. QED
    BY <1>1, <2>1 DEF CallInv, IdsEarned
<1>12. AcksKept(r)
  BY <1>1, Checking DEF AcksKept
<1>. QED
  BY <1>3, <1>9, <1>10, <1>11, <1>12 DEF CallInv, r

LEMMA Differences ==
    ASSUME NEW a \in Nat, NEW b \in Nat
    PROVE  (a + b) - a - 0 = b /\ b - b = 0
  OBVIOUS

(* When all of the batch is looked up, the misses are what is left. *)
LEMMA EndCheckKeeps ==
    ASSUME NEW q \in Call, NEW ak, CallInv(q, ak), q.pc = "check", Checked(q) = Len(q.batch)
    PROVE  LET r == [q EXCEPT !.pc = IF q.misses = <<>> THEN "idle" ELSE "register",
                              !.ids = [i \in 1..Len(q.misses) |-> NoId]]
           IN  r \in Call /\ CallInv(r, ak)
<1> DEFINE r == [q EXCEPT !.pc = IF q.misses = <<>> THEN "idle" ELSE "register",
                          !.ids = [i \in 1..Len(q.misses) |-> NoId]]
<1>1. /\ r.pc = (IF q.misses = <<>> THEN "idle" ELSE "register")
      /\ r.batch = q.batch /\ r.misses = q.misses /\ r.compact = q.compact
      /\ r.unconverted = q.unconverted /\ r.acks = q.acks
      /\ r.ids = [i \in 1..Len(q.misses) |-> NoId]
  BY DEF Call
<1>2. r \in Call
  <2>1. [i \in 1..Len(q.misses) |-> NoId] \in Seq(Keys \cup {NoId})
    BY CallFields
  <2>. QED
    BY <2>1 DEF Call
<1> HIDE DEF r
<1>3. Left(r) = Len(q.misses) /\ Handled(r) = 0
  <2>1. Left(r) = (Len(q.compact) + Len(q.misses)) - Len(q.compact) - 0
    <3>1. Len(q.unconverted) = 0
      BY Checking
    <3>2. Len(q.batch) = Len(q.compact) + Len(q.misses)
      BY DEF Checked
    <3>. QED
      BY <1>1, <3>1, <3>2 DEF Left
  <2>2. Left(r) = Len(q.misses) /\ Len(q.misses) - Len(q.misses) = 0
    BY <2>1, CallFields, Differences
  <2>. QED
    BY <1>1, <2>2 DEF Handled
<1>4. Points(r) = Points(q) /\ Failures(r) = Failures(q) /\ Rest(r) = Rest(q)
  <2>1. Handled(q) = 0
    BY DEF Handled
  <2>. QED
    BY <1>1, <1>3, <2>1 DEF Points, Failures, Rest
<1>5. Len(r.ids) = Len(q.misses)
  BY <1>1, CallFields
<1>6. Progress(r)
  <2>1. q.misses = <<>> => Len(q.misses) = 0
    OBVIOUS
  <2>. QED
    BY <1>1, <1>3, <1>5, <2>1, Checking DEF Progress, Registering
<1>7. Partition(r)
  <2>1. Reached(r) = Checked(q)
    BY <1>1 DEF Reached
  <2>2. Points(r) \cup Failures(r) \cup Rest(r) = 1..Reached(r)
    BY <1>4, <2>1, Checking
  <2>. QED
    BY <1>1, <1>4, <2>2 DEF CallInv, Partition
<1>8. IdsEarned(r, ak)
  <2>1. \A p, id : Earned(q, ak, p, id) => Earned(r, ak, p, id)
    BY <1>1 DEF Earned
  <2>2. \A i \in DOMAIN q.misses : r.ids[i] = NoId
    BY <1>1, CallFields
  <2>. QED
    BY <1>1, <2>1, <2>2 DEF CallInv, IdsEarned
<1>9. AcksKept(r)
  BY <1>1, Checking DEF AcksKept
<1>. QED
  BY <1>2, <1>6, <1>7, <1>8, <1>9 DEF CallInv, r

(* The metrics of a request are misses. *)
LEMMA RequestedAreMisses ==
    ASSUME NEW q \in Call, NEW ak, CallInv(q, ak), Registering(q), NEW j \in Requests(q)
    PROVE  /\ Index(q, j) \in DOMAIN q.misses /\ Index(q, j) \in DOMAIN q.ids
           /\ Position(q, j) \in 1..Len(q.batch)
           /\ Requested(q, j).key \in Keys
           /\ Hash(Requested(q, j).meta) \in Metadata
<1>1. Index(q, j) \in DOMAIN q.misses
  <2>1. CASE q.pc = "register"
    BY <2>1, CallFields DEF Index, Requests
  <2>2. CASE q.pc = "retry"
    BY <2>2, CallFields DEF Index, Requests, CallInv, Progress
  <2>. QED
    BY <2>1, <2>2 DEF Registering
<1>2. Position(q, j) \in 1..Len(q.batch)
  BY <1>1 DEF Position, CallInv, Partition
<1>3. DOMAIN q.ids = DOMAIN q.misses
  <2>1. Len(q.ids) = Len(q.misses)
    BY DEF CallInv, Progress, Registering
  <2>. QED
    BY <2>1, CallFields
<1>. QED
  BY <1>1, <1>2, <1>3, BatchType DEF Requested

(* An acknowledged metric gets its own id, every other keeps what it has. *)
LEMMA IdsType ==
    ASSUME NEW q \in Call, NEW ak, CallInv(q, ak), Registering(q),
           NEW J \in SUBSET Requests(q)
    PROVE  /\ Ids(q, J) \in Seq(Keys \cup {NoId})
           /\ DOMAIN Ids(q, J) = DOMAIN q.ids /\ DOMAIN q.ids = DOMAIN q.misses
           /\ \A i \in DOMAIN q.ids :
                  \/ \E j \in J : /\ Index(q, j) = i
                                  /\ Ids(q, J)[i] = Requested(q, j).key
                  \/ ~(\E j \in J : Index(q, j) = i) /\ Ids(q, J)[i] = q.ids[i]
<1>1. DOMAIN q.ids = DOMAIN q.misses /\ DOMAIN q.ids = 1..Len(q.ids) /\ Len(q.ids) \in Nat
  <2>1. Len(q.ids) = Len(q.misses)
    BY DEF CallInv, Progress, Registering
  <2>. QED
    BY <2>1, CallFields
<1>2. ASSUME NEW i \in DOMAIN q.ids
      PROVE  \/ \E j \in J : Index(q, j) = i /\ Ids(q, J)[i] = Requested(q, j).key
             \/ ~(\E j \in J : Index(q, j) = i) /\ Ids(q, J)[i] = q.ids[i]
  <2>1. CASE \E j \in J : Index(q, j) = i
    <3>1. PICK j \in J : j = CHOOSE k \in J : Index(q, k) = i
      BY <2>1
    <3>2. Index(q, j) = i
      BY <2>1, <3>1
    <3>3. Ids(q, J)[i] = Requested(q, j).key
      BY <2>1, <3>1 DEF Ids
    <3>. QED
      BY <3>2, <3>3
  <2>2. CASE ~(\E j \in J : Index(q, j) = i)
    BY <2>2 DEF Ids
  <2>. QED
    BY <2>1, <2>2
<1>3. DOMAIN Ids(q, J) = DOMAIN q.ids
  BY DEF Ids
<1>4. \A i \in DOMAIN q.ids : Ids(q, J)[i] \in Keys \cup {NoId}
  <2>1. \A i \in DOMAIN q.ids : q.ids[i] \in Keys \cup {NoId}
    BY CallFields
  <2>. QED
    BY <1>2, <2>1, RequestedAreMisses
<1>5. Ids(q, J) \in [1..Len(q.ids) -> Keys \cup {NoId}]
  BY <1>1, <1>3, <1>4 DEF Ids
<1>6. Ids(q, J) \in Seq(Keys \cup {NoId})
  BY <1>1, <1>5
<1>. QED
  BY <1>1, <1>2, <1>3, <1>6

(* What the locals of a call are after an answer that acknowledges J. *)
Answered(q, J, r) ==
    /\ r.batch = q.batch /\ r.compact = q.compact /\ r.misses = q.misses
    /\ r.unconverted = q.unconverted /\ r.ids = Ids(q, J)
    /\ r.acks = q.acks \cup {Position(q, j) : j \in J}

(* An answer to a request, or its failure (J is empty then), leads to the  *)
(* second request or to the end of registerMetrics.                        *)
LEMMA AnswerKeeps ==
    ASSUME NEW q \in Call, NEW ak, CallInv(q, ak), Registering(q),
           NEW J \in SUBSET Requests(q), NEW r \in Call,
           Answered(q, J, r),
           r.pc \in {"register", "retry", "fill"},
           r.pc = "retry" => \A j \in DOMAIN r.failed : r.failed[j] \in 1..Len(q.misses)
    PROVE  CallInv(r, ak \cup Known(q, J))
<1> DEFINE bk == ak \cup Known(q, J)
<1>. USE DEF Answered
<1>1. /\ q.unconverted = <<>> /\ Left(q) = Len(q.misses) /\ q.misses # <<>>
      /\ q.pc # "check" /\ r.pc # "check" /\ q.pc # "idle" /\ r.pc # "idle"
  BY DEF CallInv, Progress, Registering
<1>2. Left(r) = Left(q) /\ Handled(r) = Handled(q) /\ Reached(r) = Reached(q)
  <2>1. Left(r) = Left(q)
    BY DEF Left
  <2>. QED
    BY <1>1, <2>1 DEF Handled, Reached
<1>3. Points(r) = Points(q) /\ Failures(r) = Failures(q) /\ Rest(r) = Rest(q)
  BY <1>2 DEF Points, Failures, Rest
<1>4. Progress(r)
  <2>1. Len(r.ids) = Len(r.misses)
    <3>1. Ids(q, J) \in Seq(Keys \cup {NoId}) /\ DOMAIN Ids(q, J) = DOMAIN q.misses
      BY IdsType
    <3>2. q.misses \in Seq(Nat) /\ r.ids = Ids(q, J) /\ r.misses = q.misses
      BY CallFields
    <3>3. Len(Ids(q, J)) = Len(q.misses)
      BY <3>1, <3>2
    <3>. QED
      BY <3>2, <3>3
  <2>2. Len(q.misses) \in 1..Len(q.misses)
    BY <1>1, CallFields, EmptySeq
  <2>. QED
    BY <1>1, <1>2, <2>1, <2>2 DEF Progress, Registering
<1>5. Partition(r)
  BY <1>2, <1>3 DEF CallInv, Partition
<1>6. IdsEarned(r, bk)
  <2>1. \A p, id : Earned(q, ak, p, id) => Earned(r, bk, p, id)
    BY DEF Earned
  <2>2. \A j \in DOMAIN r.compact : Earned(r, bk, r.compact[j].point, r.compact[j].id)
    BY <2>1 DEF CallInv, IdsEarned
  <2>3. ASSUME NEW i \in DOMAIN r.misses, r.ids[i] # NoId
        PROVE  Earned(r, bk, r.misses[i], r.ids[i])
    <3>1. i \in DOMAIN q.ids
      BY IdsType
    <3>2. CASE Ids(q, J)[i] = q.ids[i]
      BY <1>1, <2>1, <2>3, <3>2 DEF CallInv, IdsEarned
    <3>3. ASSUME NEW j \in J, Index(q, j) = i, Ids(q, J)[i] = Requested(q, j).key
          PROVE  Earned(r, bk, r.misses[i], r.ids[i])
      <4>1. Position(q, j) = r.misses[i] /\ Requested(q, j) = r.batch[r.misses[i]]
        BY <3>3 DEF Position, Requested
      <4>2. <<Requested(q, j).key, Hash(Requested(q, j).meta)>> \in bk
        BY DEF Known
      <4>3. Position(q, j) \in 1..Len(q.batch)
        BY RequestedAreMisses
      <4>4. r.ids[i] = r.batch[r.misses[i]].key
        BY <3>3, <4>1
      <4>5. <<r.ids[i], Hash(r.batch[r.misses[i]].meta)>> \in bk
        BY <4>1, <4>2, <4>4
      <4>6. r.misses[i] \in 1..Len(r.batch)
        BY <4>1, <4>3
      <4>. QED
        BY <4>4, <4>5, <4>6 DEF Earned
    <3>4. \/ \E j \in J : Index(q, j) = i /\ Ids(q, J)[i] = Requested(q, j).key
          \/ Ids(q, J)[i] = q.ids[i]
      BY <3>1, IdsType
    <3>. QED
      BY <3>2, <3>3, <3>4
  <2>. QED
    BY <2>2, <2>3 DEF IdsEarned
<1>7. AcksKept(r)
  <2>1. \A i \in DOMAIN q.ids : q.ids[i] # NoId => r.ids[i] # NoId
    <3>1. \A j \in J : Requested(q, j).key # NoId
      BY RequestedAreMisses, MetricRegistrationAssumption
    <3>. QED
      BY <3>1, IdsType
  <2>2. ASSUME NEW p \in r.acks
        PROVE  \E k \in DOMAIN r.misses : r.misses[k] = p /\ r.ids[k] # NoId
    <3>1. CASE p \in q.acks
      <4>1. PICK k \in DOMAIN q.misses : q.misses[k] = p /\ q.ids[k] # NoId
        BY <3>1 DEF CallInv, AcksKept
      <4>. QED
        BY <2>1, <4>1, IdsType
    <3>2. CASE p \in {Position(q, j) : j \in J}
      <4>1. PICK j \in J : p = Position(q, j)
        BY <3>2
      <4>2. Index(q, j) \in DOMAIN q.misses /\ q.misses[Index(q, j)] = p
        BY <4>1, RequestedAreMisses DEF Position
      <4>3. Ids(q, J)[Index(q, j)] # NoId
        BY RequestedAreMisses, IdsType, MetricRegistrationAssumption
      <4>. QED
        BY <4>2, <4>3
    <3>. QED
      BY <3>1, <3>2
  <2>. QED
    BY <1>1, <2>2 DEF AcksKept
<1>. QED
  BY <1>4, <1>5, <1>6, <1>7 DEF CallInv

LEMMA Fills ==
    ASSUME NEW m \in Nat, NEW a \in Int, a \in 1..m
    PROVE  /\ m - a + 1 \in 1..m
           /\ m - (a - 1) = m - a + 1
           /\ a - 1 \in 0..m /\ (a # 1 => a - 1 \in 1..m)
           /\ ((m - a) + 1)..m = ((m - a + 1) + 1)..m \cup {m - a + 1}
           /\ \A k \in ((m - a + 1) + 1)..m : m - a + 1 < k /\ k \in 1..m
  OBVIOUS

(* The miss that Fill deals with is the first of those without a result. *)
LEMMA FillPlace ==
    ASSUME NEW q \in Call, NEW ak, CallInv(q, ak), q.pc = "fill",
           NEW n, n = Len(q.misses) - Left(q) + 1,
           NEW r \in Call, r.batch = q.batch, r.misses = q.misses, r.ids = q.ids,
           r.acks = q.acks, r.pc = IF Left(q) = 1 THEN "idle" ELSE "fill",
           Left(r) = Left(q) - 1
    PROVE  /\ n \in DOMAIN q.misses /\ q.misses[n] \in Rest(q)
           /\ Progress(r)
           /\ Reached(q) = Len(q.batch) /\ Reached(r) = Len(q.batch)
           /\ Rest(q) = Rest(r) \cup {q.misses[n]}
           /\ q.misses[n] \notin Rest(r)
           /\ \A p \in Rest(r) : q.misses[n] < p
<1>1. Left(q) \in 1..Len(q.misses) /\ Len(q.ids) = Len(q.misses)
  BY DEF CallInv, Progress
<1>2. Len(q.misses) \in Nat /\ Left(q) \in Int /\ DOMAIN q.misses = 1..Len(q.misses)
  BY CallFields
<1>3. n \in DOMAIN q.misses
  BY <1>1, <1>2, Fills
<1>4. Handled(q) = Len(q.misses) - Left(q) /\ Handled(r) = n
  <2>1. Handled(r) = Len(q.misses) - (Left(q) - 1)
    BY DEF Handled
  <2>. QED
    BY <1>1, <1>2, <2>1, Fills DEF Handled
<1>5. (Handled(q) + 1)..Len(q.misses) = (Handled(r) + 1)..Len(q.misses) \cup {n}
  BY <1>1, <1>2, <1>4, Fills
<1>6. Rest(q) = Rest(r) \cup {q.misses[n]}
  BY <1>5 DEF Rest
<1>7. \A p \in Rest(r) : q.misses[n] < p
  <2>1. \A k \in (Handled(r) + 1)..Len(q.misses) : n < k /\ k \in DOMAIN q.misses
    BY <1>1, <1>2, <1>4, Fills
  <2>. QED
    BY <1>3, <2>1 DEF Rest, CallInv, Partition, Increasing
<1>8. q.misses[n] \notin Rest(r)
  <2>1. q.misses[n] \in Nat
    BY <1>3, CallFields
  <2>. QED
    BY <1>7, <2>1
<1>9. Progress(r)
  <2>1. CASE Left(q) = 1
    BY <1>1, <2>1 DEF Progress, Registering
  <2>2. CASE Left(q) # 1
    BY <1>1, <1>2, <2>2, Fills DEF Progress, Registering
  <2>. QED
    BY <2>1, <2>2
<1>10. Reached(q) = Len(q.batch) /\ Reached(r) = Len(q.batch)
  BY DEF Reached
<1>. QED
  BY <1>3, <1>6, <1>7, <1>8, <1>9, <1>10

(* A miss with an id becomes a compact metric. *)
LEMMA FillSuccess ==
    ASSUME NEW q \in Call, NEW ak, CallInv(q, ak), q.pc = "fill",
           NEW n, n = Len(q.misses) - Left(q) + 1, q.ids[n] # NoId
    PROVE  LET r == [q EXCEPT !.pc = IF Left(q) = 1 THEN "idle" ELSE "fill",
                              !.compact = Append(@, [id |-> q.ids[n], point |-> q.misses[n]])]
           IN  r \in Call /\ CallInv(r, ak) /\ Earned(q, ak, q.misses[n], q.ids[n])
<1> DEFINE e == [id |-> q.ids[n], point |-> q.misses[n]]
           r == [q EXCEPT !.pc = IF Left(q) = 1 THEN "idle" ELSE "fill",
                          !.compact = Append(@, e)]
<1>1. /\ r.pc = (IF Left(q) = 1 THEN "idle" ELSE "fill")
      /\ r.batch = q.batch /\ r.misses = q.misses /\ r.ids = q.ids
      /\ r.unconverted = q.unconverted /\ r.acks = q.acks
      /\ r.compact = Append(q.compact, e)
  BY DEF Call
<1>2. n \in DOMAIN q.misses
  <2>1. Left(q) \in 1..Len(q.misses)
    BY DEF CallInv, Progress
  <2>. QED
    BY <2>1, CallFields, Fills
<1>3. Earned(q, ak, e.point, e.id)
  BY <1>2 DEF CallInv, IdsEarned
<1>4. e \in Compact
  <2>1. e.point \in Nat
    BY <1>2, CallFields
  <2>2. e.id \in Keys
    BY <1>3, BatchType DEF Earned
  <2>. QED
    BY <2>1, <2>2 DEF Compact
<1>5. r \in Call
  <2>1. Append(q.compact, e) \in Seq(Compact)
    BY <1>4, CallFields
  <2>. QED
    BY <2>1 DEF Call
<1> HIDE DEF e, r
<1>6. /\ Len(r.compact) = Len(q.compact) + 1
      /\ DOMAIN r.compact = DOMAIN q.compact \cup {Len(q.compact) + 1}
      /\ DOMAIN q.compact = 1..Len(q.compact) /\ Len(q.compact) + 1 \notin DOMAIN q.compact
      /\ r.compact[Len(q.compact) + 1] = e
      /\ \A j \in DOMAIN q.compact : r.compact[j] = q.compact[j]
  BY <1>1, <1>4, CallFields, Appended, AppendedDomain
<1>7. Left(r) = Left(q) - 1
  <2>1. Left(r) = Len(q.batch) - (Len(q.compact) + 1) - Len(q.unconverted)
    BY <1>1, <1>6 DEF Left
  <2>2. Left(r) = (Len(q.batch) - Len(q.compact) - Len(q.unconverted)) - 1
    BY <2>1, CallFields, Sums
  <2>. QED
    BY <2>2 DEF Left
<1>8. /\ q.misses[n] \in Rest(q) /\ Progress(r)
      /\ Reached(q) = Len(q.batch) /\ Reached(r) = Len(q.batch)
      /\ Rest(q) = Rest(r) \cup {q.misses[n]} /\ q.misses[n] \notin Rest(r)
  BY <1>1, <1>5, <1>7, FillPlace
<1>9. Points(r) = Points(q) \cup {q.misses[n]} /\ Failures(r) = Failures(q)
  <2>1. e.point = q.misses[n]
    BY DEF e
  <2>. QED
    BY <1>1, <1>6, <2>1 DEF Points, Failures
<1>10. Partition(r)
  <2>1. /\ Points(q) \cup Failures(q) \cup Rest(q) = 1..Reached(q)
        /\ Points(q) \cap Failures(q) = {} /\ (Points(q) \cup Failures(q)) \cap Rest(q) = {}
    BY DEF CallInv, Partition
  <2>2. /\ Points(r) \cup Failures(r) \cup Rest(r) = 1..Reached(r)
        /\ Points(r) \cap Failures(r) = {} /\ (Points(r) \cup Failures(r)) \cap Rest(r) = {}
    BY <1>8, <1>9, <2>1
  <2>3. \A i, j \in DOMAIN r.compact : r.compact[i].point = r.compact[j].point => i = j
    <3>1. \A j \in DOMAIN q.compact : q.compact[j].point # q.misses[n]
      BY <1>8, <2>1 DEF Points
    <3>2. e.point = q.misses[n]
      BY DEF e
    <3>. QED
      BY <1>6, <3>1, <3>2 DEF CallInv, Partition
  <2>4. \A j \in DOMAIN r.unconverted : \A p \in Rest(r) : r.unconverted[j] < p
    BY <1>1, <1>8 DEF CallInv, Partition
  <2>. QED
    BY <1>1, <2>2, <2>3, <2>4 DEF CallInv, Partition
<1>11. IdsEarned(r, ak)
  <2>1. \A p, id : Earned(q, ak, p, id) => Earned(r, ak, p, id)
    BY <1>1 DEF Earned
  <2>. QED
    BY <1>1, <1>3, <1>6, <2>1 DEF CallInv, IdsEarned
<1>12. AcksKept(r)
  BY <1>1 DEF CallInv, AcksKept
<1>. QED
  BY <1>3, <1>5, <1>8, <1>10, <1>11, <1>12 DEF CallInv, r, e

(* A miss without an id goes to the failed metrics. *)
LEMMA FillFailure ==
    ASSUME NEW q \in Call, NEW ak, CallInv(q, ak), q.pc = "fill",
           NEW n, n = Len(q.misses) - Left(q) + 1, q.ids[n] = NoId
    PROVE  LET r == [q EXCEPT !.pc = IF Left(q) = 1 THEN "idle" ELSE "fill",
                              !.unconverted = Append(@, q.misses[n])]
           IN  r \in Call /\ CallInv(r, ak)
<1> DEFINE i == q.misses[n]
           r == [q EXCEPT !.pc = IF Left(q) = 1 THEN "idle" ELSE "fill",
                          !.unconverted = Append(@, i)]
<1>1. /\ r.pc = (IF Left(q) = 1 THEN "idle" ELSE "fill")
      /\ r.batch = q.batch /\ r.misses = q.misses /\ r.ids = q.ids
      /\ r.compact = q.compact /\ r.acks = q.acks
      /\ r.unconverted = Append(q.unconverted, i)
  BY DEF Call
<1>2. n \in DOMAIN q.misses /\ i \in Nat
  <2>1. Left(q) \in 1..Len(q.misses)
    BY DEF CallInv, Progress
  <2>2. n \in DOMAIN q.misses
    BY <2>1, CallFields, Fills
  <2>. QED
    BY <2>2, CallFields
<1>3. r \in Call
  <2>1. Append(q.unconverted, i) \in Seq(Nat)
    BY <1>2, CallFields
  <2>. QED
    BY <2>1 DEF Call
<1> HIDE DEF i, r
<1>4. /\ Len(r.unconverted) = Len(q.unconverted) + 1
      /\ DOMAIN r.unconverted = 1..(Len(q.unconverted) + 1)
      /\ DOMAIN r.unconverted = DOMAIN q.unconverted \cup {Len(q.unconverted) + 1}
      /\ DOMAIN q.unconverted = 1..Len(q.unconverted)
      /\ r.unconverted[Len(q.unconverted) + 1] = i
      /\ \A j \in DOMAIN q.unconverted : r.unconverted[j] = q.unconverted[j]
  <2>1. q.unconverted \in Seq(Nat)
    BY CallFields
  <2>. QED
    BY <1>1, <1>2, <2>1, Appended, AppendedDomain
<1>5. Left(r) = Left(q) - 1
  <2>1. Left(r) = Len(q.batch) - Len(q.compact) - (Len(q.unconverted) + 1)
    BY <1>1, <1>4 DEF Left
  <2>2. Left(r) = (Len(q.batch) - Len(q.compact) - Len(q.unconverted)) - 1
    BY <2>1, CallFields, Sums
  <2>. QED
    BY <2>2 DEF Left
<1>6. /\ i \in Rest(q) /\ Progress(r)
      /\ Reached(q) = Len(q.batch) /\ Reached(r) = Len(q.batch)
      /\ Rest(q) = Rest(r) \cup {i} /\ i \notin Rest(r) /\ \A p \in Rest(r) : i < p
  BY <1>1, <1>3, <1>5, FillPlace DEF i
<1>7. Points(r) = Points(q) /\ Failures(r) = Failures(q) \cup {i}
  BY <1>1, <1>4 DEF Points, Failures
<1>8. Partition(r)
  <2>1. /\ Points(q) \cup Failures(q) \cup Rest(q) = 1..Reached(q)
        /\ Points(q) \cap Failures(q) = {} /\ (Points(q) \cup Failures(q)) \cap Rest(q) = {}
    BY DEF CallInv, Partition
  <2>2. /\ Points(r) \cup Failures(r) \cup Rest(r) = 1..Reached(r)
        /\ Points(r) \cap Failures(r) = {} /\ (Points(r) \cup Failures(r)) \cap Rest(r) = {}
    BY <1>6, <1>7, <2>1
  <2>3. \A j \in DOMAIN q.unconverted : q.unconverted[j] < i
    BY <1>6 DEF CallInv, Partition
  <2>4. Increasing(r.unconverted)
    <3>1. ASSUME NEW j \in DOMAIN r.unconverted, NEW k \in DOMAIN r.unconverted, j < k
          PROVE  r.unconverted[j] < r.unconverted[k]
      <4>1. j \in DOMAIN q.unconverted
        BY <1>4, <3>1, CallFields
      <4>2. CASE k \in DOMAIN q.unconverted
        BY <1>4, <3>1, <4>1, <4>2 DEF CallInv, Partition, Increasing
      <4>3. CASE k = Len(q.unconverted) + 1
        BY <1>4, <2>3, <4>1, <4>3
      <4>. QED
        BY <1>4, <4>2, <4>3
    <3>. QED
      BY <3>1 DEF Increasing
  <2>5. \A j \in DOMAIN r.unconverted : \A p \in Rest(r) : r.unconverted[j] < p
    BY <1>4, <1>6 DEF CallInv, Partition
  <2>. QED
    BY <1>1, <2>2, <2>4, <2>5 DEF CallInv, Partition
<1>9. IdsEarned(r, ak)
  <2>1. \A p, id : Earned(q, ak, p, id) => Earned(r, ak, p, id)
    BY <1>1 DEF Earned
  <2>. QED
    BY <1>1, <2>1 DEF CallInv, IdsEarned
<1>10. AcksKept(r)
  BY <1>1, <1>2, <1>4 DEF CallInv, AcksKept, i
<1>. QED
  BY <1>3, <1>6, <1>8, <1>9, <1>10 DEF CallInv, r, i

-----------------------------------------------------------------------------
(* The handlers, one by one. *)

LEMMA CheckNextInv == ASSUME IInv, NEW c \in Callers, CheckNext(c) PROVE IInv'
<1> DEFINE q == call[c]
           m == q.batch[Checked(q) + 1]
<1>1. q \in Call /\ CallInv(q, acked) /\ CacheOK /\ CacheInv
  BY DEF IInv, TypeOK, CacheOK
<1>2. q.pc = "check" /\ Checked(q) + 1 <= Len(q.batch) /\ UNCHANGED <<cache, acked>>
  BY DEF CheckNext
<1>3. Checked(q) + 1 \in 1..Len(q.batch) /\ Checked(q) < Len(q.batch)
  BY <1>1, <1>2, CallFields
<1>4. CacheOK' /\ CacheInv' /\ acked' = acked /\ acked' \subseteq Keys \X Metadata
  BY <1>1, <1>2 DEF CacheOK, CacheInv, IInv, TypeOK
<1>5. CASE Hit(m)
  <2> DEFINE e == [id |-> cache[m.key].id, point |-> Checked(q) + 1]
             r == [q EXCEPT !.compact = Append(@, e)]
  <2>1. Earned(q, acked, e.point, e.id)
    BY <1>1, <1>3, <1>5 DEF Hit, CacheInv, Earned
  <2>2. e \in Compact
    <3>1. e.point \in Nat
      BY <1>1, CallFields
    <3>2. e.id \in Keys
      BY <1>1, <1>5 DEF Hit, CacheOK, Entry
    <3>. QED
      BY <3>1, <3>2 DEF Compact
  <2>3. r \in Call /\ CallInv(r, acked)
    <3>1. e.point = Checked(q) + 1 /\ e.point <= Len(q.batch)
      BY <1>2
    <3>. HIDE DEF e
    <3>. QED
      BY <1>1, <1>2, <2>1, <2>2, <3>1, HitKeeps
  <2>4. call' = [call EXCEPT ![c] = r]
    BY <1>5 DEF CheckNext
  <2>. HIDE DEF r
  <2>. QED
    BY <1>4, <2>3, <2>4, OneCall
<1>6. CASE ~Hit(m)
  <2> DEFINE r == [q EXCEPT !.misses = Append(@, Checked(q) + 1)]
  <2>1. r \in Call /\ CallInv(r, acked)
    BY <1>1, <1>2, <1>3, MissKeeps
  <2>2. call' = [call EXCEPT ![c] = r]
    BY <1>6 DEF CheckNext
  <2>. HIDE DEF r
  <2>. QED
    BY <1>4, <2>1, <2>2, OneCall
<1>. QED
  BY <1>5, <1>6

LEMMA EndCheckInv == ASSUME IInv, NEW c \in Callers, EndCheck(c) PROVE IInv'
<1> DEFINE q == call[c]
           r == [q EXCEPT !.pc = IF q.misses = <<>> THEN "idle" ELSE "register",
                          !.ids = [i \in 1..Len(q.misses) |-> NoId]]
<1>1. q \in Call /\ CallInv(q, acked) /\ CacheOK /\ CacheInv
  BY DEF IInv, TypeOK, CacheOK
<1>2. /\ q.pc = "check" /\ Checked(q) = Len(q.batch) /\ UNCHANGED <<cache, acked>>
      /\ call' = [call EXCEPT ![c] = r]
  BY DEF EndCheck
<1>3. CacheOK' /\ CacheInv' /\ acked' = acked /\ acked' \subseteq Keys \X Metadata
  BY <1>1, <1>2 DEF CacheOK, CacheInv, IInv, TypeOK
<1>4. r \in Call /\ CallInv(r, acked)
  BY <1>1, <1>2, EndCheckKeeps
<1>. HIDE DEF r
<1>. QED
  BY <1>2, <1>3, <1>4, OneCall

LEMMA ConvertInv ==
    ASSUME IInv, NEW c \in Callers, NEW b \in Batches, ConvertMetrics(c, b)
    PROVE  IInv'
<1> DEFINE r == NewCall("check", b)
<1>1. CacheOK /\ CacheInv
  BY DEF IInv, TypeOK, CacheOK
<1>2. UNCHANGED <<cache, acked>> /\ call' = [call EXCEPT ![c] = r]
  BY DEF ConvertMetrics
<1>3. CacheOK' /\ CacheInv' /\ acked' = acked /\ acked' \subseteq Keys \X Metadata
  BY <1>1, <1>2 DEF CacheOK, CacheInv, IInv, TypeOK
<1>4. r \in Call
  <2>1. 0 \in 0..NumberOfRetries - 1
    BY MetricRegistrationAssumption
  <2>. QED
    BY <2>1 DEF NewCall, Call
<1>5. CallInv(r, acked)
  <2>1. /\ r.pc = "check" /\ r.compact = <<>> /\ r.misses = <<>> /\ r.unconverted = <<>>
        /\ r.acks = {}
    BY DEF NewCall
  <2> HIDE DEF r
  <2>2. Checked(r) = 0 /\ Handled(r) = 0 /\ Reached(r) = 0
    BY <2>1 DEF Checked, Handled, Reached
  <2>3. Points(r) = {} /\ Failures(r) = {} /\ Rest(r) = {}
    BY <2>1, <2>2 DEF Points, Failures, Rest
  <2>4. Progress(r)
    BY <1>4, <2>1, <2>2, CallFields DEF Progress, Registering
  <2>5. Partition(r)
    BY <2>1, <2>2, <2>3 DEF Partition, Increasing
  <2>. QED
    BY <2>1, <2>4, <2>5 DEF CallInv, IdsEarned, AcksKept
<1>. HIDE DEF r
<1>. QED
  BY <1>2, <1>3, <1>4, <1>5, OneCall

LEMMA FillInv == ASSUME IInv, NEW c \in Callers, Fill(c) PROVE IInv'
<1> DEFINE q == call[c]
           n == Len(q.misses) - Left(q) + 1
           m == q.batch[q.misses[n]]
           pc == IF Left(q) = 1 THEN "idle" ELSE "fill"
<1>1. q \in Call /\ CallInv(q, acked) /\ CacheOK /\ CacheInv
  BY DEF IInv, TypeOK, CacheOK
<1>2. q.pc = "fill" /\ acked' = acked /\ acked' \subseteq Keys \X Metadata
  BY DEF Fill, IInv, TypeOK
<1>3. CASE q.ids[n] # NoId
  <2> DEFINE r == [q EXCEPT !.pc = pc,
                            !.compact = Append(@, [id |-> q.ids[n], point |-> q.misses[n]])]
             v == [id |-> q.ids[n], hash |-> Hash(m.meta)]
  <2>1. r \in Call /\ CallInv(r, acked) /\ Earned(q, acked, q.misses[n], q.ids[n])
    BY <1>1, <1>2, <1>3, FillSuccess
  <2>2. call' = [call EXCEPT ![c] = r] /\ cache' = Put(cache, m.key, v)
    BY <1>3 DEF Fill
  <2>3. m.key \in Keys /\ q.ids[n] = m.key /\ v \in Entry /\ <<m.key, v.hash>> \in acked
    BY <1>1, <2>1, BatchType DEF Earned, Entry
  <2>4. v.id = m.key
    BY <2>3
  <2>. HIDE DEF r, v, m
  <2>5. CacheOK'
    BY <1>1, <2>2, <2>3 DEF CacheOK, Put
  <2>6. CacheInv'
    BY <1>1, <1>2, <2>2, <2>3, <2>4 DEF CacheInv, Put
  <2>. QED
    BY <1>2, <2>1, <2>2, <2>5, <2>6, OneCall
<1>4. CASE q.ids[n] = NoId
  <2> DEFINE r == [q EXCEPT !.pc = pc, !.unconverted = Append(@, q.misses[n])]
  <2>1. r \in Call /\ CallInv(r, acked)
    BY <1>1, <1>2, <1>4, FillFailure
  <2>2. call' = [call EXCEPT ![c] = r] /\ cache' = cache
    BY <1>4 DEF Fill
  <2>3. CacheOK' /\ CacheInv'
    BY <1>1, <1>2, <2>2 DEF CacheOK, CacheInv
  <2>. HIDE DEF r
  <2>. QED
    BY <1>2, <2>1, <2>2, <2>3, OneCall
<1>. QED
  BY <1>3, <1>4

LEMMA ExpireInv == ASSUME IInv, NEW k \in Keys, Expire(k) PROVE IInv'
<1>1. CacheOK' /\ CacheInv' /\ UNCHANGED <<acked, call>>
  BY DEF Expire, IInv, TypeOK, CacheOK, CacheInv
<1>. QED
  BY <1>1 DEF IInv, TypeOK, CacheOK

(* What an answer adds to what the registry has acknowledged. *)
LEMMA AnswerInv ==
    ASSUME IInv, NEW c \in Callers, NEW q, q = call[c], Registering(q),
           NEW J \in SUBSET Requests(q), NEW r \in Call,
           Answered(q, J, r),
           r.pc \in {"register", "retry", "fill"},
           r.pc = "retry" => \A j \in DOMAIN r.failed : r.failed[j] \in 1..Len(q.misses),
           call' = [call EXCEPT ![c] = r], acked' = acked \cup Known(q, J), cache' = cache
    PROVE  IInv'
<1>1. q \in Call /\ CallInv(q, acked) /\ CacheOK /\ CacheInv
  BY DEF IInv, TypeOK, CacheOK
<1>2. CallInv(r, acked')
  BY <1>1, AnswerKeeps
<1>3. Known(q, J) \subseteq Keys \X Metadata
  <2>1. \A j \in J : Requested(q, j).key \in Keys /\ Hash(Requested(q, j).meta) \in Metadata
    BY <1>1, RequestedAreMisses
  <2>. QED
    BY <2>1 DEF Known
<1>4. acked \subseteq acked' /\ acked' \subseteq Keys \X Metadata
  BY <1>3 DEF IInv, TypeOK
<1>5. CacheOK' /\ CacheInv'
  BY <1>1, <1>4 DEF CacheOK, CacheInv
<1>. QED
  BY <1>2, <1>4, <1>5, OneCall

After(q, J, pc, f) == [Acknowledge(q, J) EXCEPT !.pc = pc, !.failed = f]

(* The fields Acknowledge leaves, with another place and list of failures. *)
LEMMA AcknowledgeFields ==
    ASSUME NEW q \in Call, NEW ak, CallInv(q, ak), Registering(q),
           NEW J \in SUBSET Requests(q), NEW pc \in {"retry", "fill"}, NEW f \in Seq(Nat)
    PROVE  LET r == After(q, J, pc, f)
           IN  r \in Call /\ Answered(q, J, r) /\ r.pc = pc /\ r.failed = f
<1> DEFINE r == After(q, J, pc, f)
<1>1. 0 \in 0..NumberOfRetries - 1
  BY MetricRegistrationAssumption
<1>2. Ids(q, J) \in Seq(Keys \cup {NoId})
  BY IdsType
<1>3. q.acks \cup {Position(q, j) : j \in J} \in SUBSET Nat
  <2>1. \A j \in J : Position(q, j) \in Nat
    BY RequestedAreMisses, CallFields
  <2>. QED
    BY <2>1, CallFields
<1> DEFINE ids == Ids(q, J)
           acks == q.acks \cup {Position(q, j) : j \in J}
<1>4. r = [q EXCEPT !.tries = 0, !.ids = ids, !.acks = acks, !.pc = pc, !.failed = f]
  BY DEF After, Acknowledge, Call
<1> HIDE DEF ids, acks, r
<1>5. ids \in Seq(Keys \cup {NoId}) /\ acks \in SUBSET Nat
  BY <1>2, <1>3 DEF ids, acks
<1>6. /\ r \in Call
      /\ r.batch = q.batch /\ r.compact = q.compact /\ r.misses = q.misses
      /\ r.unconverted = q.unconverted /\ r.ids = ids /\ r.acks = acks
      /\ r.pc = pc /\ r.failed = f
  BY <1>1, <1>4, <1>5 DEF Call
<1>. QED
  BY <1>6 DEF ids, acks, r, Answered

LEMMA RegisteredInv == ASSUME IInv, NEW c \in Callers, Registered(c) PROVE IInv'
<1> DEFINE q == call[c]
<1>1. q \in Call /\ CallInv(q, acked) /\ q.pc = "register" /\ Registering(q) /\ cache' = cache
  BY DEF IInv, TypeOK, Registered, Registering
<1>2. PICK J \in SUBSET Requests(q) :
          /\ acked' = acked \cup Known(q, J)
          /\ \E f \in [1..Cardinality(Requests(q) \ J) -> Requests(q) \ J] :
                 call' = [call EXCEPT ![c] =
                     [Acknowledge(q, J) EXCEPT
                         !.pc = IF Requests(q) \ J = {} THEN "fill" ELSE "retry",
                         !.failed = f]]
  BY DEF Registered
<1> DEFINE bad == Requests(q) \ J
           pc == IF bad = {} THEN "fill" ELSE "retry"
<1>3. PICK f \in [1..Cardinality(bad) -> bad] :
          call' = [call EXCEPT ![c] = After(q, J, pc, f)]
  BY <1>2 DEF After
<1>4. bad \subseteq 1..Len(q.misses) /\ IsFiniteSet(bad)
  <2>1. Requests(q) = 1..Len(q.misses)
    BY <1>1 DEF Requests
  <2>2. IsFiniteSet(1..Len(q.misses))
    <3>1. Len(q.misses) \in Int
      BY <1>1, CallFields
    <3>. QED
      BY <3>1, FS_Interval
  <2>. QED
    BY <2>1, <2>2, FS_Subset
<1>5. f \in Seq(Nat) /\ \A j \in DOMAIN f : f[j] \in 1..Len(q.misses)
  <2>1. Cardinality(bad) \in Nat
    BY <1>4, FS_CardinalityType
  <2>2. DOMAIN f = 1..Cardinality(bad) /\ \A j \in 1..Cardinality(bad) : f[j] \in bad
    OBVIOUS
  <2>3. f \in [1..Cardinality(bad) -> Nat]
    <3>1. bad \subseteq Nat
      BY <1>4
    <3>. HIDE DEF bad
    <3>. QED
      BY <3>1
  <2>4. f \in Seq(Nat)
    <3>. HIDE DEF bad
    <3>. QED
      BY <2>1, <2>3
  <2>. QED
    BY <1>4, <2>2, <2>4
<1>6. pc \in {"retry", "fill"} /\ q = call[c]
  OBVIOUS
<1> HIDE DEF bad, pc, q
<1> DEFINE r == After(q, J, pc, f)
<1>7. r \in Call /\ Answered(q, J, r) /\ r.pc = pc /\ r.failed = f
  <2>1. q \in Call /\ CallInv(q, acked) /\ Registering(q)
    BY <1>1
  <2>2. f \in Seq(Nat) /\ pc \in {"retry", "fill"}
    BY <1>5, <1>6
  <2>. QED
    BY <2>1, <2>2, AcknowledgeFields
<1>8. call' = [call EXCEPT ![c] = r]
  BY <1>3
<1> HIDE DEF r
<1>. QED
  BY <1>1, <1>2, <1>5, <1>6, <1>7, <1>8, AnswerInv

LEMMA RetriedInv == ASSUME IInv, NEW c \in Callers, Retried(c) PROVE IInv'
<1> DEFINE q == call[c]
<1>1. q \in Call /\ CallInv(q, acked) /\ q.pc = "retry" /\ Registering(q) /\ cache' = cache
  BY DEF IInv, TypeOK, Retried, Registering
<1>2. PICK J \in SUBSET Requests(q) :
          /\ acked' = acked \cup Known(q, J)
          /\ call' = [call EXCEPT ![c] = [Acknowledge(q, J) EXCEPT !.pc = "fill"]]
  BY DEF Retried
<1> DEFINE r == After(q, J, "fill", q.failed)
<1>3. r = [Acknowledge(q, J) EXCEPT !.pc = "fill"]
  BY <1>1 DEF After, Acknowledge, Call
<1>4. q = call[c] /\ call' = [call EXCEPT ![c] = r]
  BY <1>2, <1>3
<1> HIDE DEF q
<1>5. r \in Call /\ Answered(q, J, r) /\ r.pc = "fill"
  BY <1>1, CallFields, AcknowledgeFields
<1> HIDE DEF r
<1>. QED
  BY <1>1, <1>2, <1>4, <1>5, AnswerInv

LEMMA CallFailsInv == ASSUME IInv, NEW c \in Callers, CallFails(c) PROVE IInv'
<1> DEFINE q == call[c]
<1>1. /\ q \in Call /\ CallInv(q, acked) /\ Registering(q) /\ cache' = cache /\ acked' = acked
      /\ \/ /\ q.tries + 1 < NumberOfRetries
            /\ call' = [call EXCEPT ![c] = [q EXCEPT !.tries = @ + 1]]
         \/ call' = [call EXCEPT ![c] = [q EXCEPT !.pc = "fill", !.tries = 0]]
  BY DEF IInv, TypeOK, CallFails
<1>2. PICK r : /\ call' = [call EXCEPT ![c] = r]
               /\ \/ q.tries + 1 < NumberOfRetries /\ r = [q EXCEPT !.tries = @ + 1]
                  \/ r = [q EXCEPT !.pc = "fill", !.tries = 0]
  BY <1>1
<1>3. q = call[c]
  OBVIOUS
<1> HIDE DEF q
<1>4. /\ r \in Call
      /\ r.batch = q.batch /\ r.compact = q.compact /\ r.misses = q.misses
      /\ r.unconverted = q.unconverted /\ r.ids = q.ids /\ r.acks = q.acks
      /\ r.failed = q.failed /\ (r.pc = q.pc \/ r.pc = "fill")
  <2>1. CASE q.tries + 1 < NumberOfRetries /\ r = [q EXCEPT !.tries = @ + 1]
    <3>1. q.tries + 1 \in 0..NumberOfRetries - 1
      BY <1>1, <2>1, MetricRegistrationAssumption DEF Call
    <3>. QED
      BY <1>1, <2>1, <3>1 DEF Call
  <2>2. CASE r = [q EXCEPT !.pc = "fill", !.tries = 0]
    <3>1. 0 \in 0..NumberOfRetries - 1
      BY MetricRegistrationAssumption
    <3>. QED
      BY <1>1, <2>2, <3>1 DEF Call
  <2>. QED
    BY <1>2, <2>1, <2>2
<1>5. Ids(q, {}) = q.ids
  <2>1. q.ids \in Seq(Keys \cup {NoId})
    BY <1>1, CallFields
  <2>2. q.ids = [i \in DOMAIN q.ids |-> q.ids[i]]
    BY <2>1
  <2>. QED
    BY <2>2 DEF Ids
<1>6. Known(q, {}) = {} /\ {Position(q, j) : j \in {}} = {} /\ {} \in SUBSET Requests(q)
  BY DEF Known
<1>7. Answered(q, {}, r) /\ acked' = acked \cup Known(q, {})
  BY <1>1, <1>4, <1>5, <1>6 DEF Answered
<1>8. r.pc \in {"register", "retry", "fill"}
  BY <1>1, <1>4 DEF Registering
<1>9. r.pc = "retry" => \A j \in DOMAIN r.failed : r.failed[j] \in 1..Len(q.misses)
  BY <1>1, <1>4 DEF CallInv, Progress
<1>. QED
  BY <1>1, <1>2, <1>3, <1>4, <1>6, <1>7, <1>8, <1>9, AnswerInv

-----------------------------------------------------------------------------

LEMMA InitInv == Init => IInv
<1> SUFFICES ASSUME Init PROVE IInv
  OBVIOUS
<1> DEFINE q == NewCall("idle", <<>>)
<1>1. q \in Call
  <2>1. 0 \in 0..NumberOfRetries - 1
    BY MetricRegistrationAssumption
  <2>. QED
    BY <2>1 DEF NewCall, Call
<1>2. TypeOK /\ CacheInv /\ \A c \in Callers : call[c] = q
  BY <1>1 DEF Init, TypeOK, CacheInv
<1>3. CallInv(q, acked)
  <2>1. /\ q.pc = "idle" /\ q.batch = <<>> /\ q.compact = <<>> /\ q.misses = <<>>
        /\ q.unconverted = <<>> /\ q.acks = {} /\ q.ids = <<>>
    BY DEF NewCall
  <2> HIDE DEF q
  <2>2. Left(q) = 0 /\ Handled(q) = 0 /\ Reached(q) = 0
    <3>1. Len(<<>>) = 0
      OBVIOUS
    <3>2. Left(q) = 0 - 0 - 0
      BY <2>1, <3>1 DEF Left
    <3>3. Left(q) = 0
      BY <3>2
    <3>4. Handled(q) = 0 - 0
      BY <2>1, <3>1, <3>3 DEF Handled
    <3>. QED
      BY <2>1, <3>1, <3>3, <3>4 DEF Reached
  <2>3. Points(q) = {} /\ Failures(q) = {} /\ Rest(q) = {}
    BY <2>1, <2>2 DEF Points, Failures, Rest
  <2>4. Progress(q)
    BY <2>1, <2>2 DEF Progress, Registering
  <2>5. Partition(q)
    BY <2>1, <2>2, <2>3 DEF Partition, Increasing
  <2>. QED
    BY <2>1, <2>4, <2>5 DEF CallInv, IdsEarned, AcksKept
<1>. QED
  BY <1>2, <1>3 DEF IInv

LEMMA NextInv == IInv /\ [Next]_vars => IInv'
<1> SUFFICES ASSUME IInv, [Next]_vars PROVE IInv'
  OBVIOUS
<1>1. ASSUME NEW c \in Callers, NEW b \in Batches, ConvertMetrics(c, b) PROVE IInv'
  BY <1>1, ConvertInv
<1>2. ASSUME NEW c \in Callers, Steps(c) PROVE IInv'
  BY <1>2, CheckNextInv, EndCheckInv, CallFailsInv, RegisteredInv, RetriedInv, FillInv
  DEF Steps
<1>3. ASSUME NEW k \in Keys, Expire(k) PROVE IInv'
  BY <1>3, ExpireInv
<1>4. CASE UNCHANGED vars
  BY <1>4 DEF vars, IInv, TypeOK, CacheInv
<1>. QED
  BY <1>1, <1>2, <1>3, <1>4 DEF Next

THEOREM Invariance == Spec => []IInv
  BY InitInv, NextInv, PTL DEF Spec

(* The state of the endpoint's registration keeps its types. *)
THEOREM RegistrationTypeCorrect == Spec => []TypeOK
<1>1. IInv => TypeOK
  BY DEF IInv
<1>. QED
  BY <1>1, Invariance, PTL

(* Whatever hits the cache, expires, fails or is answered late, and        *)
(* whoever else calls: the results of ConvertMetrics are a partition of    *)
(* its batch, failures in order, each compact metric with its own id.      *)
THEOREM ConversionCorrect == Spec => []ConvertCorrect
<1>1. IInv => ConvertCorrect
  <2> SUFFICES ASSUME IInv, NEW c \in Callers, call[c].pc = "idle" PROVE Converted(call[c])
    BY DEF ConvertCorrect
  <2>1. PICK q : q = call[c]
    OBVIOUS
  <2>2. q \in Call /\ CallInv(q, acked) /\ q.pc = "idle"
    BY <2>1 DEF IInv, TypeOK
  <2>3. Rest(q) = {} /\ Reached(q) = Len(q.batch)
    <3>1. Handled(q) = Len(q.misses) - 0
      BY <2>2 DEF Handled, CallInv, Progress
    <3>2. (Handled(q) + 1)..Len(q.misses) = {}
      BY <2>2, <3>1, CallFields
    <3>. QED
      BY <2>2, <3>2 DEF Rest, Reached
  <2>4. Converted(q)
    BY <2>2, <2>3 DEF Converted, CallInv, Partition, IdsEarned, Earned
  <2>. QED
    BY <2>1, <2>4
<1>. QED
  BY <1>1, Invariance, PTL

(* No compact metric stands for metadata the registry has not acknowledged. *)
THEOREM CompactsAreRegistered == Spec => []CompactWasRegistered
<1>1. IInv => CompactWasRegistered
  BY DEF IInv, CallInv, IdsEarned, Earned, CompactWasRegistered
<1>. QED
  BY <1>1, Invariance, PTL

(* What was acknowledged in a call is not among its failed metrics. *)
THEOREM AcksAreKept == Spec => []NoAckForgotten
<1>1. IInv => NoAckForgotten
  <2> SUFFICES ASSUME IInv, NEW c \in Callers PROVE Failures(call[c]) \cap call[c].acks = {}
    BY DEF NoAckForgotten
  <2>1. PICK q : q = call[c]
    OBVIOUS
  <2>2. q \in Call /\ CallInv(q, acked)
    BY <2>1 DEF IInv, TypeOK
  <2>3. ASSUME NEW j \in DOMAIN q.unconverted, q.unconverted[j] \in q.acks PROVE FALSE
    <3>1. PICK k \in DOMAIN q.misses : q.misses[k] = q.unconverted[j] /\ q.ids[k] = NoId
      BY <2>2 DEF CallInv, AcksKept
    <3>2. PICK l \in DOMAIN q.misses : q.misses[l] = q.unconverted[j] /\ q.ids[l] # NoId
      BY <2>2, <2>3 DEF CallInv, AcksKept
    <3>3. q.misses[k] \in Nat /\ k \in Nat /\ l \in Nat
      BY <2>2, CallFields
    <3>4. k = l
      BY <2>2, <3>1, <3>2, <3>3 DEF CallInv, Partition, Increasing
    <3>. QED
      BY <3>1, <3>2, <3>4
  <2>. QED
    BY <2>1, <2>3 DEF Failures
<1>. QED
  BY <1>1, Invariance, PTL
=============================================================================
