---------------------------- MODULE EndpointProofs ----------------------------
(***************************************************************************)
(* Proofs about Endpoint, for any bundlers, callers, requests and limits:  *)
(* types, that Flush waits for what was accepted before it was called, the *)
(* limits of the bundlers, and that every item is accounted for.           *)
(***************************************************************************)
EXTENDS Endpoint, TotalsProofs

-----------------------------------------------------------------------------
(* Sequences and counts. *)

LEMMA RemovalType ==
    ASSUME NEW S, NEW s \in Seq(S), NEW i \in DOMAIN s
    PROVE  RemoveAt(s, i) \in Seq(S) /\ Len(RemoveAt(s, i)) = Len(s) - 1
<1> DEFINE before == SubSeq(s, 1, i - 1)
           after  == SubSeq(s, i + 1, Len(s))
<1>1. Len(s) \in Nat /\ i \in 1 .. Len(s)
  BY LenProperties
<1>2. before \in Seq(S) /\ Len(before) = i - 1 /\ after \in Seq(S) /\ Len(after) = Len(s) - i
  <2>1. \A j \in 1 .. i - 1 : s[j] \in S
    BY <1>1, ElementOfSeq
  <2>2. \A j \in i + 1 .. Len(s) : s[j] \in S
    BY <1>1, ElementOfSeq
  <2>. QED
    BY <1>1, <2>1, <2>2, SubSeqProperties
<1>3. RemoveAt(s, i) = before \o after
  BY DEF RemoveAt
<1>. HIDE DEF before, after
<1>4. before \o after \in Seq(S) /\ Len(before \o after) = Len(before) + Len(after)
  BY <1>2, ConcatProperties
<1>. QED
  BY <1>1, <1>2, <1>3, <1>4

LEMMA RemovalElements ==
    ASSUME NEW S, NEW s \in Seq(S), NEW i \in 1 .. Len(s)
    PROVE  \A j \in 1 .. Len(s) - 1 : RemoveAt(s, i)[j] = IF j < i THEN s[j] ELSE s[j + 1]
<1> DEFINE before == SubSeq(s, 1, i - 1)
           after  == SubSeq(s, i + 1, Len(s))
<1>1. Len(s) \in Nat /\ \A j \in 1 .. Len(s) : s[j] \in S
  BY LenProperties, ElementOfSeq
<1>2. /\ before \in Seq(S) /\ Len(before) = i - 1
      /\ \A j \in 1 .. i - 1 : before[j] = s[j]
  <2>1. \A j \in 1 .. i - 1 : s[j] \in S
    BY <1>1
  <2>. QED
    BY <1>1, <2>1, SubSeqProperties
<1>3. /\ after \in Seq(S) /\ Len(after) = Len(s) - i
      /\ \A j \in 1 .. Len(s) - i : after[j] = s[j + i]
  <2>1. \A j \in i + 1 .. Len(s) : s[j] \in S
    BY <1>1
  <2>. QED
    BY <1>1, <2>1, SubSeqProperties
<1>4. RemoveAt(s, i) = before \o after
  BY DEF RemoveAt
<1>. HIDE DEF before, after
<1>5. \A j \in 1 .. Len(before) + Len(after) :
          (before \o after)[j] = IF j <= Len(before) THEN before[j] ELSE after[j - Len(before)]
  BY <1>2, <1>3, ConcatProperties
<1>6. ASSUME NEW j \in 1 .. Len(s) - 1
      PROVE  RemoveAt(s, i)[j] = IF j < i THEN s[j] ELSE s[j + 1]
  <2>1. RemoveAt(s, i)[j] = IF j <= i - 1 THEN before[j] ELSE after[j - (i - 1)]
    BY <1>1, <1>2, <1>3, <1>4, <1>5
  <2>2. CASE j < i
    <3>1. j \in 1 .. i - 1
      BY <1>1, <2>2
    <3>. QED
      BY <1>1, <1>2, <2>1, <2>2, <3>1
  <2>3. CASE ~(j < i)
    <3>1. j - (i - 1) \in 1 .. Len(s) - i /\ (j - (i - 1)) + i = j + 1
      BY <1>1, <2>3
    <3>2. after[j - (i - 1)] = s[j + 1]
      BY <1>3, <3>1
    <3>. QED
      BY <1>1, <2>1, <2>3, <3>2
  <2>. QED
    BY <2>2, <2>3
<1>. QED
  BY <1>6

LEMMA CountType ==
    ASSUME NEW items \in Seq(Item), NEW k
    PROVE  Count(items, k) \in Nat
<1>1. {j \in DOMAIN items : items[j].kind = k} \in SUBSET (1 .. Len(items)) /\ Len(items) \in Nat
  OBVIOUS
<1>2. IsFiniteSet(1 .. Len(items))
  BY <1>1, FS_Interval
<1>. QED
  BY <1>1, <1>2, FS_Subset, FS_CardinalityType DEF Count

LEMMA KindOfItem == ASSUME NEW item \in Item PROVE item.kind \in Kinds
  BY EndpointAssumption DEF Item, Model

(* A bundler after the bundle being filled has joined the others. *)
BundlersType ==
    current \in [Kinds -> Seq(Item)] /\ bundles \in [Kinds -> Seq(Bundles)]

LEMMA EnqueuedType ==
    ASSUME BundlersType, NEW k \in Kinds, NEW items \in Seq(Item), Enqueued(k, items)
    PROVE  /\ BundlersType'
           /\ current'[k] = << >>
           /\ items = << >> => Len(bundles'[k]) = Len(bundles[k])
           /\ items # << >> => Len(bundles'[k]) = Len(bundles[k]) + 1
           /\ \A j \in Kinds \ {k} : current'[j] = current[j] /\ bundles'[j] = bundles[j]
<1>1. Bundle(items) \in Bundles /\ bundles[k] \in Seq(Bundles) /\ << >> \in Seq(Item)
  <2>1. Bundle(items) \in Bundles
    BY DEF Bundle, Bundles
  <2>2. bundles[k] \in Seq(Bundles)
    BY DEF BundlersType
  <2>. QED
    BY <2>1, <2>2, EmptySeq
<1>2. /\ Append(bundles[k], Bundle(items)) \in Seq(Bundles)
      /\ Len(Append(bundles[k], Bundle(items))) = Len(bundles[k]) + 1
      /\ Len(bundles[k]) \in Nat
  BY <1>1
<1>3. bundles'[k] = IF items = << >> THEN bundles[k] ELSE Append(bundles[k], Bundle(items))
  BY DEF Enqueued, BundlersType
<1>4. bundles'[k] \in Seq(Bundles)
  BY <1>1, <1>2, <1>3
<1>5. /\ current'[k] = << >>
      /\ \A j \in Kinds \ {k} : current'[j] = current[j] /\ bundles'[j] = bundles[j]
      /\ current' \in [Kinds -> Seq(Item)]
  BY <1>1 DEF Enqueued, BundlersType
<1>6. bundles' \in [Kinds -> Seq(Bundles)]
  BY <1>4, <1>5 DEF Enqueued, BundlersType
<1>. QED
  BY <1>2, <1>3, <1>5, <1>6 DEF BundlersType

(* Nothing a Flush waits for, or will, gets less. *)
Grows ==
    \A k \in Kinds : Len(bundles'[k]) >= Len(bundles[k]) /\ Present(k)' >= Present(k)

(* One bundler changed, and it has no less than before. *)
LEMMA GrowsAt ==
    ASSUME BundlersType, BundlersType', NEW k \in Kinds,
           Len(bundles'[k]) >= Len(bundles[k]),
           current'[k] = << >> /\ current[k] # << >> => Len(bundles'[k]) >= Len(bundles[k]) + 1,
           \A j \in Kinds \ {k} : current'[j] = current[j] /\ bundles'[j] = bundles[j]
    PROVE  Grows
<1>1. \A j \in Kinds : Len(bundles[j]) \in Nat /\ Len(bundles'[j]) \in Nat
  BY DEF BundlersType
<1>2. ASSUME NEW j \in Kinds
      PROVE  Len(bundles'[j]) >= Len(bundles[j]) /\ Present(j)' >= Present(j)
  <2>1. CASE j = k
    <3>1. Len(bundles'[k]) \in Nat /\ Len(bundles[k]) \in Nat
      BY <1>1
    <3>2. CASE current[k] = << >> /\ current'[k] = << >>
      BY <2>1, <3>1, <3>2 DEF Present
    <3>3. CASE current[k] = << >> /\ current'[k] # << >>
      BY <2>1, <3>1, <3>3 DEF Present
    <3>4. CASE current[k] # << >> /\ current'[k] = << >>
      BY <2>1, <3>1, <3>4 DEF Present
    <3>5. CASE current[k] # << >> /\ current'[k] # << >>
      BY <2>1, <3>1, <3>5 DEF Present
    <3>. QED
      BY <3>2, <3>3, <3>4, <3>5
  <2>2. CASE j # k
    <3>1. bundles'[j] = bundles[j] /\ current'[j] = current[j]
      BY <2>2
    <3>. QED
      BY <1>1, <3>1 DEF Present
  <2>. QED
    BY <2>1, <2>2
<1>. QED
  BY <1>2 DEF Grows

LEMMA BundlerAddType ==
    ASSUME BundlersType, NEW item \in Item, BundlerAdd(item)
    PROVE  BundlersType' /\ Grows
<1> DEFINE k == item.kind
           items == Append(current[k], item)
<1>1. k \in Kinds /\ current[k] \in Seq(Item) /\ \A j \in Kinds : Len(bundles[j]) \in Nat
  BY KindOfItem DEF BundlersType
<1>2. items \in Seq(Item) /\ items # << >>
  BY <1>1
<1>3. CASE Len(items) >= BundleCountThreshold
  <2>1. Enqueued(k, items)
    BY <1>3 DEF BundlerAdd
  <2>. HIDE DEF k, items
  <2>2. /\ BundlersType'
        /\ current'[k] = << >> /\ Len(bundles'[k]) = Len(bundles[k]) + 1
        /\ \A j \in Kinds \ {k} : current'[j] = current[j] /\ bundles'[j] = bundles[j]
    BY <1>1, <1>2, <2>1, EnqueuedType
  <2>. QED
    BY <1>1, <2>2, GrowsAt
<1>4. CASE ~(Len(items) >= BundleCountThreshold)
  <2>1. current' = [current EXCEPT ![k] = items] /\ bundles' = bundles
    BY <1>4 DEF BundlerAdd
  <2>. HIDE DEF k, items
  <2>. QED
    <3>1. BundlersType'
      BY <1>1, <1>2, <2>1 DEF BundlersType
    <3>2. current'[k] # << >> /\ \A j \in Kinds \ {k} : current'[j] = current[j]
      BY <1>1, <1>2, <2>1 DEF BundlersType
    <3>. QED
      BY <1>1, <2>1, <3>1, <3>2, GrowsAt
<1>. QED
  BY <1>3, <1>4

LEMMA DelayType ==
    ASSUME BundlersType, NEW k \in Kinds, Enqueued(k, current[k])
    PROVE  BundlersType' /\ Grows
<1>1. current[k] \in Seq(Item) /\ \A j \in Kinds : Len(bundles[j]) \in Nat
  BY DEF BundlersType
<1>2. /\ BundlersType'
      /\ current'[k] = << >>
      /\ current[k] = << >> => Len(bundles'[k]) = Len(bundles[k])
      /\ current[k] # << >> => Len(bundles'[k]) = Len(bundles[k]) + 1
      /\ \A j \in Kinds \ {k} : current'[j] = current[j] /\ bundles'[j] = bundles[j]
  BY <1>1, EnqueuedType
<1>. QED
  BY <1>1, <1>2, GrowsAt

LEMMA BeginSendType ==
    ASSUME BundlersType, NEW k \in Kinds, BeginSend(k)
    PROVE  BundlersType' /\ Grows
<1> DEFINE i == Min(DOMAIN bundles[k] \ Sending(k))
           s == [bundles[k] EXCEPT ![i].sending = TRUE]
<1>1. /\ bundles' = [bundles EXCEPT ![k] = s] /\ current' = current
      /\ bundles[k] \in Seq(Bundles) /\ \A j \in Kinds : Len(bundles[j]) \in Nat
  BY DEF BeginSend, BundlersType
<1>2. s \in Seq(Bundles) /\ Len(s) = Len(bundles[k])
  <2>1. bundles[k] \in [1 .. Len(bundles[k]) -> Bundles]
    BY <1>1
  <2>2. s \in [1 .. Len(bundles[k]) -> Bundles]
    <3>. HIDE DEF i
    <3>. QED
      BY <2>1 DEF Bundles
  <2>. HIDE DEF s
  <2>. QED
    BY <1>1, <2>2
<1>. HIDE DEF s
<1>3. BundlersType'
  BY <1>1, <1>2 DEF BundlersType
<1>4. \A j \in Kinds : Len(bundles'[j]) = Len(bundles[j])
  BY <1>1, <1>2 DEF BundlersType
<1>. QED
  BY <1>1, <1>3, <1>4 DEF Grows, Present

LEMMA EndSendType ==
    ASSUME BundlersType, NEW k \in Kinds, NEW i \in 1 .. BufferedByteLimit, EndSend(k, i)
    PROVE  /\ BundlersType'
           /\ i \in 1 .. Len(bundles[k]) /\ Len(bundles'[k]) = Len(bundles[k]) - 1
           /\ \A j \in Kinds \ {k} : bundles'[j] = bundles[j]
<1>1. i \in DOMAIN bundles[k] /\ bundles[k] \in Seq(Bundles)
  BY DEF EndSend, Sending, BundlersType
<1>2. RemoveAt(bundles[k], i) \in Seq(Bundles)
      /\ Len(RemoveAt(bundles[k], i)) = Len(bundles[k]) - 1
  BY <1>1, RemovalType
<1>. QED
  BY <1>1, <1>2 DEF EndSend, BundlersType

-----------------------------------------------------------------------------
(* Types. *)

LEMMA InitType == Init => TypeOK
<1>. SUFFICES ASSUME Init PROVE TypeOK
  OBVIOUS
<1>1. << >> \in Seq(Item) /\ << >> \in Seq(Bundles)
  BY EmptySeq
<1>2. Len(FlushOrder) \in Nat
  BY EndpointAssumption
<1>3. current \in [Kinds -> Seq(Item)] /\ bundles \in [Kinds -> Seq(Bundles)]
  BY <1>1 DEF Init
<1>4. /\ call \in [Callers -> {NoCall} \cup Calls]
      /\ \A c \in Callers : call[c].pc = "add" => call[c].todo # << >>
  BY DEF Init, NoCall
<1>5. /\ DOMAIN tracker = {}
      /\ tracker \in [DOMAIN tracker -> [value : ModelValues, age : 0 .. ModelTTL + 1]]
  BY DEF Init
<1>. QED
  BY <1>2, <1>3, <1>4, <1>5 DEF Init, TypeOK

LEMMA MarkedType ==
    ASSUME TypeOK, NEW m \in Model
    PROVE  /\ DOMAIN Tracked(m) \subseteq ModelKeys
           /\ Tracked(m) \in [DOMAIN Tracked(m) -> [value : ModelValues, age : 0 .. ModelTTL + 1]]
<1>1. /\ m.key \in ModelKeys /\ m.value \in ModelValues /\ 0 \in 0 .. ModelTTL + 1
      /\ [value |-> m.value, age |-> 0] \in [value : ModelValues, age : 0 .. ModelTTL + 1]
  BY EndpointAssumption DEF Model
<1>2. /\ DOMAIN tracker \subseteq ModelKeys
      /\ \A key \in DOMAIN tracker :
             tracker[key] \in [value : ModelValues, age : 0 .. ModelTTL + 1]
  BY DEF TypeOK
<1>3. CASE IsAlive(m)
  BY <1>3 DEF Tracked, TypeOK
<1>4. CASE ~IsAlive(m)
  BY <1>1, <1>2, <1>4 DEF Tracked, Marked
<1>. QED
  BY <1>3, <1>4

(* The next item of a call, and the call without it. *)
LEMMA CallType ==
    ASSUME TypeOK, NEW c \in Callers, call[c].pc # "idle"
    PROVE  /\ call[c] \in Calls
           /\ call[c].todo # << >> => /\ Head(call[c].todo) \in Item
                                      /\ Tail(call[c].todo) \in Seq(Item)
<1>1. call[c] \in Calls
  BY DEF TypeOK, NoCall
<1>. QED
  BY <1>1 DEF Calls

LEMMA PutStepType ==
    ASSUME TypeOK, NEW c \in Callers, PutSteps(c)
    PROVE  TypeOK'
<1>1. call[c].pc # "idle"
  BY DEF PutSteps, HoldBack, LetThrough, Add, AddRefused, EndPut, AtModel, AtAdd
<1>2. /\ call[c] \in Calls
      /\ call[c].todo # << >> => /\ Head(call[c].todo) \in Item
                                 /\ Tail(call[c].todo) \in Seq(Item)
  BY <1>1, CallType
<1>3. \A d \in Calls :
          call' = [call EXCEPT ![c] = d] /\ (d.pc = "add" => d.todo # << >>) =>
              /\ call' \in [Callers -> {NoCall} \cup Calls]
              /\ \A b \in Callers : call'[b].pc = "add" => call'[b].todo # << >>
  BY DEF TypeOK
<1>4. ASSUME HoldBack(c) PROVE TypeOK'
  <2> DEFINE fewer == [call[c].received EXCEPT !["models"] = @ - 1]
             d     == [call[c] EXCEPT !.todo = Tail(@), !.received = fewer]
  <2>1. fewer \in [Kinds -> Int]
    BY <1>2, EndpointAssumption DEF Calls
  <2>2. call' = [call EXCEPT ![c] = d] /\ call[c].todo # << >> /\ call[c].pc = "next"
    BY <1>2, <1>4 DEF HoldBack, AtModel, Calls
  <2>3. d \in Calls /\ d.pc = "next"
    <3>. HIDE DEF fewer
    <3>. QED
      BY <1>2, <2>1, <2>2 DEF Calls
  <2>. HIDE DEF d
  <2>4. tracker' = Tracked(Head(call[c].todo)) /\ Head(call[c].todo) \in Model
    BY <1>4 DEF HoldBack, AtModel
  <2>. QED
    BY <1>3, <1>4, <2>2, <2>3, <2>4, MarkedType DEF HoldBack, TypeOK, bundlers
<1>5. ASSUME LetThrough(c) PROVE TypeOK'
  <2> DEFINE d == [call[c] EXCEPT !.pc = "add"]
  <2>1. call' = [call EXCEPT ![c] = d] /\ d \in Calls /\ d.todo # << >>
    BY <1>2, <1>5 DEF LetThrough, AtModel, Calls
  <2>. HIDE DEF d
  <2>2. tracker' = Tracked(Head(call[c].todo)) /\ Head(call[c].todo) \in Model
    BY <1>5 DEF LetThrough, AtModel
  <2>. QED
    BY <1>3, <1>5, <2>1, <2>2, MarkedType DEF LetThrough, TypeOK, bundlers
<1>6. ASSUME Add(c) PROVE TypeOK'
  <2> DEFINE d == [call[c] EXCEPT !.pc = "next", !.todo = Tail(@)]
  <2>1. call[c].todo # << >>
    BY <1>6 DEF Add, AtAdd, TypeOK
  <2>2. call' = [call EXCEPT ![c] = d] /\ d \in Calls /\ d.pc = "next"
    BY <1>2, <1>6, <2>1 DEF Add, Calls
  <2>. HIDE DEF d
  <2>3. BundlersType'
    BY <1>2, <1>6, <2>1, BundlerAddType DEF Add, TypeOK, BundlersType
  <2>. QED
    BY <1>3, <1>6, <2>2, <2>3 DEF Add, TypeOK, BundlersType
<1>7. ASSUME AddRefused(c) PROVE TypeOK'
  <2> DEFINE k    == Head(call[c].todo).kind
             more == [call[c].failed EXCEPT ![k] = @ + 1]
             d    == [call[c] EXCEPT !.pc = "next", !.todo = Tail(@), !.failed = more]
  <2>1. call[c].todo # << >>
    BY <1>7 DEF AddRefused, AtAdd, TypeOK
  <2>2. k \in Kinds
    BY <1>2, <2>1, KindOfItem
  <2>3. more \in [Kinds -> Nat]
    <3>. HIDE DEF k
    <3>. QED
      BY <1>2, <2>2 DEF Calls
  <2>4. call' = [call EXCEPT ![c] = d]
    BY <1>2, <1>7 DEF AddRefused, Calls
  <2>5. d \in Calls /\ d.pc = "next"
    <3>. HIDE DEF more
    <3>. QED
      BY <1>2, <2>1, <2>3 DEF Calls
  <2>. HIDE DEF d
  <2>. QED
    BY <1>3, <1>7, <2>4, <2>5 DEF AddRefused, TypeOK, bundlers
<1>8. ASSUME EndPut(c) PROVE TypeOK'
  <2>1. \A k \in Kinds : owed[k] + call[c].received[k] - call[c].failed[k] \in Int
    BY <1>2 DEF TypeOK, Calls
  <2>2. owed' \in [Kinds -> Int]
    BY <1>8, <2>1 DEF EndPut
  <2>3. call' = [call EXCEPT ![c] = NoCall] /\ NoCall.pc = "idle"
    BY <1>8 DEF EndPut, NoCall
  <2>4. /\ call' \in [Callers -> {NoCall} \cup Calls]
        /\ \A b \in Callers : call'[b].pc = "add" => call'[b].todo # << >>
    BY <2>3 DEF TypeOK
  <2>. QED
    BY <1>8, <2>2, <2>4 DEF EndPut, TypeOK, bundlers
<1>. QED
  BY <1>4, <1>5, <1>6, <1>7, <1>8 DEF PutSteps

LEMMA PutType ==
    ASSUME TypeOK, NEW c \in Callers, NEW request \in Requests, Put(c, request)
    PROVE  TypeOK'
<1> DEFINE d == [pc |-> "next", todo |-> request,
                 received |-> [k \in Kinds |-> Count(request, k)],
                 failed |-> [k \in Kinds |-> 0]]
<1>1. request \in Seq(Item) /\ \A k \in Kinds : Count(request, k) \in Int
  BY EndpointAssumption, CountType
<1>2. d \in Calls /\ d.pc = "next"
  BY <1>1 DEF Calls
<1>3. call' = [call EXCEPT ![c] = d]
  BY DEF Put
<1>. HIDE DEF d
<1>. QED
  BY <1>2, <1>3 DEF Put, TypeOK, bundlers

LEMMA TickType ==
    ASSUME TypeOK, Clock \/ AgeAll
    PROVE  TypeOK'
<1>1. /\ DOMAIN tracker \subseteq ModelKeys /\ ModelTTL \in Nat
      /\ \A key \in DOMAIN tracker :
             tracker[key] \in [value : ModelValues, age : 0 .. ModelTTL + 1]
  BY EndpointAssumption DEF TypeOK
<1>2. CASE Clock
  <2>1. \A key \in DOMAIN tracker :
            [tracker[key] EXCEPT !.age = IF @ > ModelTTL THEN @ ELSE @ + 1]
                \in [value : ModelValues, age : 0 .. ModelTTL + 1]
    BY <1>1
  <2>. QED
    BY <1>1, <1>2, <2>1 DEF Clock, TypeOK, bundlers
<1>3. CASE AgeAll
  BY <1>1, <1>3 DEF AgeAll, TypeOK, bundlers
<1>. QED
  BY <1>2, <1>3

LEMMA EndSendKeepsType ==
    ASSUME TypeOK, NEW k \in Kinds, EndSends(k)
    PROVE  TypeOK'
<1>1. PICK i \in 1 .. BufferedByteLimit : EndSend(k, i)
  BY DEF EndSends
<1>2. BundlersType' /\ i \in 1 .. Len(bundles[k]) /\ bundles[k] \in Seq(Bundles)
  BY <1>1, EndSendType DEF TypeOK, BundlersType
<1>3. owed' \in [Kinds -> Int]
  <2> DEFINE items == bundles[k][i].items
  <2>1. Len(items) \in Nat
    BY <1>2 DEF Bundles
  <2>2. PICK error \in BOOLEAN, taken \in 0 .. Len(items) :
            owed' = [owed EXCEPT ![k] =
                @ - Failed(bundles[k][i], error, taken) - Succeeded(error, taken)]
    BY <1>1 DEF EndSend
  <2>3. Failed(bundles[k][i], error, taken) \in Int /\ Succeeded(error, taken) \in Int
    BY <2>1 DEF Failed, Succeeded
  <2>. HIDE DEF items
  <2>. QED
    BY <2>2, <2>3 DEF TypeOK
<1>4. flush' \in [at : 0 .. Len(FlushOrder), wait : Nat]
  <2>1. flush \in [at : 0 .. Len(FlushOrder), wait : Nat] /\ i \in Nat \ {0}
    BY <1>2 DEF TypeOK
  <2>2. CASE WaitsFor(k, i)
    BY <1>1, <2>1, <2>2 DEF EndSend, WaitsFor
  <2>3. CASE ~WaitsFor(k, i)
    BY <1>1, <2>1, <2>3 DEF EndSend
  <2>. QED
    BY <2>2, <2>3
<1>5. older' \in [Kinds -> Nat]
  <2>1. older[k] \in Nat /\ i \in Nat \ {0}
    BY <1>2 DEF TypeOK
  <2>2. (IF i <= older[k] THEN older[k] - 1 ELSE older[k]) \in Nat
    BY <2>1
  <2>. QED
    BY <1>1, <2>2 DEF EndSend, TypeOK
<1>6. UNCHANGED <<current, tracker, call>>
  BY <1>1 DEF EndSend
<1>. QED
  BY <1>2, <1>3, <1>4, <1>5, <1>6 DEF TypeOK, BundlersType

LEMMA BundlerStepType ==
    ASSUME TypeOK, NEW k \in Kinds, DelayPasses(k) \/ BeginSend(k)
    PROVE  TypeOK' /\ Grows
<1>1. BundlersType
  BY DEF TypeOK, BundlersType
<1>2. BundlersType' /\ Grows
  BY <1>1, DelayType, BeginSendType DEF DelayPasses
<1>. QED
  BY <1>2 DEF DelayPasses, BeginSend, TypeOK, BundlersType

(* Where Flush is: its n-th bundler has no bundle being filled. *)
LEMMA FlushBundlerType ==
    ASSUME TypeOK, NEW n \in DOMAIN FlushOrder, FlushBundler(n)
    PROVE  /\ FlushOrder[n] \in Kinds /\ BundlersType'
           /\ flush' = [at |-> n, wait |-> Len(bundles'[FlushOrder[n]])]
           /\ Len(bundles'[FlushOrder[n]]) \in Nat
           /\ Len(bundles'[FlushOrder[n]]) = Present(FlushOrder[n])
           /\ \A k \in Kinds \ {FlushOrder[n]} : Present(k)' = Present(k)
<1> DEFINE f == FlushOrder[n]
<1>1. f \in Kinds /\ current[f] \in Seq(Item) /\ BundlersType
  BY DEF Kinds, Range, TypeOK, BundlersType
<1>2. Enqueued(f, current[f]) /\ flush' = [at |-> n, wait |-> Len(bundles'[f])]
  BY DEF FlushBundler
<1>. HIDE DEF f
<1>3. /\ BundlersType'
      /\ current[f] = << >> => Len(bundles'[f]) = Len(bundles[f])
      /\ current[f] # << >> => Len(bundles'[f]) = Len(bundles[f]) + 1
      /\ \A j \in Kinds \ {f} : current'[j] = current[j] /\ bundles'[j] = bundles[j]
  BY <1>1, <1>2, EnqueuedType
<1>4. Len(bundles[f]) \in Nat /\ Len(bundles'[f]) \in Nat
  BY <1>1, <1>3 DEF BundlersType
<1>5. Len(bundles'[f]) = Present(f)
  <2>1. CASE current[f] = << >>
    BY <1>3, <1>4, <2>1 DEF Present
  <2>2. CASE current[f] # << >>
    BY <1>3, <1>4, <2>2 DEF Present
  <2>. QED
    BY <2>1, <2>2
<1>6. \A k \in Kinds \ {f} : Present(k)' = Present(k)
  BY <1>3 DEF Present
<1>. QED
  BY <1>1, <1>2, <1>3, <1>4, <1>5, <1>6 DEF f

LEMMA PresentBounds ==
    ASSUME TypeOK, NEW k \in Kinds
    PROVE  /\ Len(bundles[k]) \in Nat /\ Present(k) \in Nat
           /\ Present(k) = Len(bundles[k]) \/ Present(k) = Len(bundles[k]) + 1
<1>1. Len(bundles[k]) \in Nat
  BY DEF TypeOK
<1>2. CASE current[k] = << >>
  BY <1>1, <1>2 DEF Present
<1>3. CASE current[k] # << >>
  BY <1>1, <1>3 DEF Present
<1>. QED
  BY <1>1, <1>2, <1>3

LEMMA FlushStepType ==
    ASSUME TypeOK, Flush \/ FlushNext \/ FlushReturn
    PROVE  TypeOK'
<1>1. FlushOrder # << >> /\ DOMAIN FlushOrder = 1 .. Len(FlushOrder) /\ Len(FlushOrder) \in Nat
  BY EndpointAssumption DEF Kinds, Range
<1>2. \A k \in Kinds : Present(k) \in Nat
  BY PresentBounds
<1>3. ASSUME NEW n \in DOMAIN FlushOrder, FlushBundler(n),
             older' \in [Kinds -> Nat], UNCHANGED <<tracker, call, owed>>
      PROVE  TypeOK'
  <2>1. /\ BundlersType' /\ flush' = [at |-> n, wait |-> Len(bundles'[FlushOrder[n]])]
        /\ Len(bundles'[FlushOrder[n]]) \in Nat
    BY <1>3, FlushBundlerType
  <2>. QED
    BY <1>1, <1>3, <2>1 DEF TypeOK, BundlersType
<1>4. CASE Flush
  BY <1>1, <1>2, <1>3, <1>4 DEF Flush
<1>5. CASE FlushNext
  BY <1>1, <1>3, <1>5 DEF FlushNext, TypeOK
<1>6. CASE FlushReturn
  BY <1>1, <1>6 DEF FlushReturn, TypeOK, bundlers
<1>. QED
  BY <1>4, <1>5, <1>6

LEMMA TypeStep == ASSUME TypeOK, [Next]_vars PROVE TypeOK'
<1>1. CASE UNCHANGED vars
  BY <1>1 DEF vars, bundlers, TypeOK
<1>. QED
  BY <1>1, PutType, PutStepType, BundlerStepType, EndSendKeepsType, FlushStepType, TickType
     DEF Next, BundlerSteps

(* What Put calls, bundlers, Flush and the tracker keep: a call that is to add has an item, a   *)
(* Flush under way is at a bundler and waits for no fewer bundles than none.                    *)
THEOREM EndpointTypeCorrect == Spec => []TypeOK
  BY InitType, TypeStep, PTL DEF Spec

-----------------------------------------------------------------------------
(* Flush.  The bundlers it is through with have none left of the bundles that were there when  *)
(* it was called; of the one it is at, it waits for all those left; the ones it has not come to *)
(* still have theirs.                                                                           *)
FlushedAt(n) ==
    LET k == FlushOrder[n]
    IN  /\ n < flush.at => older[k] = 0
        /\ n = flush.at => older[k] <= flush.wait /\ flush.wait <= Len(bundles[k])
        /\ n > flush.at => older[k] <= Present(k)

FlushInv ==
    /\ flush.at = 0 => \A k \in Kinds : older[k] = 0
    /\ flush.at # 0 => \A n \in DOMAIN FlushOrder : FlushedAt(n)

(* Steps that neither send nor flush. *)
LEMMA GrowingSteps ==
    ASSUME TypeOK, TypeOK', FlushInv, Grows, UNCHANGED <<flush, older>>
    PROVE  FlushInv'
<1>1. ASSUME NEW n \in DOMAIN FlushOrder, FlushedAt(n) PROVE FlushedAt(n)'
  <2> DEFINE k == FlushOrder[n]
  <2>1. k \in Kinds
    BY DEF Kinds, Range
  <2>2. older[k] \in Nat /\ flush.wait \in Nat
    BY <2>1 DEF TypeOK
  <2>3. /\ Len(bundles[k]) \in Nat /\ Present(k) \in Nat
        /\ Len(bundles[k])' \in Nat /\ Present(k)' \in Nat
    BY <2>1, PresentBounds DEF TypeOK, Present
  <2>4. Len(bundles'[k]) >= Len(bundles[k]) /\ Present(k)' >= Present(k)
    BY <2>1 DEF Grows
  <2>. HIDE DEF k
  <2>5. /\ n < flush.at => older[k] = 0
        /\ n = flush.at => older[k] <= flush.wait /\ flush.wait <= Len(bundles[k])
        /\ n > flush.at => older[k] <= Present(k)
    BY <1>1 DEF FlushedAt, k
  <2>6. /\ n < flush.at => older[k] = 0
        /\ n = flush.at => older[k] <= flush.wait /\ flush.wait <= Len(bundles'[k])
        /\ n > flush.at => older[k] <= Present(k)'
    BY <2>2, <2>3, <2>4, <2>5
  <2>. QED
    BY <2>6 DEF FlushedAt, k
<1>. QED
  BY <1>1 DEF FlushInv

(* One bundle sent: what is left of those that were there stays within what Flush waits for. *)
LEMMA EndSendKeepsFlush ==
    ASSUME TypeOK, FlushInv, NEW k \in Kinds, NEW i \in 1 .. BufferedByteLimit, EndSend(k, i)
    PROVE  FlushInv'
<1>1. /\ i \in 1 .. Len(bundles[k]) /\ Len(bundles'[k]) = Len(bundles[k]) - 1
      /\ \A j \in Kinds \ {k} : bundles'[j] = bundles[j]
      /\ current' = current
  BY EndSendType DEF EndSend, TypeOK, BundlersType
<1>2. /\ older[k] \in Nat /\ Len(bundles[k]) \in Nat /\ Present(k) \in Nat
      /\ flush.wait \in Nat /\ flush.at \in Nat
  BY PresentBounds DEF TypeOK
<1>3. /\ older'[k] = IF i <= older[k] THEN older[k] - 1 ELSE older[k]
      /\ \A j \in Kinds \ {k} : older'[j] = older[j]
  BY DEF EndSend, TypeOK
<1>4. /\ flush'.at = flush.at
      /\ flush'.wait = IF WaitsFor(k, i) THEN flush.wait - 1 ELSE flush.wait
  BY DEF EndSend, TypeOK
<1>5. Present(k)' = Present(k) - 1 /\ \A j \in Kinds \ {k} : Present(j)' = Present(j)
  <2>1. Present(k)' = Present(k) - 1
    <3>1. CASE current[k] = << >>
      BY <1>1, <1>2, <3>1 DEF Present
    <3>2. CASE current[k] # << >>
      BY <1>1, <1>2, <3>2 DEF Present
    <3>. QED
      BY <3>1, <3>2
  <2>2. \A j \in Kinds \ {k} : Present(j)' = Present(j)
    BY <1>1 DEF Present
  <2>. QED
    BY <2>1, <2>2
<1>6. flush.at = 0 => \A j \in Kinds : older'[j] = 0
  BY <1>1, <1>3 DEF FlushInv
<1>7. ASSUME flush.at # 0, NEW n \in DOMAIN FlushOrder, FlushedAt(n) PROVE FlushedAt(n)'
  <2>1. n \in Nat /\ FlushOrder[n] \in Kinds
    BY EndpointAssumption DEF Kinds, Range
  <2>2. /\ n < flush.at => older[FlushOrder[n]] = 0
        /\ n = flush.at => /\ older[FlushOrder[n]] <= flush.wait
                           /\ flush.wait <= Len(bundles[FlushOrder[n]])
        /\ n > flush.at => older[FlushOrder[n]] <= Present(FlushOrder[n])
    BY <1>7 DEF FlushedAt
  <2>3. CASE FlushOrder[n] = k
    <3>1. n = flush.at => (WaitsFor(k, i) <=> i <= flush.wait)
      BY <1>2, <1>7, <2>3 DEF WaitsFor
    <3>2. CASE n < flush.at
      BY <1>1, <1>2, <1>3, <1>4, <2>1, <2>2, <2>3, <3>2 DEF FlushedAt
    <3>3. CASE n = flush.at
      <4>1. older'[k] <= flush'.wait /\ flush'.wait <= Len(bundles'[k])
        BY <1>1, <1>2, <1>3, <1>4, <2>2, <2>3, <3>1, <3>3
      <4>. QED
        BY <1>2, <1>4, <2>3, <3>3, <4>1 DEF FlushedAt
    <3>4. CASE n > flush.at
      <4>1. older'[k] <= Present(k)'
        BY <1>1, <1>2, <1>3, <1>5, <2>2, <2>3, <3>4, PresentBounds
      <4>. QED
        BY <1>2, <1>4, <2>1, <2>3, <3>4, <4>1 DEF FlushedAt
    <3>. QED
      BY <1>2, <2>1, <3>2, <3>3, <3>4
  <2>4. CASE FlushOrder[n] # k
    <3>1. flush.at = n => ~WaitsFor(k, i)
      BY <2>4 DEF WaitsFor
    <3>2. /\ older'[FlushOrder[n]] = older[FlushOrder[n]]
          /\ bundles'[FlushOrder[n]] = bundles[FlushOrder[n]]
          /\ Present(FlushOrder[n])' = Present(FlushOrder[n])
      BY <1>1, <1>3, <1>5, <2>1, <2>4
    <3>. QED
      BY <1>2, <1>4, <2>1, <2>2, <3>1, <3>2 DEF FlushedAt
  <2>. QED
    BY <2>3, <2>4
<1>. QED
  BY <1>4, <1>6, <1>7 DEF FlushInv

LEMMA FlushBegins ==
    ASSUME TypeOK, Flush
    PROVE  FlushInv'
<1>1. /\ 1 \in DOMAIN FlushOrder /\ DOMAIN FlushOrder = 1 .. Len(FlushOrder)
      /\ Len(FlushOrder) \in Nat
      /\ \A n \in DOMAIN FlushOrder : FlushOrder[n] \in Kinds
      /\ \A n \in DOMAIN FlushOrder \ {1} : FlushOrder[n] # FlushOrder[1]
  BY EndpointAssumption DEF Kinds, Range, IsInjective
<1>2. FlushBundler(1) /\ older' = [k \in Kinds |-> Present(k)]
  BY DEF Flush
<1>3. /\ flush' = [at |-> 1, wait |-> Len(bundles'[FlushOrder[1]])]
      /\ Len(bundles'[FlushOrder[1]]) \in Nat
      /\ Len(bundles'[FlushOrder[1]]) = Present(FlushOrder[1])
      /\ \A k \in Kinds \ {FlushOrder[1]} : Present(k)' = Present(k)
  BY <1>1, <1>2, FlushBundlerType
<1>4. ASSUME NEW n \in DOMAIN FlushOrder PROVE FlushedAt(n)'
  <2>1. CASE n = 1
    BY <1>1, <1>2, <1>3, <2>1 DEF FlushedAt
  <2>2. CASE n # 1
    <3>1. /\ FlushOrder[n] \in Kinds \ {FlushOrder[1]} /\ n > 1 /\ n \in Nat
          /\ Present(FlushOrder[n]) \in Nat
      BY <1>1, <2>2, PresentBounds
    <3>2. older'[FlushOrder[n]] <= Present(FlushOrder[n])'
      BY <1>2, <1>3, <3>1
    <3>. QED
      BY <1>3, <3>1, <3>2 DEF FlushedAt
  <2>. QED
    BY <2>1, <2>2
<1>. QED
  BY <1>3, <1>4 DEF FlushInv

LEMMA FlushGoesOn ==
    ASSUME TypeOK, FlushInv, FlushNext
    PROVE  FlushInv'
<1> DEFINE m == flush.at + 1
<1>1. /\ DOMAIN FlushOrder = 1 .. Len(FlushOrder) /\ Len(FlushOrder) \in Nat
      /\ m \in DOMAIN FlushOrder /\ flush.at \in DOMAIN FlushOrder /\ flush.at \in Nat \ {0}
      /\ \A n \in DOMAIN FlushOrder : n \in Nat /\ FlushOrder[n] \in Kinds
      /\ \A n \in DOMAIN FlushOrder \ {m} : FlushOrder[n] # FlushOrder[m]
  BY EndpointAssumption DEF FlushNext, Kinds, Range, IsInjective
<1>2. FlushBundler(m) /\ older' = older /\ flush.wait = 0
  BY DEF FlushNext
<1>. HIDE DEF m
<1>3. /\ flush' = [at |-> m, wait |-> Len(bundles'[FlushOrder[m]])]
      /\ Len(bundles'[FlushOrder[m]]) \in Nat
      /\ Len(bundles'[FlushOrder[m]]) = Present(FlushOrder[m])
      /\ \A k \in Kinds \ {FlushOrder[m]} : Present(k)' = Present(k)
  BY <1>1, <1>2, FlushBundlerType
<1>4. ASSUME NEW n \in DOMAIN FlushOrder PROVE FlushedAt(n)'
  <2>1. /\ n < flush.at => older[FlushOrder[n]] = 0
        /\ n = flush.at => older[FlushOrder[n]] <= flush.wait
        /\ n > flush.at => older[FlushOrder[n]] <= Present(FlushOrder[n])
    BY <1>1 DEF FlushInv, FlushedAt
  <2>2. older[FlushOrder[n]] \in Nat /\ n \in Nat
    BY <1>1 DEF TypeOK
  <2>3. CASE n < m
    BY <1>1, <1>2, <1>3, <2>1, <2>2, <2>3 DEF FlushedAt, m
  <2>4. CASE n = m
    BY <1>1, <1>2, <1>3, <2>1, <2>2, <2>4 DEF FlushedAt, m
  <2>5. CASE n > m
    <3>1. FlushOrder[n] \in Kinds \ {FlushOrder[m]} /\ n > flush.at
      BY <1>1, <2>2, <2>5 DEF m
    <3>2. older'[FlushOrder[n]] <= Present(FlushOrder[n])'
      BY <1>2, <1>3, <2>1, <3>1
    <3>. QED
      BY <1>1, <1>3, <2>2, <2>5, <3>2 DEF FlushedAt, m
  <2>. QED
    BY <1>1, <2>2, <2>3, <2>4, <2>5 DEF m
<1>. QED
  BY <1>1, <1>3, <1>4 DEF FlushInv, m

(* The bundlers Flush has come to are all there are. *)
LEMMA NoneLeft ==
    ASSUME TypeOK, FlushInv, FlushReturn
    PROVE  \A k \in Kinds : older[k] = 0
<1>1. SUFFICES ASSUME NEW k \in Kinds PROVE older[k] = 0
  OBVIOUS
<1>2. PICK n \in DOMAIN FlushOrder : FlushOrder[n] = k
  BY DEF Kinds, Range
<1>3. /\ flush.at = Len(FlushOrder) /\ flush.wait = 0 /\ Len(FlushOrder) \in Nat
      /\ n \in 1 .. Len(FlushOrder)
  BY EndpointAssumption DEF FlushReturn
<1>4. FlushedAt(n)
  BY <1>3 DEF FlushInv
<1>5. older[k] \in Nat
  BY DEF TypeOK
<1>. QED
  BY <1>2, <1>3, <1>4, <1>5 DEF FlushedAt

LEMMA FlushStep ==
    ASSUME TypeOK, FlushInv, [Next]_vars
    PROVE  FlushInv'
<1>1. TypeOK'
  BY TypeStep
<1>2. CASE Flush \/ FlushNext
  BY <1>2, FlushBegins, FlushGoesOn
<1>3. CASE FlushReturn
  BY <1>3, NoneLeft DEF FlushReturn, FlushInv
<1>4. CASE \E k \in Kinds : EndSends(k)
  BY <1>4, EndSendKeepsFlush DEF EndSends
<1>5. CASE \E k \in Kinds : DelayPasses(k) \/ BeginSend(k)
  BY <1>1, <1>5, BundlerStepType, GrowingSteps DEF DelayPasses, BeginSend
<1>6. CASE \E c \in Callers : Add(c)
  <2>1. PICK c \in Callers : Add(c)
    BY <1>6
  <2>2. Head(call[c].todo) \in Item
    BY <2>1, CallType DEF Add, AtAdd, TypeOK
  <2>3. Grows
    BY <2>1, <2>2, BundlerAddType DEF Add, TypeOK, BundlersType
  <2>. QED
    BY <1>1, <2>1, <2>3, GrowingSteps DEF Add
<1>7. CASE UNCHANGED <<bundlers, flush, older>>
  <2>1. \A k \in Kinds : Len(bundles[k]) \in Nat /\ Present(k) \in Nat
    BY PresentBounds
  <2>2. Grows
    BY <1>7, <2>1 DEF Grows, Present, bundlers
  <2>. QED
    BY <1>1, <1>7, <2>2, GrowingSteps
<1>8. \/ \E c \in Callers : \/ \E request \in Requests : Put(c, request)
                            \/ HoldBack(c) \/ LetThrough(c) \/ AddRefused(c) \/ EndPut(c)
      \/ Clock \/ AgeAll \/ UNCHANGED vars
      => UNCHANGED <<bundlers, flush, older>>
  BY DEF Put, HoldBack, LetThrough, AddRefused, EndPut, Clock, AgeAll, vars, bundlers
<1>. QED
  BY <1>2, <1>3, <1>4, <1>5, <1>6, <1>7, <1>8 DEF Next, PutSteps, BundlerSteps

(* Flush returns only when all that was accepted before it was called has been sent, whatever   *)
(* the bundlers and their order, however many bundles are sent at once and however they end.    *)
THEOREM FlushWaitsForAll == Spec => FlushWaits
<1>1. TypeOK /\ FlushInv /\ [Next]_vars =>
          [flush.at # 0 /\ flush'.at = 0 => \A k \in Kinds : older[k] = 0]_vars
  <2>. SUFFICES ASSUME TypeOK, FlushInv, [Next]_vars, flush.at # 0, flush'.at = 0
                PROVE  \A k \in Kinds : older[k] = 0
    OBVIOUS
  <2>1. FlushReturn
    <3>1. flush' # flush
      OBVIOUS
    <3>2. \/ \E k \in Kinds : EndSends(k)
          \/ Flush \/ FlushNext \/ FlushReturn
      BY <3>1 DEF Next, PutSteps, BundlerSteps, Put, HoldBack, LetThrough, Add, AddRefused,
                  EndPut, DelayPasses, BeginSend, Clock, AgeAll, vars
    <3>3. ~\E k \in Kinds : EndSends(k)
      BY DEF EndSends, EndSend, TypeOK
    <3>4. ~Flush
      BY DEF Flush
    <3>5. ~FlushNext
      BY DEF FlushNext, FlushBundler
    <3>. QED
      BY <3>2, <3>3, <3>4, <3>5
  <2>. QED
    BY <2>1, NoneLeft
<1>2. Init => FlushInv
  BY DEF Init, FlushInv
<1>. QED
  BY <1>1, <1>2, InitType, TypeStep, FlushStep, PTL DEF Spec, FlushWaits

-----------------------------------------------------------------------------
(* What bundlers keep. *)

Sizes(b) == [i \in DOMAIN b |-> Len(b[i].items)]

LEMMA SizesType ==
    ASSUME NEW b \in Seq(Bundles)
    PROVE  /\ Len(b) \in Nat /\ DOMAIN b = 1 .. Len(b) /\ IsFiniteSet(1 .. Len(b))
           /\ Sizes(b) \in [1 .. Len(b) -> Nat]
           /\ Total(Sizes(b)) \in Nat
<1>1. Len(b) \in Nat /\ DOMAIN b = 1 .. Len(b) /\ IsFiniteSet(1 .. Len(b))
  BY FS_Interval
<1>2. \A i \in 1 .. Len(b) : Len(b[i].items) \in Nat
  <2>1. \A i \in 1 .. Len(b) : b[i] \in Bundles
    BY ElementOfSeq
  <2>. QED
    BY <2>1 DEF Bundles
<1>3. Sizes(b) \in [1 .. Len(b) -> Nat]
  BY <1>1, <1>2 DEF Sizes
<1>. QED
  BY <1>1, <1>3, PairsFinite

LEMMA SizesAppend ==
    ASSUME NEW b \in Seq(Bundles), NEW items \in Seq(Item)
    PROVE  Total(Sizes(Append(b, Bundle(items)))) = Total(Sizes(b)) + Len(items)
<1> DEFINE n == Len(b) + 1
           c == Append(b, Bundle(items))
<1>1. Bundle(items) \in Bundles /\ Bundle(items).items = items
  BY DEF Bundle, Bundles
<1>2. /\ c \in Seq(Bundles) /\ Len(c) = n /\ c[n] = Bundle(items)
      /\ \A i \in 1 .. Len(b) : c[i] = b[i]
  BY <1>1, AppendProperties
<1>3. /\ Sizes(b) \in [1 .. Len(b) -> Nat] /\ Len(b) \in Nat /\ DOMAIN b = 1 .. Len(b)
      /\ Total(Sizes(b)) \in Nat
  BY SizesType
<1>4. Sizes(c) \in [1 .. n -> Nat] /\ DOMAIN c = 1 .. n /\ IsFiniteSet(1 .. n)
  BY <1>2, SizesType
<1>. HIDE DEF c
<1>5. Sizes(c)[n] = Len(items) /\ n \in 1 .. n
  BY <1>1, <1>2, <1>3, <1>4 DEF Sizes
<1>6. [i \in (1 .. n) \ {n} |-> Sizes(c)[i]] = Sizes(b)
  <2>1. (1 .. n) \ {n} = 1 .. Len(b)
    BY <1>3
  <2>2. \A i \in 1 .. Len(b) : Sizes(c)[i] = Sizes(b)[i]
    BY <1>2, <1>3, <1>4 DEF Sizes
  <2>. QED
    BY <1>3, <2>1, <2>2
<1>. HIDE DEF n
<1>7. Total(Sizes(c)) = Total([i \in (1 .. n) \ {n} |-> Sizes(c)[i]]) + Sizes(c)[n]
  BY <1>4, <1>5, TotalSplit
<1>. QED
  BY <1>5, <1>6, <1>7 DEF c

LEMMA SizesRemove ==
    ASSUME NEW b \in Seq(Bundles), NEW i \in 1 .. Len(b)
    PROVE  Total(Sizes(RemoveAt(b, i))) = Total(Sizes(b)) - Len(b[i].items)
<1> DEFINE n == Len(b)
           r == RemoveAt(b, i)
           h == [j \in (1 .. n) \ {i} |-> Sizes(b)[j]]
           f == [j \in (1 .. n) \ {i} |-> IF j < i THEN j ELSE j - 1]
<1>1. /\ Sizes(b) \in [1 .. n -> Nat] /\ n \in Nat /\ IsFiniteSet(1 .. n)
      /\ Total(Sizes(b)) \in Nat /\ DOMAIN b = 1 .. n
  BY SizesType
<1>2. r \in Seq(Bundles) /\ Len(r) = n - 1
  BY <1>1, RemovalType
<1>3. \A j \in 1 .. n - 1 : r[j] = IF j < i THEN b[j] ELSE b[j + 1]
  BY RemovalElements
<1>. HIDE DEF r
<1>4. Sizes(r) \in [1 .. n - 1 -> Nat] /\ DOMAIN r = 1 .. n - 1 /\ IsFiniteSet(1 .. n - 1)
  BY <1>2, SizesType
<1>5. h \in [(1 .. n) \ {i} -> Nat] /\ IsFiniteSet((1 .. n) \ {i})
  BY <1>1, FS_RemoveElement
<1>6. /\ f \in [(1 .. n) \ {i} -> 1 .. n - 1]
      /\ \A x, y \in (1 .. n) \ {i} : f[x] = f[y] => x = y
  BY <1>1
<1>7. ASSUME NEW z \in 1 .. n - 1 PROVE \E x \in (1 .. n) \ {i} : f[x] = z
  <2>1. CASE z < i
    <3>1. z \in (1 .. n) \ {i} /\ f[z] = z
      BY <1>1, <2>1
    <3>. QED
      BY <3>1
  <2>2. CASE ~(z < i)
    <3>1. z + 1 \in (1 .. n) \ {i} /\ f[z + 1] = z
      BY <1>1, <2>2
    <3>. QED
      BY <3>1
  <2>. QED
    BY <2>1, <2>2
<1>8. ASSUME NEW j \in (1 .. n) \ {i} PROVE Sizes(r)[f[j]] = h[j]
  <2>1. f[j] \in 1 .. n - 1 /\ r[f[j]] = b[j]
    BY <1>1, <1>3
  <2>2. Sizes(r)[f[j]] = Len(r[f[j]].items)
    BY <1>4, <2>1 DEF Sizes
  <2>3. h[j] = Len(b[j].items)
    BY <1>1 DEF Sizes
  <2>. QED
    BY <2>1, <2>2, <2>3
<1>. HIDE DEF f
<1>9. f \in Bijection((1 .. n) \ {i}, 1 .. n - 1)
  BY <1>6, <1>7 DEF Bijection, Injection, IsInjective, Surjection
<1>. HIDE DEF h
<1>10. Total(Sizes(r)) = Total(h)
  <2> DEFINE I == (1 .. n) \ {i}
             J == 1 .. n - 1
             g == Sizes(r)
  <2>1. /\ IsFiniteSet(I) /\ h \in [I -> Nat] /\ g \in [J -> Nat] /\ f \in Bijection(I, J)
        /\ \A x \in I : g[f[x]] = h[x]
    BY <1>4, <1>5, <1>8, <1>9
  <2>. HIDE DEF I, J, g
  <2>. QED
    BY <2>1, TotalRenamed DEF g
<1>11. Total(Sizes(b)) = Total(h) + Sizes(b)[i]
  BY <1>1, TotalSplit DEF h
<1>12. Sizes(b)[i] = Len(b[i].items) /\ Total(h) \in Nat /\ Sizes(b)[i] \in Nat
  BY <1>1, <1>5, PairsFinite DEF Sizes
<1>. QED
  BY <1>10, <1>11, <1>12 DEF r

LEMMA BufferedType ==
    ASSUME BundlersType, NEW k \in Kinds
    PROVE  /\ Len(current[k]) \in Nat
           /\ Total(Sizes(bundles[k])) \in Nat
           /\ Buffered(k) = Len(current[k]) + Total(Sizes(bundles[k]))
           /\ Buffered(k) \in Nat
<1>1. Len(current[k]) \in Nat /\ Total(Sizes(bundles[k])) \in Nat
  BY SizesType DEF BundlersType
<1>2. Buffered(k) = Len(current[k]) + Total(Sizes(bundles[k]))
  BY DEF Buffered, Sizes
<1>. QED
  BY <1>1, <1>2

(* A bundler that did not change. *)
LEMMA BufferedSame ==
    ASSUME NEW k \in Kinds, current'[k] = current[k], bundles'[k] = bundles[k]
    PROVE  Buffered(k)' = Buffered(k)
  BY DEF Buffered

LEMMA EnqueuedBuffer ==
    ASSUME BundlersType, NEW k \in Kinds, NEW items \in Seq(Item), Enqueued(k, items)
    PROVE  /\ Buffered(k)' = Total(Sizes(bundles[k])) + Len(items)
           /\ \A j \in Kinds \ {k} : Buffered(j)' = Buffered(j)
<1>1. /\ BundlersType' /\ current'[k] = << >>
      /\ \A j \in Kinds \ {k} : current'[j] = current[j] /\ bundles'[j] = bundles[j]
  BY EnqueuedType
<1>2. bundles'[k] = IF items = << >> THEN bundles[k] ELSE Append(bundles[k], Bundle(items))
  BY DEF Enqueued, BundlersType
<1>3. Len(current'[k]) = 0 /\ Len(items) \in Nat /\ bundles[k] \in Seq(Bundles)
  BY <1>1, EmptySeq DEF BundlersType
<1>4. Total(Sizes(bundles[k])) \in Nat
  BY BufferedType
<1>5. Total(Sizes(bundles'[k])) = Total(Sizes(bundles[k])) + Len(items)
  <2>1. CASE items = << >>
    <3>1. Len(items) = 0
      BY <2>1, EmptySeq
    <3>. QED
      BY <1>2, <1>4, <2>1, <3>1
  <2>2. CASE items # << >>
    BY <1>2, <1>3, <2>2, SizesAppend
  <2>. QED
    BY <2>1, <2>2
<1>6. Buffered(k)' = Len(current'[k]) + Total(Sizes(bundles'[k]))
  BY DEF Buffered, Sizes
<1>. QED
  BY <1>1, <1>3, <1>4, <1>5, <1>6, BufferedSame

LEMMA DelayBuffer ==
    ASSUME BundlersType, NEW k \in Kinds, Enqueued(k, current[k])
    PROVE  \A j \in Kinds : Buffered(j)' = Buffered(j)
<1>1. current[k] \in Seq(Item)
  BY DEF BundlersType
<1>2. /\ Buffered(k) = Len(current[k]) + Total(Sizes(bundles[k]))
      /\ Total(Sizes(bundles[k])) \in Nat /\ Len(current[k]) \in Nat
  BY BufferedType
<1>. QED
  BY <1>1, <1>2, EnqueuedBuffer

LEMMA BundlerAddBuffer ==
    ASSUME BundlersType, NEW item \in Item, BundlerAdd(item)
    PROVE  \A j \in Kinds : Buffered(j)' = Buffered(j) + (IF j = item.kind THEN 1 ELSE 0)
<1> DEFINE k == item.kind
           items == Append(current[k], item)
<1>1. k \in Kinds /\ current[k] \in Seq(Item)
  BY KindOfItem DEF BundlersType
<1>2. items \in Seq(Item) /\ Len(items) = Len(current[k]) + 1
  BY <1>1
<1>3. /\ Buffered(k) = Len(current[k]) + Total(Sizes(bundles[k]))
      /\ Total(Sizes(bundles[k])) \in Nat /\ Len(current[k]) \in Nat
      /\ \A j \in Kinds : Buffered(j) \in Nat
  BY <1>1, BufferedType
<1>4. /\ Buffered(k)' = Buffered(k) + 1
      /\ \A j \in Kinds \ {k} : Buffered(j)' = Buffered(j)
  <2>1. CASE Len(items) >= BundleCountThreshold
    <3>1. Enqueued(k, items)
      BY <2>1 DEF BundlerAdd
    <3>. HIDE DEF k, items
    <3>. QED
      BY <1>1, <1>2, <1>3, <3>1, EnqueuedBuffer
  <2>2. CASE ~(Len(items) >= BundleCountThreshold)
    <3>1. current' = [current EXCEPT ![k] = items] /\ bundles' = bundles
      BY <2>2 DEF BundlerAdd
    <3>. HIDE DEF k, items
    <3>2. current'[k] = items /\ \A j \in Kinds \ {k} : current'[j] = current[j]
      BY <1>1, <3>1 DEF BundlersType
    <3>3. Buffered(k)' = Len(items) + Total(Sizes(bundles[k]))
      BY <3>1, <3>2 DEF Buffered, Sizes
    <3>. QED
      BY <1>2, <1>3, <3>1, <3>2, <3>3, BufferedSame
  <2>. QED
    BY <2>1, <2>2
<1>. QED
  BY <1>1, <1>3, <1>4

LEMMA BeginSendBuffer ==
    ASSUME BundlersType, NEW k \in Kinds, BeginSend(k)
    PROVE  /\ \A j \in Kinds : Buffered(j)' = Buffered(j)
           /\ \A j \in Kinds : /\ DOMAIN bundles'[j] = DOMAIN bundles[j]
                               /\ \A i \in DOMAIN bundles[j] :
                                      bundles'[j][i].items = bundles[j][i].items
<1> DEFINE i == Min(DOMAIN bundles[k] \ Sending(k))
           s == [bundles[k] EXCEPT ![i].sending = TRUE]
<1>1. /\ bundles' = [bundles EXCEPT ![k] = s] /\ current' = current
      /\ bundles[k] \in Seq(Bundles) /\ bundles[k] \in [1 .. Len(bundles[k]) -> Bundles]
  BY DEF BeginSend, BundlersType
<1>2. DOMAIN s = DOMAIN bundles[k] /\ \A j \in DOMAIN s : s[j].items = bundles[k][j].items
  <2>. HIDE DEF i
  <2>. QED
    BY <1>1 DEF Bundles
<1>. HIDE DEF s
<1>3. bundles'[k] = s /\ \A j \in Kinds \ {k} : bundles'[j] = bundles[j]
  BY <1>1 DEF BundlersType
<1>4. Sizes(bundles'[k]) = Sizes(bundles[k])
  BY <1>2, <1>3 DEF Sizes
<1>5. Buffered(k)' = Buffered(k)
  BY <1>1, <1>4 DEF Buffered, Sizes
<1>. QED
  BY <1>1, <1>2, <1>3, <1>5, BufferedSame

LEMMA EndSendBuffer ==
    ASSUME BundlersType, NEW k \in Kinds, NEW i \in 1 .. BufferedByteLimit, EndSend(k, i)
    PROVE  /\ Buffered(k)' = Buffered(k) - Len(bundles[k][i].items)
           /\ \A j \in Kinds \ {k} : Buffered(j)' = Buffered(j)
<1>1. /\ i \in 1 .. Len(bundles[k])
      /\ \A j \in Kinds \ {k} : bundles'[j] = bundles[j]
      /\ current' = current /\ bundles'[k] = RemoveAt(bundles[k], i)
      /\ bundles[k] \in Seq(Bundles)
  BY EndSendType DEF EndSend, BundlersType
<1>2. /\ Buffered(k) = Len(current[k]) + Total(Sizes(bundles[k]))
      /\ Total(Sizes(bundles[k])) \in Nat /\ Len(current[k]) \in Nat
  BY BufferedType
<1>3. Buffered(k)' = Len(current'[k]) + Total(Sizes(bundles'[k]))
  BY DEF Buffered, Sizes
<1>4. Total(Sizes(bundles'[k])) = Total(Sizes(bundles[k])) - Len(bundles[k][i].items)
  BY <1>1, SizesRemove
<1>5. Len(bundles[k][i].items) \in Nat
  BY <1>1, ElementOfSeq DEF Bundles
<1>. QED
  BY <1>1, <1>2, <1>3, <1>4, <1>5, BufferedSame

-----------------------------------------------------------------------------
(* Limits. *)

BundleLimits(k) ==
    /\ Len(current[k]) < BundleCountThreshold
    /\ \A i \in DOMAIN bundles[k] : Len(bundles[k][i].items) \in 1 .. BundleCountThreshold

LEMMA EnqueuedLimits ==
    ASSUME BundlersType, NEW k \in Kinds, NEW items \in Seq(Item), Enqueued(k, items),
           Len(items) <= BundleCountThreshold, \A j \in Kinds : BundleLimits(j)
    PROVE  \A j \in Kinds : BundleLimits(j)'
<1>1. /\ BundlersType' /\ current'[k] = << >>
      /\ \A j \in Kinds \ {k} : current'[j] = current[j] /\ bundles'[j] = bundles[j]
  BY EnqueuedType
<1>2. bundles'[k] = IF items = << >> THEN bundles[k] ELSE Append(bundles[k], Bundle(items))
  BY DEF Enqueued, BundlersType
<1>3. BundleLimits(k)'
  <2>1. Len(current'[k]) = 0 /\ BundleCountThreshold \in Nat \ {0}
    BY <1>1, EmptySeq, EndpointAssumption
  <2>2. CASE items = << >>
    BY <1>2, <2>1, <2>2 DEF BundleLimits
  <2>3. CASE items # << >>
    <3>1. Bundle(items) \in Bundles /\ Bundle(items).items = items /\ bundles[k] \in Seq(Bundles)
      BY DEF Bundle, Bundles, BundlersType
    <3>2. /\ DOMAIN bundles'[k] = 1 .. Len(bundles[k]) + 1 /\ Len(bundles[k]) \in Nat
          /\ DOMAIN bundles[k] = 1 .. Len(bundles[k])
          /\ \A i \in 1 .. Len(bundles[k]) : bundles'[k][i] = bundles[k][i]
          /\ bundles'[k][Len(bundles[k]) + 1] = Bundle(items)
      BY <1>2, <2>3, <3>1, AppendProperties, LenProperties
    <3>3. Len(items) \in 1 .. BundleCountThreshold
      BY <2>1, <2>3, EmptySeq
    <3>4. ASSUME NEW i \in DOMAIN bundles'[k]
          PROVE  Len(bundles'[k][i].items) \in 1 .. BundleCountThreshold
      <4>1. CASE i = Len(bundles[k]) + 1
        BY <3>1, <3>2, <3>3, <4>1
      <4>2. CASE i # Len(bundles[k]) + 1
        <5>1. i \in DOMAIN bundles[k]
          BY <3>2, <4>2
        <5>. QED
          BY <3>2, <5>1 DEF BundleLimits
      <4>. QED
        BY <4>1, <4>2
    <3>. QED
      BY <2>1, <3>4 DEF BundleLimits
  <2>. QED
    BY <2>2, <2>3
<1>4. \A j \in Kinds \ {k} : BundleLimits(j)'
  BY <1>1 DEF BundleLimits
<1>. QED
  BY <1>3, <1>4

LEMMA AddLimits ==
    ASSUME BundlersType, NEW item \in Item, BundlerAdd(item), \A j \in Kinds : BundleLimits(j)
    PROVE  \A j \in Kinds : BundleLimits(j)'
<1> DEFINE k == item.kind
           items == Append(current[k], item)
<1>1. k \in Kinds /\ current[k] \in Seq(Item) /\ BundleCountThreshold \in Nat
  BY KindOfItem, EndpointAssumption DEF BundlersType
<1>2. items \in Seq(Item) /\ Len(items) = Len(current[k]) + 1 /\ Len(current[k]) \in Nat
  BY <1>1
<1>3. Len(items) <= BundleCountThreshold
  <2>1. Len(current[k]) < BundleCountThreshold
    BY <1>1 DEF BundleLimits
  <2>. HIDE DEF k, items
  <2>. QED
    BY <1>1, <1>2, <2>1
<1>4. CASE Len(items) >= BundleCountThreshold
  <2>1. Enqueued(k, items)
    BY <1>4 DEF BundlerAdd
  <2>. HIDE DEF k, items
  <2>. QED
    BY <1>1, <1>2, <1>3, <2>1, EnqueuedLimits
<1>5. CASE ~(Len(items) >= BundleCountThreshold)
  <2>1. current' = [current EXCEPT ![k] = items] /\ bundles' = bundles
    BY <1>5 DEF BundlerAdd
  <2>. HIDE DEF k, items
  <2>2. Len(items) < BundleCountThreshold
    BY <1>1, <1>2, <1>5
  <2>. QED
    BY <1>1, <2>1, <2>2 DEF BundleLimits, BundlersType
<1>. QED
  BY <1>4, <1>5

LEMMA EndSendLimits ==
    ASSUME BundlersType, NEW k \in Kinds, NEW i \in 1 .. BufferedByteLimit, EndSend(k, i),
           \A j \in Kinds : BundleLimits(j)
    PROVE  \A j \in Kinds : BundleLimits(j)'
<1>1. /\ BundlersType' /\ i \in 1 .. Len(bundles[k]) /\ Len(bundles'[k]) = Len(bundles[k]) - 1
      /\ \A j \in Kinds \ {k} : bundles'[j] = bundles[j]
      /\ current' = current /\ bundles'[k] = RemoveAt(bundles[k], i)
      /\ bundles[k] \in Seq(Bundles)
  BY EndSendType DEF EndSend, BundlersType
<1>2. Len(bundles[k]) \in Nat /\ DOMAIN bundles[k] = 1 .. Len(bundles[k])
      /\ DOMAIN bundles'[k] = 1 .. Len(bundles[k]) - 1
  BY <1>1, LenProperties DEF BundlersType
<1>3. ASSUME NEW j \in DOMAIN bundles'[k]
      PROVE  Len(bundles'[k][j].items) \in 1 .. BundleCountThreshold
  <2>1. bundles'[k][j] = IF j < i THEN bundles[k][j] ELSE bundles[k][j + 1]
    BY <1>1, <1>2, RemovalElements
  <2>2. j \in DOMAIN bundles[k] /\ j + 1 \in DOMAIN bundles[k]
    BY <1>2
  <2>. QED
    BY <2>1, <2>2 DEF BundleLimits
<1>. QED
  BY <1>1, <1>3 DEF BundleLimits

LEMMA LimitsStep ==
    ASSUME TypeOK, WithinLimits, [Next]_vars
    PROVE  WithinLimits'
<1>1. /\ BundlersType /\ BufferedByteLimit \in Nat
      /\ \A k \in Kinds : Buffered(k) \in Nat
  BY BufferedType, EndpointAssumption DEF TypeOK, BundlersType
<1>2. \A k \in Kinds : BundleLimits(k) /\ Buffered(k) <= BufferedByteLimit
  BY DEF WithinLimits, BundleLimits
<1>3. (\A k \in Kinds : BundleLimits(k)' /\ Buffered(k)' <= BufferedByteLimit) => WithinLimits'
  BY DEF WithinLimits, BundleLimits
<1>4. ASSUME NEW k \in Kinds, Enqueued(k, current[k]) PROVE WithinLimits'
  <2>1. current[k] \in Seq(Item) /\ Len(current[k]) <= BundleCountThreshold
    <3>1. current[k] \in Seq(Item) /\ Len(current[k]) < BundleCountThreshold
      BY <1>1, <1>2 DEF BundlersType, BundleLimits
    <3>2. Len(current[k]) \in Nat /\ BundleCountThreshold \in Nat
      BY <3>1, EndpointAssumption
    <3>. QED
      BY <3>1, <3>2
  <2>2. \A j \in Kinds : BundleLimits(j)'
    BY <1>1, <1>2, <1>4, <2>1, EnqueuedLimits
  <2>3. \A j \in Kinds : Buffered(j)' = Buffered(j)
    BY <1>1, <1>4, DelayBuffer
  <2>. QED
    BY <1>2, <1>3, <2>2, <2>3
<1>5. CASE Flush \/ FlushNext
  <2>1. PICK n \in DOMAIN FlushOrder : FlushBundler(n)
    <3>1. /\ DOMAIN FlushOrder = 1 .. Len(FlushOrder) /\ Len(FlushOrder) \in Nat
          /\ 1 \in DOMAIN FlushOrder
      BY EndpointAssumption DEF Kinds, Range
    <3>. QED
      BY <1>5, <3>1 DEF Flush, FlushNext
  <2>2. FlushOrder[n] \in Kinds
    BY DEF Kinds, Range
  <2>. QED
    BY <1>4, <2>1, <2>2 DEF FlushBundler
<1>6. CASE \E k \in Kinds : DelayPasses(k)
  BY <1>4, <1>6 DEF DelayPasses
<1>7. CASE \E k \in Kinds : BeginSend(k)
  <2>1. PICK k \in Kinds : BeginSend(k)
    BY <1>7
  <2>2. /\ \A j \in Kinds : Buffered(j)' = Buffered(j)
        /\ \A j \in Kinds : /\ DOMAIN bundles'[j] = DOMAIN bundles[j]
                            /\ \A i \in DOMAIN bundles[j] :
                                   bundles'[j][i].items = bundles[j][i].items
    BY <1>1, <2>1, BeginSendBuffer
  <2>3. \A j \in Kinds : BundleLimits(j)'
    BY <1>2, <2>1, <2>2 DEF BundleLimits, BeginSend
  <2>. QED
    BY <1>2, <1>3, <2>2, <2>3
<1>8. CASE \E k \in Kinds : EndSends(k)
  <2>1. PICK k \in Kinds, i \in 1 .. BufferedByteLimit : EndSend(k, i)
    BY <1>8 DEF EndSends
  <2>2. /\ Buffered(k)' = Buffered(k) - Len(bundles[k][i].items)
        /\ \A j \in Kinds \ {k} : Buffered(j)' = Buffered(j)
    BY <1>1, <2>1, EndSendBuffer
  <2>3. \A j \in Kinds : BundleLimits(j)'
    BY <1>1, <1>2, <2>1, EndSendLimits
  <2>4. Len(bundles[k][i].items) \in Nat
    BY <1>1, <2>1, ElementOfSeq DEF EndSend, Sending, BundlersType, Bundles
  <2>5. \A j \in Kinds : Buffered(j)' <= BufferedByteLimit
    <3>1. Buffered(k)' <= BufferedByteLimit
      BY <1>1, <1>2, <2>2, <2>4
    <3>. QED
      BY <1>2, <2>2, <3>1
  <2>. QED
    BY <1>3, <2>3, <2>5
<1>9. CASE \E c \in Callers : Add(c)
  <2>1. PICK c \in Callers : Add(c)
    BY <1>9
  <2> DEFINE item == Head(call[c].todo)
  <2>2. item \in Item
    BY <2>1, CallType DEF Add, AtAdd, TypeOK
  <2>3. BundlerAdd(item) /\ Buffered(item.kind) < BufferedByteLimit
    BY <2>1 DEF Add
  <2>. HIDE DEF item
  <2>4. \A j \in Kinds : BundleLimits(j)'
    BY <1>1, <1>2, <2>2, <2>3, AddLimits
  <2>5. \A j \in Kinds : Buffered(j)' = Buffered(j) + (IF j = item.kind THEN 1 ELSE 0)
    BY <1>1, <2>2, <2>3, BundlerAddBuffer
  <2>6. ASSUME NEW j \in Kinds PROVE Buffered(j)' <= BufferedByteLimit
    <3>1. CASE j = item.kind
      BY <1>1, <2>3, <2>5, <3>1
    <3>2. CASE j # item.kind
      BY <1>1, <1>2, <2>5, <3>2
    <3>. QED
      BY <3>1, <3>2
  <2>. QED
    BY <1>3, <2>4, <2>6
<1>10. CASE UNCHANGED bundlers
  <2>1. current' = current /\ bundles' = bundles
    BY <1>10 DEF bundlers
  <2>2. \A j \in Kinds : Buffered(j)' = Buffered(j)
    BY <2>1, BufferedSame
  <2>. QED
    BY <1>2, <1>3, <2>1, <2>2 DEF BundleLimits
<1>11. \/ \E c \in Callers : \/ \E request \in Requests : Put(c, request)
                             \/ HoldBack(c) \/ LetThrough(c) \/ AddRefused(c) \/ EndPut(c)
       \/ FlushReturn \/ Clock \/ AgeAll \/ UNCHANGED vars
       => UNCHANGED bundlers
  BY DEF Put, HoldBack, LetThrough, AddRefused, EndPut, FlushReturn, Clock, AgeAll, vars,
              bundlers
<1>. QED
  BY <1>5, <1>6, <1>7, <1>8, <1>9, <1>10, <1>11 DEF Next, PutSteps, BundlerSteps

LEMMA InitBuffer == Init => \A k \in Kinds : Buffered(k) = 0
<1>. SUFFICES ASSUME Init, NEW k \in Kinds PROVE Buffered(k) = 0
  OBVIOUS
<1>1. BundlersType /\ current[k] = << >> /\ bundles[k] = << >>
  BY InitType DEF Init, TypeOK, BundlersType
<1>2. Buffered(k) = Len(current[k]) + Total(Sizes(bundles[k]))
  BY <1>1, BufferedType
<1>3. Total(Sizes(bundles[k])) = 0
  <2>1. DOMAIN Sizes(bundles[k]) = {}
    BY <1>1 DEF Sizes
  <2>. QED
    BY <2>1, TotalOfNone
<1>. QED
  BY <1>1, <1>2, <1>3, EmptySeq

(* Whatever the goroutines that call Put and the bundles that are sent meanwhile, no bundler    *)
(* keeps more items than its limit, no bundle has more than its threshold, none is empty.       *)
THEOREM EndpointWithinLimits == Spec => []WithinLimits
<1>1. Init => WithinLimits
  <2>. SUFFICES ASSUME Init, NEW k \in Kinds
                PROVE  /\ Buffered(k) <= BufferedByteLimit
                       /\ Len(current[k]) < BundleCountThreshold
                       /\ \A i \in DOMAIN bundles[k] :
                              Len(bundles[k][i].items) \in 1 .. BundleCountThreshold
    BY DEF WithinLimits
  <2>1. Buffered(k) = 0 /\ BufferedByteLimit \in Nat /\ BundleCountThreshold \in Nat \ {0}
    BY InitBuffer, EndpointAssumption
  <2>2. current[k] = << >> /\ bundles[k] = << >>
    BY DEF Init
  <2>. QED
    BY <2>1, <2>2, EmptySeq
<1>. QED
  BY <1>1, InitType, TypeStep, LimitsStep, PTL DEF Spec

-----------------------------------------------------------------------------
(* Accounts. *)

LEMMA CountOfRest ==
    ASSUME NEW items \in Seq(Item), items # << >>, NEW k
    PROVE  Count(items, k) = Count(Tail(items), k) + (IF Head(items).kind = k THEN 1 ELSE 0)
<1> DEFINE S == {j \in DOMAIN items : items[j].kind = k}
           T == {j \in DOMAIN Tail(items) : Tail(items)[j].kind = k}
           U == S \ {1}
           f == [j \in T |-> j + 1]
<1>1. /\ Len(items) \in Nat \ {0} /\ DOMAIN items = 1 .. Len(items) /\ Head(items) = items[1]
      /\ Tail(items) \in Seq(Item) /\ DOMAIN Tail(items) = 1 .. Len(items) - 1
      /\ \A j \in 1 .. Len(items) - 1 : Tail(items)[j] = items[j + 1]
  BY EmptySeq, HeadTailProperties
<1>2. T \in SUBSET (1 .. Len(items) - 1) /\ IsFiniteSet(1 .. Len(items) - 1)
  BY <1>1, FS_Interval
<1>3. S \in SUBSET (1 .. Len(items)) /\ IsFiniteSet(1 .. Len(items))
  BY <1>1, FS_Interval
<1>4. f \in [T -> U] /\ (\A x, y \in T : f[x] = f[y] => x = y)
  BY <1>1
<1>5. ASSUME NEW z \in U PROVE \E x \in T : f[x] = z
  <2>1. z - 1 \in T /\ f[z - 1] = z
    BY <1>1
  <2>. QED
    BY <2>1
<1>6. 1 \in S <=> Head(items).kind = k
  BY <1>1
<1>. HIDE DEF f, S, T
<1>7. IsFiniteSet(T) /\ IsFiniteSet(S)
  BY <1>2, <1>3, FS_Subset
<1>8. f \in Bijection(T, U)
  <2>. HIDE DEF U
  <2>. QED
    BY <1>4, <1>5 DEF Bijection, Injection, IsInjective, Surjection
<1>9. Cardinality(U) = Cardinality(T)
  <2>. HIDE DEF U
  <2>. QED
    BY <1>7, <1>8, FS_Bijection DEF ExistsBijection
<1>10. Cardinality(U) = IF 1 \in S THEN Cardinality(S) - 1 ELSE Cardinality(S)
  BY <1>7, FS_RemoveElement
<1>11. Cardinality(S) \in Nat /\ Cardinality(T) \in Nat
  BY <1>7, FS_CardinalityType
<1>12. Count(items, k) = Cardinality(S) /\ Count(Tail(items), k) = Cardinality(T)
  BY DEF Count, S, T
<1>. QED
  BY <1>6, <1>9, <1>10, <1>11, <1>12

LEMMA CountOfNone == ASSUME NEW k PROVE Count(<< >>, k) = 0
<1>1. {j \in DOMAIN << >> : << >>[j].kind = k} = {}
  OBVIOUS
<1>. QED
  BY <1>1, FS_EmptySet DEF Count

AccountedAt(k) ==
    /\ \A c \in Callers : Unrecorded(c, k) \in Nat
    /\ owed[k] + Total([c \in Callers |-> Unrecorded(c, k)]) = Buffered(k)

(* One goroutine goes on: what its call has put and not recorded, what is owed and what the     *)
(* bundler keeps change together.                                                               *)
LEMMA AccountStep ==
    ASSUME TypeOK, TypeOK', NEW k \in Kinds, AccountedAt(k), NEW c \in Callers,
           \A b \in Callers \ {c} : call'[b] = call[b],
           Unrecorded(c, k)' \in Nat,
           owed'[k] - owed[k] + Unrecorded(c, k)' - Unrecorded(c, k) = Buffered(k)' - Buffered(k)
    PROVE  AccountedAt(k)'
<1> DEFINE h == [b \in Callers |-> Unrecorded(b, k)]
           g == [b \in Callers |-> Unrecorded(b, k)']
<1>1. \A b \in Callers \ {c} : Unrecorded(b, k)' = Unrecorded(b, k)
  BY DEF Unrecorded
<1>2. \A b \in Callers : Unrecorded(b, k)' \in Nat
  BY <1>1 DEF AccountedAt
<1>3. /\ h \in [Callers -> Nat] /\ g \in [Callers -> Nat] /\ IsFiniteSet(Callers)
      /\ \A b \in Callers \ {c} : g[b] = h[b]
      /\ g[c] = Unrecorded(c, k)' /\ h[c] = Unrecorded(c, k)
  BY <1>1, <1>2, EndpointAssumption DEF AccountedAt
<1>4. owed[k] + Total(h) = Buffered(k)
  BY DEF AccountedAt
<1>5. AccountedAt(k)' <=> owed'[k] + Total(g) = Buffered(k)'
  BY <1>2 DEF AccountedAt
<1>. HIDE DEF h, g
<1>6. Total(g) = Total(h) + g[c] - h[c] /\ Total(h) \in Nat
  BY <1>3, TotalExcept, PairsFinite
<1>7. owed[k] \in Int /\ owed'[k] \in Int
  BY DEF TypeOK
<1>8. Buffered(k) \in Nat /\ Buffered(k)' \in Int
  <2>1. BundlersType
    BY DEF TypeOK, BundlersType
  <2>2. Buffered(k)' = Len(current'[k]) + Total(Sizes(bundles'[k]))
    BY DEF Buffered, Sizes
  <2>3. Len(current'[k]) \in Nat /\ Total(Sizes(bundles'[k])) \in Nat
    BY SizesType DEF TypeOK
  <2>. QED
    BY <2>1, <2>2, <2>3, BufferedType
<1>9. Unrecorded(c, k) \in Nat
  BY DEF AccountedAt
<1>. QED
  BY <1>3, <1>4, <1>5, <1>6, <1>7, <1>8, <1>9

(* No goroutine goes on. *)
LEMMA AccountKept ==
    ASSUME NEW k \in Kinds, AccountedAt(k), call' = call, owed[k] \in Int, Buffered(k) \in Int,
           owed'[k] - owed[k] = Buffered(k)' - Buffered(k),
           owed'[k] \in Int, Buffered(k)' \in Int
    PROVE  AccountedAt(k)'
<1> DEFINE h == [b \in Callers |-> Unrecorded(b, k)]
<1>1. \A b \in Callers : Unrecorded(b, k)' = Unrecorded(b, k)
  BY DEF Unrecorded
<1>2. [b \in Callers |-> Unrecorded(b, k)'] = h
  BY <1>1
<1>3. owed[k] + Total(h) = Buffered(k)
  BY DEF AccountedAt
<1>4. Total(h) \in Nat
  <2>1. h \in [Callers -> Nat] /\ IsFiniteSet(Callers)
    BY EndpointAssumption DEF AccountedAt
  <2>. HIDE DEF h
  <2>. QED
    BY <2>1, PairsFinite
<1>5. AccountedAt(k)' <=> owed'[k] + Total(h) = Buffered(k)'
  <2>1. AccountedAt(k)' <=> /\ \A b \in Callers : Unrecorded(b, k)' \in Nat
                            /\ owed'[k] + Total([b \in Callers |-> Unrecorded(b, k)']) = Buffered(k)'
    BY DEF AccountedAt
  <2>. QED
    BY <1>1, <1>2, <2>1 DEF AccountedAt
<1>. HIDE DEF h
<1>. QED
  BY <1>3, <1>4, <1>5

LEMMA PutAccount ==
    ASSUME TypeOK, TypeOK', NEW k \in Kinds, AccountedAt(k), NEW c \in Callers,
           \/ \E request \in Requests : Put(c, request)
           \/ PutSteps(c)
    PROVE  AccountedAt(k)'
<1>1. /\ BundlersType /\ owed[k] \in Int /\ Buffered(k) \in Nat
      /\ call \in [Callers -> {NoCall} \cup Calls]
      /\ Unrecorded(c, k) \in Nat
  BY BufferedType DEF TypeOK, BundlersType, AccountedAt
<1>2. \A b \in Callers \ {c} : call'[b] = call[b]
  <2>1. \A request \in Requests : Put(c, request) => \A b \in Callers \ {c} : call'[b] = call[b]
    BY <1>1 DEF Put
  <2>2. HoldBack(c) \/ LetThrough(c) => \A b \in Callers \ {c} : call'[b] = call[b]
    BY <1>1 DEF HoldBack, LetThrough
  <2>3. Add(c) \/ AddRefused(c) \/ EndPut(c) => \A b \in Callers \ {c} : call'[b] = call[b]
    BY <1>1 DEF Add, AddRefused, EndPut
  <2>. QED
    BY <2>1, <2>2, <2>3 DEF PutSteps
<1>3. SUFFICES /\ Unrecorded(c, k)' \in Nat
               /\ owed'[k] - owed[k] + Unrecorded(c, k)' - Unrecorded(c, k)
                      = Buffered(k)' - Buffered(k)
  BY <1>2, AccountStep
<1>4. ASSUME current' = current, bundles' = bundles, owed' = owed,
             Unrecorded(c, k)' = Unrecorded(c, k)
      PROVE  /\ Unrecorded(c, k)' \in Nat
             /\ owed'[k] - owed[k] + Unrecorded(c, k)' - Unrecorded(c, k)
                    = Buffered(k)' - Buffered(k)
  <2>1. Buffered(k)' = Buffered(k)
    BY <1>4, BufferedSame
  <2>. QED
    BY <1>1, <1>4, <2>1
<1>5. ASSUME NEW request \in Requests, Put(c, request)
      PROVE  Unrecorded(c, k)' = Unrecorded(c, k)
  <2>1. request \in Seq(Item)
    BY EndpointAssumption
  <2>2. Count(request, k) \in Nat
    BY <2>1, CountType
  <2>3. call'[c] = [pc |-> "next", todo |-> request,
                    received |-> [j \in Kinds |-> Count(request, j)],
                    failed |-> [j \in Kinds |-> 0]]
    BY <1>1, <1>5 DEF Put
  <2>4. Unrecorded(c, k)' = Count(request, k) - 0 - Count(request, k)
    BY <2>3 DEF Unrecorded
  <2>5. Unrecorded(c, k) = 0
    BY <1>5 DEF Put, Unrecorded
  <2>. QED
    BY <2>2, <2>4, <2>5
<1>6. CASE \E request \in Requests : Put(c, request)
  BY <1>4, <1>5, <1>6 DEF Put, bundlers
<1>7. ASSUME PutSteps(c)
      PROVE  /\ call[c].pc # "idle" /\ call[c] \in Calls
             /\ Unrecorded(c, k) = call[c].received[k] - call[c].failed[k] - Count(call[c].todo, k)
             /\ call[c].received[k] \in Int /\ call[c].failed[k] \in Nat
             /\ call[c].todo \in Seq(Item) /\ Count(call[c].todo, k) \in Nat
  <2>1. call[c].pc # "idle"
    BY <1>7 DEF PutSteps, HoldBack, LetThrough, Add, AddRefused, EndPut, AtModel, AtAdd
  <2>2. call[c] \in Calls
    BY <2>1, CallType
  <2>3. call[c].todo \in Seq(Item)
    BY <2>2 DEF Calls
  <2>4. call[c].received[k] \in Int /\ call[c].failed[k] \in Nat
    BY <2>2 DEF Calls
  <2>. QED
    BY <2>1, <2>2, <2>3, <2>4, CountType DEF Unrecorded
<1>8. ASSUME PutSteps(c), call[c].todo # << >>
      PROVE  /\ Count(call[c].todo, k) = Count(Tail(call[c].todo), k)
                                           + (IF Head(call[c].todo).kind = k THEN 1 ELSE 0)
             /\ Count(Tail(call[c].todo), k) \in Nat
             /\ Head(call[c].todo) \in Item
  BY <1>7, <1>8, CountOfRest, CountType, HeadTailProperties
<1>9. CASE HoldBack(c)
  <2>1. PutSteps(c) /\ call[c].todo # << >> /\ Head(call[c].todo) \in Model
    BY <1>9 DEF PutSteps, HoldBack, AtModel
  <2>2. Head(call[c].todo).kind = "models"
    BY <2>1 DEF Model
  <2>3. /\ call'[c].pc = call[c].pc /\ call'[c].todo = Tail(call[c].todo)
        /\ call'[c].failed = call[c].failed
        /\ call'[c].received = [call[c].received EXCEPT !["models"] = @ - 1]
    BY <1>1, <1>7, <1>9, <2>1 DEF HoldBack, Calls
  <2>4. call'[c].received[k] = call[c].received[k] - (IF "models" = k THEN 1 ELSE 0)
    BY <1>7, <2>1, <2>3 DEF Calls
  <2>5. Unrecorded(c, k)' = call'[c].received[k] - call[c].failed[k] - Count(Tail(call[c].todo), k)
    BY <1>7, <2>1, <2>3 DEF Unrecorded
  <2>6. Unrecorded(c, k)' = Unrecorded(c, k)
    BY <1>7, <1>8, <2>1, <2>2, <2>4, <2>5
  <2>. QED
    BY <1>4, <1>9, <2>6 DEF HoldBack, bundlers
<1>10. CASE LetThrough(c)
  <2>1. PutSteps(c)
    BY <1>10 DEF PutSteps
  <2>2. /\ call'[c].pc = "add" /\ call'[c].todo = call[c].todo
        /\ call'[c].failed = call[c].failed /\ call'[c].received = call[c].received
    BY <1>1, <1>7, <1>10, <2>1 DEF LetThrough, Calls
  <2>3. Unrecorded(c, k)' = Unrecorded(c, k)
    BY <1>7, <2>1, <2>2 DEF Unrecorded
  <2>. QED
    BY <1>4, <1>10, <2>3 DEF LetThrough, bundlers
<1>11. CASE Add(c)
  <2> DEFINE item == Head(call[c].todo)
  <2>1. PutSteps(c) /\ call[c].todo # << >>
    BY <1>11 DEF PutSteps, Add, AtAdd, TypeOK
  <2>2. /\ call'[c].pc = "next" /\ call'[c].todo = Tail(call[c].todo)
        /\ call'[c].failed = call[c].failed /\ call'[c].received = call[c].received
    BY <1>1, <1>7, <1>11, <2>1 DEF Add, Calls
  <2>3. Unrecorded(c, k)' = call[c].received[k] - call[c].failed[k] - Count(Tail(call[c].todo), k)
    BY <2>2 DEF Unrecorded
  <2>4. item \in Item /\ BundlerAdd(item) /\ owed' = owed
    BY <1>8, <1>11, <2>1 DEF Add
  <2>. HIDE DEF item
  <2>5. Buffered(k)' = Buffered(k) + (IF k = item.kind THEN 1 ELSE 0)
    BY <1>1, <2>4, BundlerAddBuffer
  <2>6. Unrecorded(c, k)' = Unrecorded(c, k) + (IF k = item.kind THEN 1 ELSE 0)
    BY <1>7, <1>8, <2>1, <2>3 DEF item
  <2>. QED
    BY <1>1, <2>4, <2>5, <2>6
<1>12. CASE AddRefused(c)
  <2> DEFINE item == Head(call[c].todo)
  <2>1. PutSteps(c) /\ call[c].todo # << >>
    BY <1>12 DEF PutSteps, AddRefused, AtAdd, TypeOK
  <2>2. /\ call'[c].pc = "next" /\ call'[c].todo = Tail(call[c].todo)
        /\ call'[c].received = call[c].received
        /\ call'[c].failed = [call[c].failed EXCEPT ![item.kind] = @ + 1]
    BY <1>1, <1>7, <1>12, <2>1 DEF AddRefused, Calls
  <2>3. call'[c].failed[k] = call[c].failed[k] + (IF item.kind = k THEN 1 ELSE 0)
    BY <1>7, <2>1, <2>2 DEF Calls
  <2>4. Unrecorded(c, k)' = call[c].received[k] - call'[c].failed[k] - Count(Tail(call[c].todo), k)
    BY <2>2 DEF Unrecorded
  <2>5. Unrecorded(c, k)' = Unrecorded(c, k)
    BY <1>7, <1>8, <2>1, <2>3, <2>4
  <2>. QED
    BY <1>4, <1>12, <2>5 DEF AddRefused, bundlers
<1>13. CASE EndPut(c)
  <2>1. PutSteps(c) /\ call[c].todo = << >>
    BY <1>13 DEF PutSteps, EndPut
  <2>2. Count(call[c].todo, k) = 0
    BY <2>1, CountOfNone
  <2>3. owed'[k] = owed[k] + call[c].received[k] - call[c].failed[k]
    BY <1>13 DEF EndPut
  <2>4. Unrecorded(c, k)' = 0
    BY <1>1, <1>13 DEF EndPut, Unrecorded, NoCall
  <2>5. Buffered(k)' = Buffered(k)
    BY <1>13, BufferedSame DEF EndPut, bundlers
  <2>. QED
    BY <1>1, <1>7, <2>1, <2>2, <2>3, <2>4, <2>5
<1>. QED
  BY <1>6, <1>9, <1>10, <1>11, <1>12, <1>13 DEF PutSteps

LEMMA SendAccount ==
    ASSUME TypeOK, TypeOK', NEW k \in Kinds, AccountedAt(k),
           NEW f \in Kinds, NEW i \in 1 .. BufferedByteLimit, EndSend(f, i)
    PROVE  AccountedAt(k)'
<1> DEFINE items == bundles[f][i].items
<1>1. BundlersType /\ i \in 1 .. Len(bundles[f]) /\ call' = call
  BY EndSendType DEF EndSend, TypeOK, BundlersType
<1>2. Len(items) \in Nat
  BY <1>1, ElementOfSeq DEF BundlersType, Bundles
<1>3. PICK error \in BOOLEAN, taken \in 0 .. Len(items) :
          owed' = [owed EXCEPT ![f] =
              @ - Failed(bundles[f][i], error, taken) - Succeeded(error, taken)]
  BY DEF EndSend
<1>4. /\ Failed(bundles[f][i], error, taken) \in Int /\ Succeeded(error, taken) \in Int
      /\ Failed(bundles[f][i], error, taken) + Succeeded(error, taken) = Len(items)
  BY <1>2 DEF Failed, Succeeded
<1>5. /\ Buffered(f)' = Buffered(f) - Len(items)
      /\ \A j \in Kinds \ {f} : Buffered(j)' = Buffered(j)
  BY <1>1, EndSendBuffer
<1>. HIDE DEF items
<1>6. owed[k] \in Int /\ Buffered(k) \in Nat /\ owed'[k] \in Int
  BY <1>1, BufferedType DEF TypeOK
<1>7. owed'[k] - owed[k] = Buffered(k)' - Buffered(k) /\ Buffered(k)' \in Int
  <2>1. CASE k = f
    <3>1. owed'[k] = owed[k] - Failed(bundles[f][i], error, taken) - Succeeded(error, taken)
      BY <1>3, <2>1 DEF TypeOK
    <3>. QED
      BY <1>2, <1>4, <1>5, <1>6, <2>1, <3>1
  <2>2. CASE k # f
    <3>1. owed'[k] = owed[k]
      BY <1>3, <2>2 DEF TypeOK
    <3>. QED
      BY <1>5, <1>6, <2>2, <3>1
  <2>. QED
    BY <2>1, <2>2
<1>. QED
  BY <1>1, <1>6, <1>7, AccountKept

LEMMA AccountedStep ==
    ASSUME TypeOK, Accounted, [Next]_vars
    PROVE  Accounted'
<1>1. TypeOK' /\ BundlersType
  BY TypeStep DEF TypeOK, BundlersType
<1>2. \A k \in Kinds : AccountedAt(k) /\ owed[k] \in Int /\ Buffered(k) \in Nat
  BY <1>1, BufferedType DEF Accounted, AccountedAt, TypeOK
<1>3. SUFFICES ASSUME NEW k \in Kinds PROVE AccountedAt(k)'
  BY DEF Accounted, AccountedAt
<1>4. ASSUME call' = call, owed' = owed, Buffered(k)' = Buffered(k) PROVE AccountedAt(k)'
  BY <1>2, <1>4, AccountKept
<1>5. CASE \E c \in Callers : (\E request \in Requests : Put(c, request)) \/ PutSteps(c)
  BY <1>1, <1>2, <1>5, PutAccount
<1>6. CASE \E f \in Kinds : EndSends(f)
  BY <1>1, <1>2, <1>6, SendAccount DEF EndSends
<1>7. CASE \E f \in Kinds : DelayPasses(f) \/ BeginSend(f)
  BY <1>1, <1>4, <1>7, DelayBuffer, BeginSendBuffer DEF DelayPasses, BeginSend
<1>8. CASE Flush \/ FlushNext
  <2>1. PICK n \in DOMAIN FlushOrder : FlushBundler(n)
    <3>1. /\ DOMAIN FlushOrder = 1 .. Len(FlushOrder) /\ Len(FlushOrder) \in Nat
          /\ 1 \in DOMAIN FlushOrder
      BY EndpointAssumption DEF Kinds, Range
    <3>. QED
      BY <1>8, <3>1 DEF Flush, FlushNext
  <2>2. FlushOrder[n] \in Kinds
    BY DEF Kinds, Range
  <2>3. Buffered(k)' = Buffered(k)
    BY <1>1, <2>1, <2>2, DelayBuffer DEF FlushBundler
  <2>. QED
    BY <1>4, <1>8, <2>3 DEF Flush, FlushNext
<1>9. CASE FlushReturn \/ Clock \/ AgeAll \/ UNCHANGED vars
  <2>1. current' = current /\ bundles' = bundles /\ call' = call /\ owed' = owed
    BY <1>9 DEF FlushReturn, Clock, AgeAll, vars, bundlers
  <2>. QED
    BY <1>4, <2>1, BufferedSame
<1>. QED
  BY <1>5, <1>6, <1>7, <1>8, <1>9 DEF Next, BundlerSteps

(* Whatever is put, held back, refused, sent in part or not at all, and however calls and sends *)
(* are interleaved, the statistics and the bundlers agree on every item.                        *)
THEOREM EndpointAccounted == Spec => []Accounted
<1>1. Init => Accounted
  <2>. SUFFICES ASSUME Init, NEW k \in Kinds
                PROVE  /\ \A c \in Callers : Unrecorded(c, k) \in Nat
                       /\ owed[k] + Total([c \in Callers |-> Unrecorded(c, k)]) = Buffered(k)
    BY DEF Accounted
  <2>1. \A c \in Callers : Unrecorded(c, k) = 0
    BY DEF Init, NoCall, Unrecorded
  <2>2. Total([c \in Callers |-> Unrecorded(c, k)]) = 0
    BY <2>1, TotalOfNone
  <2>. QED
    BY <2>1, <2>2, InitBuffer DEF Init
<1>. QED
  BY <1>1, InitType, TypeStep, AccountedStep, PTL DEF Spec
=============================================================================
