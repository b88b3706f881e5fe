------------------------ MODULE DataReceiversProofs ------------------------
(***************************************************************************)
(* Proofs about DataReceivers, for every network, every set of rules and   *)
(* every request: the types of the variables; who is served; the fields    *)
(* that items keep; the counts of the answers; where the errors of         *)
(* endpoints go.                                                           *)
(*                                                                         *)
(* The type invariant says what the frame of each kind of node may have    *)
(* to do, and how a frame is linked to the one above it; the others say,   *)
(* on top of that, what the stack as a whole holds: the books of the       *)
(* counts, what has been taken, and an error on its way.                   *)
(***************************************************************************)
EXTENDS DataReceivers, TotalsProofs

-----------------------------------------------------------------------------
(* Sequences. *)

(* A function on 1 .. n is a sequence. *)
LEMMA FunctionSeq ==
    ASSUME NEW S, NEW n \in Nat, NEW f \in [1 .. n -> S]
    PROVE  f \in Seq(S) /\ Len(f) = n
OBVIOUS

(* A sequence that is not empty has a last element and a front. *)
LEMMA FrontLast ==
    ASSUME NEW S, NEW s \in Seq(S), s # << >>
    PROVE  /\ Len(s) \in Nat \ {0} /\ DOMAIN s = 1 .. Len(s)
           /\ Last(s) = s[Len(s)] /\ Last(s) \in S
           /\ Front(s) \in Seq(S) /\ Len(Front(s)) = Len(s) - 1
           /\ \A k \in 1 .. Len(s) - 1 : Front(s)[k] = s[k]
<1>1. Len(s) \in Nat \ {0} /\ DOMAIN s = 1 .. Len(s)
  BY EmptySeq, LenProperties
<1>2. Last(s) = s[Len(s)] /\ s[Len(s)] \in S
  BY <1>1, ElementOfSeq DEF Last
<1>3. \A k \in 1 .. Len(s) - 1 : s[k] \in S
  BY <1>1, ElementOfSeq
<1>4. /\ Front(s) \in Seq(S)
      /\ Len(Front(s)) = Len(s) - 1
      /\ \A k \in 1 .. Len(s) - 1 : Front(s)[k] = s[k]
  BY <1>1, <1>3 DEF Front
<1>. QED
  BY <1>1, <1>2, <1>4

(* Those elements of a sequence that are in a set are elements of it. *)
LEMMA ThoseType ==
    ASSUME NEW S, NEW s \in Seq(S), NEW C
    PROVE  Those(s, C) \in Seq(S)
<1> DEFINE seqs == [k \in DOMAIN s |-> IF s[k] \in C THEN <<s[k]>> ELSE << >>]
<1>1. DOMAIN s = 1 .. Len(s) /\ Len(s) \in Nat
  BY LenProperties
<1>2. seqs \in [1 .. Len(s) -> Seq(S)]
  <2>1. \A k \in DOMAIN s : s[k] \in S
    BY <1>1, ElementOfSeq
  <2>. QED
    BY <1>1, <2>1
<1>3. seqs \in Seq(Seq(S))
  <2>. HIDE DEF seqs
  <2>. QED
    BY <1>1, <1>2, FunctionSeq
<1>. QED
  BY <1>3, FlattenProperties DEF Those

-----------------------------------------------------------------------------
(* The heap. *)

OfKinds(h, kinds) == {i \in DOMAIN h : h[i].kind \in kinds}

(* Items stay what they are. *)
Grows(h, g) == DOMAIN h \subseteq DOMAIN g /\ \A i \in DOMAIN h : g[i].kind = h[i].kind

(* The fields of every item stay, and lists do not lose values. *)
Keeps(h, g) ==
    /\ Grows(h, g)
    /\ \A i \in DOMAIN h : \A f \in Fields : Content(g, i)[f] >= Content(h, i)[f]

(* The items of a heap, and what a receiver reads of them. *)
LEMMA HeapFacts ==
    ASSUME NEW h, IsHeap(h)
    PROVE  /\ Len(h) \in Nat /\ DOMAIN h = 1 .. Len(h) /\ \A i \in DOMAIN h : h[i] \in Item
           /\ \A i \in DOMAIN h : Content(h, i) \in [Fields -> Int]
<1>1. Len(h) \in Nat /\ DOMAIN h = 1 .. Len(h) /\ \A i \in DOMAIN h : h[i] \in Item
  BY LenProperties, ElementOfSeq DEF IsHeap
<1>2. ASSUME NEW i \in DOMAIN h, NEW f \in Fields
      PROVE  (IF IsList(h, i, f) THEN h[h[i].ref[f]].size[f] ELSE h[i].ref[f]) \in Int
  <2>1. h[i].ref[f] \in Int
    BY <1>1 DEF Item
  <2>2. CASE IsList(h, i, f)
    <3>1. h[i].ref[f] \in DOMAIN h
      BY <1>1, <2>2 DEF IsHeap, IsList
    <3>2. h[h[i].ref[f]] \in Item
      BY <1>1, <3>1
    <3>. QED
      BY <2>2, <3>2 DEF Item
  <2>. QED
    BY <2>1, <2>2
<1>. QED
  BY <1>1, <1>2 DEF Content

(* A heap keeps what it has. *)
LEMMA KeepsItself ==
    ASSUME NEW h, IsHeap(h)
    PROVE  Keeps(h, h)
BY HeapFacts DEF Keeps, Grows

(* New items, with no lists or with lists of earlier items, are added at the end. *)
LEMMA HeapExtended ==
    ASSUME NEW h, IsHeap(h), NEW t \in Seq(Item),
           \A k \in DOMAIN t : \A f \in Fields :
              \/ t[k].ref[f] \in {Absent, Scalar}
              \/ t[k].ref[f] \in 1 .. Len(h) /\ h[t[k].ref[f]].ref[f] = t[k].ref[f]
    PROVE  IsHeap(h \o t) /\ Keeps(h, h \o t)
<1> DEFINE g == h \o t
<1>1. /\ Len(h) \in Nat /\ DOMAIN h = 1 .. Len(h) /\ h \in Seq(Item)
      /\ Len(t) \in Nat /\ DOMAIN t = 1 .. Len(t)
  BY HeapFacts, LenProperties DEF IsHeap
<1>2. /\ g \in Seq(Item) /\ Len(g) = Len(h) + Len(t) /\ DOMAIN g = 1 .. Len(h) + Len(t)
      /\ \A i \in 1 .. Len(h) : g[i] = h[i]
      /\ \A i \in DOMAIN g \ DOMAIN h : g[i] = t[i - Len(h)] /\ i - Len(h) \in DOMAIN t
  BY <1>1, ConcatProperties, LenProperties
<1>. HIDE DEF g
<1>3. IsHeap(g)
  <2>1. SUFFICES ASSUME NEW i \in DOMAIN g, NEW f \in Fields, g[i].ref[f] \notin {Absent, Scalar}
                 PROVE  g[i].ref[f] \in 1 .. i /\ g[g[i].ref[f]].ref[f] = g[i].ref[f]
    BY <1>2 DEF IsHeap
  <2>2. CASE i \in DOMAIN h
    <3>1. g[i] = h[i]
      BY <1>1, <1>2, <2>2
    <3>2. h[i].ref[f] \in 1 .. i /\ h[h[i].ref[f]].ref[f] = h[i].ref[f]
      BY <2>1, <2>2, <3>1 DEF IsHeap
    <3>3. h[i].ref[f] \in 1 .. Len(h)
      BY <1>1, <2>2, <3>2
    <3>. QED
      BY <1>2, <3>1, <3>2, <3>3
  <2>3. CASE i \notin DOMAIN h
    <3>1. g[i] = t[i - Len(h)] /\ i - Len(h) \in DOMAIN t
      BY <1>2, <2>3
    <3>2. g[i].ref[f] \in 1 .. Len(h) /\ h[g[i].ref[f]].ref[f] = g[i].ref[f]
      BY <2>1, <3>1
    <3>3. i \in Nat /\ i > Len(h)
      BY <1>1, <1>2, <2>3
    <3>. QED
      BY <1>1, <1>2, <3>2, <3>3
  <2>. QED
    BY <2>2, <2>3
<1>4. Keeps(h, g)
  <2>1. Grows(h, g)
    BY <1>1, <1>2 DEF Grows
  <2>2. ASSUME NEW i \in DOMAIN h, NEW f \in Fields PROVE Content(g, i)[f] >= Content(h, i)[f]
    <3>1. g[i] = h[i]
      BY <1>1, <1>2
    <3>2. ASSUME IsList(h, i, f) PROVE g[h[i].ref[f]] = h[h[i].ref[f]]
      <4>1. h[i].ref[f] \in 1 .. i
        BY <3>2 DEF IsHeap, IsList
      <4>. QED
        BY <1>1, <1>2, <4>1
    <3>3. Content(g, i)[f] = Content(h, i)[f]
      BY <3>1, <3>2 DEF Content, IsList
    <3>4. Content(h, i)[f] \in Int
      BY HeapFacts
    <3>. QED
      BY <3>3, <3>4
  <2>. QED
    BY <2>1, <2>2 DEF Keeps
<1>. QED
  BY <1>3, <1>4 DEF g

(* append-to-metadata-field on an item whose field is no scalar. *)
LEMMA AppendedKeeps ==
    ASSUME NEW h, IsHeap(h), NEW i \in DOMAIN h, NEW a, a.key \in Fields, h[i].ref[a.key] # Scalar
    PROVE  IsHeap(Appended(h, i, a)) /\ Keeps(h, Appended(h, i, a))
<1> DEFINE key == a.key
           g == Appended(h, i, a)
<1>1. /\ Len(h) \in Nat /\ DOMAIN h = 1 .. Len(h) /\ \A j \in DOMAIN h : h[j] \in Item
      /\ h \in Seq(Item) /\ i \in Nat
      /\ \A j \in DOMAIN h : \A f \in Fields : Content(h, j)[f] \in Int
  BY HeapFacts DEF IsHeap
<1>2. CASE IsList(h, i, key)
  <2> DEFINE r == h[i].ref[key]
  <2>1. r \in 1 .. i /\ h[r].ref[key] = r
    BY <1>2 DEF IsHeap, IsList
  <2>2. r \in DOMAIN h
    BY <1>1, <2>1
  <2>3. g = [h EXCEPT ![r] = [h[r] EXCEPT !.size = [h[r].size EXCEPT ![key] = @ + 1]]]
    BY <1>1, <1>2, <2>2 DEF Appended, Item
  <2> DEFINE e == [h[r] EXCEPT !.size = [h[r].size EXCEPT ![key] = @ + 1]]
  <2>. HIDE DEF r, g, key
  <2>4. /\ e \in Item /\ e.ref = h[r].ref /\ e.kind = h[r].kind
        /\ \A f \in Fields : e.size[f] \in Nat /\ h[r].size[f] \in Nat /\ e.size[f] >= h[r].size[f]
    <3>1. h[r] \in Item /\ key \in Fields
      BY <1>1, <2>2 DEF key
    <3>. QED
      BY <3>1 DEF Item
  <2>. HIDE DEF e
  <2>5. /\ g \in Seq(Item) /\ DOMAIN g = DOMAIN h
        /\ \A j \in DOMAIN h : g[j] = IF j = r THEN e ELSE h[j]
    <3>1. g = [h EXCEPT ![r] = e]
      BY <2>3 DEF e
    <3>. QED
      BY <1>1, <2>2, <2>4, <3>1, ExceptSeq, LenProperties
  <2>6. \A j \in DOMAIN h : /\ g[j].ref = h[j].ref /\ g[j].kind = h[j].kind
                            /\ \A f \in Fields : h[j].size[f] \in Nat /\ g[j].size[f] >= h[j].size[f]
    <3>1. \A j \in DOMAIN h : \A f \in Fields : h[j].size[f] \in Nat
      BY <1>1 DEF Item
    <3>. QED
      BY <2>4, <2>5, <3>1
  <2>7. IsHeap(g)
    <3>1. SUFFICES ASSUME NEW j \in DOMAIN h, NEW f \in Fields, g[j].ref[f] \notin {Absent, Scalar}
                   PROVE  g[j].ref[f] \in 1 .. j /\ g[g[j].ref[f]].ref[f] = g[j].ref[f]
      BY <2>5 DEF IsHeap
    <3>2. h[j].ref[f] \in 1 .. j /\ h[h[j].ref[f]].ref[f] = h[j].ref[f]
      BY <2>6, <3>1 DEF IsHeap
    <3>3. h[j].ref[f] \in DOMAIN h
      BY <1>1, <3>2
    <3>. QED
      BY <2>6, <3>2, <3>3
  <2>8. Keeps(h, g)
    <3>1. Grows(h, g)
      BY <2>5, <2>6 DEF Grows
    <3>2. ASSUME NEW j \in DOMAIN h, NEW f \in Fields PROVE Content(g, j)[f] >= Content(h, j)[f]
      <4>1. g[j].ref[f] = h[j].ref[f] /\ h[j].ref[f] \in Int
        BY <1>1, <2>6 DEF Item
      <4>2. CASE IsList(h, j, f)
        <5>1. h[j].ref[f] \in 1 .. j
          BY <4>2 DEF IsHeap, IsList
        <5>2. h[j].ref[f] \in DOMAIN h
          BY <1>1, <5>1
        <5>3. /\ Content(g, j)[f] = g[h[j].ref[f]].size[f]
              /\ Content(h, j)[f] = h[h[j].ref[f]].size[f]
          BY <4>1, <4>2 DEF Content, IsList
        <5>. QED
          BY <2>6, <5>2, <5>3
      <4>3. CASE ~IsList(h, j, f)
        <5>1. Content(g, j)[f] = h[j].ref[f] /\ Content(h, j)[f] = h[j].ref[f]
          BY <4>1, <4>3 DEF Content, IsList
        <5>. QED
          BY <4>1, <5>1
      <4>. QED
        BY <4>2, <4>3
    <3>. QED
      BY <3>1, <3>2 DEF Keeps
  <2>. QED
    BY <2>7, <2>8 DEF g
<1>3. CASE ~IsList(h, i, key)
  <2>1. h[i].ref[key] = Absent
    BY <1>3 DEF IsList
  <2> DEFINE e == [h[i] EXCEPT !.ref = [h[i].ref EXCEPT ![key] = i], !.size = [h[i].size EXCEPT ![key] = 1]]
  <2>2. g = [h EXCEPT ![i] = e]
    BY <1>1, <1>3 DEF Appended, Item
  <2>. HIDE DEF g, key
  <2>3. /\ e \in Item /\ e.kind = h[i].kind
        /\ e.ref[key] = i /\ e.size[key] = 1
        /\ \A f \in Fields \ {key} : e.ref[f] = h[i].ref[f] /\ e.size[f] = h[i].size[f]
    <3>1. h[i] \in Item /\ key \in Fields
      BY <1>1 DEF key
    <3> DEFINE ref == [h[i].ref EXCEPT ![key] = i]  size == [h[i].size EXCEPT ![key] = 1]
    <3>2. /\ ref \in [Fields -> Int] /\ ref[key] = i /\ \A f \in Fields \ {key} : ref[f] = h[i].ref[f]
          /\ size \in [Fields -> Nat] /\ size[key] = 1
          /\ \A f \in Fields \ {key} : size[f] = h[i].size[f]
      BY <1>1, <3>1 DEF Item
    <3>3. e = [h[i] EXCEPT !.ref = ref, !.size = size]
      OBVIOUS
    <3>. HIDE DEF ref, size, e
    <3>4. e \in Item /\ e.kind = h[i].kind /\ e.ref = ref /\ e.size = size
      BY <3>1, <3>2, <3>3 DEF Item
    <3>. QED
      BY <3>2, <3>4
  <2>. HIDE DEF e
  <2>4. /\ g \in Seq(Item) /\ DOMAIN g = DOMAIN h
        /\ \A j \in DOMAIN h : g[j] = IF j = i THEN e ELSE h[j]
    BY <1>1, <2>2, <2>3, ExceptSeq, LenProperties
  <2>5. \A j \in DOMAIN h : \A f \in Fields :
           \/ j = i /\ f = key /\ g[j].ref[f] = i /\ g[j].size[f] = 1
           \/ (j # i \/ f # key) /\ g[j].ref[f] = h[j].ref[f] /\ g[j].size[f] = h[j].size[f]
    BY <2>3, <2>4
  (* No list is at the place of the new one. *)
  <2>6. ASSUME NEW j \in DOMAIN h, NEW f \in Fields, h[j].ref[f] \notin {Absent, Scalar}
        PROVE  /\ h[j].ref[f] \in 1 .. j /\ h[j].ref[f] \in DOMAIN h
               /\ h[h[j].ref[f]].ref[f] = h[j].ref[f]
               /\ g[j].ref[f] = h[j].ref[f]
               /\ g[h[j].ref[f]].ref[f] = h[j].ref[f] /\ g[h[j].ref[f]].size[f] = h[h[j].ref[f]].size[f]
    <3>1. h[j].ref[f] \in 1 .. j /\ h[h[j].ref[f]].ref[f] = h[j].ref[f]
      BY <2>6 DEF IsHeap
    <3>2. h[j].ref[f] \in DOMAIN h
      BY <1>1, <3>1
    <3>3. ~(j = i /\ f = key)
      BY <2>1, <2>6
    <3>4. ~(h[j].ref[f] = i /\ f = key)
      BY <2>1, <2>6, <3>1
    <3>. QED
      BY <2>5, <3>1, <3>2, <3>3, <3>4
  <2>7. IsHeap(g)
    <3>1. SUFFICES ASSUME NEW j \in DOMAIN h, NEW f \in Fields, g[j].ref[f] \notin {Absent, Scalar}
                   PROVE  g[j].ref[f] \in 1 .. j /\ g[g[j].ref[f]].ref[f] = g[j].ref[f]
      BY <2>4 DEF IsHeap
    <3>2. CASE j = i /\ f = key
      <4>1. g[i].ref[key] = i /\ i \in 1 .. i
        BY <1>1, <2>5, <3>2
      <4>. QED
        BY <3>2, <4>1
    <3>3. CASE ~(j = i /\ f = key)
      <4>1. h[j].ref[f] = g[j].ref[f]
        BY <2>5, <3>3
      <4>. QED
        BY <2>6, <3>1, <4>1
    <3>. QED
      BY <3>2, <3>3
  <2>8. Keeps(h, g)
    <3>1. Grows(h, g)
      BY <2>3, <2>4 DEF Grows
    <3>2. ASSUME NEW j \in DOMAIN h, NEW f \in Fields PROVE Content(g, j)[f] >= Content(h, j)[f]
      <4>1. h[j].ref[f] \in Int
        BY <1>1 DEF Item
      <4>2. CASE j = i /\ f = key
        <5>1. Content(h, j)[f] = Absent
          BY <2>1, <4>2 DEF Content, IsList
        <5>2. Content(g, j)[f] = 1
          <6>1. IsList(g, i, key) /\ g[g[i].ref[key]].size[key] = 1
            BY <1>1, <2>5, <4>2 DEF IsList, Absent, Scalar
          <6>. QED
            BY <4>2, <6>1 DEF Content
        <5>. QED
          BY <5>1, <5>2 DEF Absent
      <4>3. CASE ~(j = i /\ f = key)
        <5>1. g[j].ref[f] = h[j].ref[f]
          BY <2>5, <4>3
        <5>2. ASSUME IsList(h, j, f) PROVE g[h[j].ref[f]].size[f] = h[h[j].ref[f]].size[f]
          BY <2>6, <5>2 DEF IsList
        <5>3. Content(g, j)[f] = Content(h, j)[f]
          BY <5>1, <5>2 DEF Content, IsList
        <5>. QED
          BY <1>1, <5>3
      <4>. QED
        BY <4>2, <4>3
    <3>. QED
      BY <3>1, <3>2 DEF Keeps
  <2>. QED
    BY <2>7, <2>8 DEF g
<1>. QED
  BY <1>2, <1>3

-----------------------------------------------------------------------------
(* What calls have to do.  The sets are those of constants: heap and stack are parameters, for *)
(* the lemmas to say the same of both states of a step.                                        *)

(* The groups receivers are given: only compact metrics may have been of another kind. *)
Sendable(h) ==
    {g \in [kind : ReceiverKinds, ids : Seq(DOMAIN h)] :
        g.kind # "compact" => \A j \in DOMAIN g.ids : h[g.ids[j]].kind = g.kind}

(* Calls with one group; a Zenoss destination's may have two. *)
Singles(h, tos) == {Call(to, <<g>>) : to \in tos, g \in Sendable(h)}
CallsTo(h, tos) == {Call(to, groups) : to \in tos, groups \in Seq(Sendable(h))}

Report(kind) == <<Group(kind, <<1>>)>>
ReportKind(h) == {kind \in {"health", "component"} : 1 \in DOMAIN h /\ h[1].kind = kind}

Tasks(h, n, i) ==
    IF Role[n] = "proxy" THEN Singles(h, {n})
    ELSE IF Role[n] = "splitter" THEN Singles(h, Range(Outputs[n]))
    ELSE IF Role[n] = "processor" /\ i = None
         THEN Singles(h, Range(Outputs[n])) \cup {Process(j) : j \in OfKinds(h, RuleKinds)}
    ELSE IF Role[n] = "processor"
         THEN Singles(h, Range(Outputs[n])) \cup {Rule(r) : r \in Rules} \cup {Action(a) : a \in Actions}
    ELSE IF Role[n] = "writer"
         THEN {Call(d, Report(kind)) : d \in Range(Outputs[n]), kind \in ReportKind(h)}
    ELSE IF Role[n] = "zenoss"
         THEN CallsTo(h, Range(Outputs[n])) \cup {Convert(ids) : ids \in Seq(OfKinds(h, {"metric"}))}
    ELSE {}

(* Whether a frame is for an item. *)
ItemOf(h, n, i) ==
    CASE Role[n] = "zenoss"    -> i \in DOMAIN h
      [] Role[n] = "processor" -> i = None \/ i \in OfKinds(h, RuleKinds)
      [] OTHER                 -> i = None

FrameOK(h, fr) ==
    /\ fr \in [node : Nodes, item : Nat, todo : Seq(Tasks(h, fr.node, fr.item)), failed : Nat,
               succeeded : Nat, held : Nat, error : BOOLEAN]
    /\ Role[fr.node] # "endpoint" /\ ItemOf(h, fr.node, fr.item)
    /\ fr.error => fr.todo = << >>

(* What a frame is doing while the one above it is. *)
Linked(below, above) ==
    /\ below.todo # << >>
    /\ \/ /\ Head(below.todo).do = "call"
          /\ \/ above.node = Head(below.todo).to
             \/ Role[below.node] = "proxy" /\ above.node \in Receivers
          /\ above.item = None \/ Role[above.node] = "zenoss"
       \/ /\ Head(below.todo).do \in {"process", "action"}
          /\ above.node = below.node /\ above.item # None

StackOK(h, n, st) ==
    /\ st \in Seq(Frames)
    /\ \A k \in DOMAIN st : FrameOK(h, st[k])
    /\ \A k \in 1 .. Len(st) - 1 : Linked(st[k], st[k + 1])
    /\ st # << >> => st[1].node = n /\ st[1].item = None

-----------------------------------------------------------------------------

(* What is known of the outputs of a node. *)
LEMMA OutputFacts ==
    ASSUME NEW n \in Nodes
    PROVE  /\ Len(Outputs[n]) \in Nat /\ DOMAIN Outputs[n] = 1 .. Len(Outputs[n])
           /\ Range(Outputs[n]) \subseteq Nodes
           /\ \A o \in DOMAIN Outputs[n] : Outputs[n][o] \in Range(Outputs[n])
           /\ Role[n] = "writer" => \A o \in Range(Outputs[n]) : Role[o] \in {"log", "zenoss"}
           /\ Role[n] # "writer" => Range(Outputs[n]) \subseteq Receivers
           /\ Role[n] \in {"processor", "zenoss"} =>
                 1 \in DOMAIN Outputs[n] /\ Outputs[n][1] \in Range(Outputs[n])
<1> DEFINE S == IF Role[n] = "writer" THEN {d \in Nodes : Role[d] \in {"log", "zenoss"}} ELSE Receivers
<1>1. Outputs[n] \in Seq(S)
  BY NetworkAssumption
<1>2. Role[n] \in {"processor", "zenoss"} => Len(Outputs[n]) = 1
  BY NetworkAssumption
<1>. HIDE DEF S
<1>3. /\ Len(Outputs[n]) \in Nat /\ DOMAIN Outputs[n] = 1 .. Len(Outputs[n])
      /\ \A o \in DOMAIN Outputs[n] : Outputs[n][o] \in S
  BY <1>1, LenProperties, ElementOfSeq
<1>4. Range(Outputs[n]) \subseteq S
  BY <1>3 DEF Range
<1>5. S \subseteq Nodes
  BY DEF S, Receivers
<1>6. \A o \in DOMAIN Outputs[n] : Outputs[n][o] \in Range(Outputs[n])
  BY DEF Range
<1>. QED
  BY <1>2, <1>3, <1>4, <1>5, <1>6 DEF S

(* What receivers are given is a group of items. *)
LEMMA SendableType ==
    ASSUME NEW h, IsHeap(h)
    PROVE  Sendable(h) \subseteq Groups
<1>1. SUFFICES ASSUME NEW g \in Sendable(h) PROVE g \in Groups
  OBVIOUS
<1>2. g.ids \in Seq(DOMAIN h) /\ g.kind \in ReceiverKinds /\ g = [kind |-> g.kind, ids |-> g.ids]
  BY DEF Sendable
<1>3. DOMAIN h \subseteq Nat \ {0}
  BY HeapFacts
<1>4. g.ids \in Seq(Nat \ {0})
  BY <1>2, <1>3, SeqMonotonic
<1>. QED
  BY <1>2, <1>4 DEF Groups, ReceiverKinds, ItemKinds

(* A call with one group. *)
LEMMA SingleFacts ==
    ASSUME NEW h, IsHeap(h), NEW tos, tos \subseteq Nodes, NEW e \in Singles(h, tos)
    PROVE  /\ e \in Entries /\ e.do = "call" /\ e.to \in tos
           /\ e.groups \in Seq(Sendable(h)) /\ Len(e.groups) = 1
           /\ e.groups = <<e.groups[1]>> /\ e.groups[1] \in Sendable(h)
<1>1. PICK to \in tos, g \in Sendable(h) : e = Call(to, <<g>>)
  BY DEF Singles
<1>2. g \in Groups
  BY SendableType
<1>3. <<g>> \in Seq(Groups) /\ <<g>> \in Seq(Sendable(h)) /\ Len(<<g>>) = 1 /\ <<g>>[1] = g
  BY <1>2
<1>4. e.do = "call" /\ e.to = to /\ e.groups = <<g>>
  BY <1>1 DEF Call
<1>5. e \in [do : {"call"}, to : Nodes, groups : Seq(Groups)]
  BY <1>1, <1>3 DEF Call
<1>. QED
  BY <1>3, <1>4, <1>5 DEF Entries

(* Everything a frame may have to do is an entry. *)
LEMMA TasksType ==
    ASSUME NEW h, IsHeap(h), NEW n \in Nodes, NEW i
    PROVE  Tasks(h, n, i) \subseteq Entries
<1>1. SUFFICES ASSUME NEW e \in Tasks(h, n, i) PROVE e \in Entries
  OBVIOUS
<1>2. Range(Outputs[n]) \subseteq Nodes
  BY OutputFacts
<1>3. DOMAIN h \subseteq Nat \ {0}
  BY HeapFacts
<1>4. CASE e \in Singles(h, {n}) \/ e \in Singles(h, Range(Outputs[n]))
  BY <1>2, <1>4, SingleFacts
<1>5. CASE e \in CallsTo(h, Range(Outputs[n]))
  <2>1. PICK to \in Range(Outputs[n]), groups \in Seq(Sendable(h)) : e = Call(to, groups)
    BY <1>5 DEF CallsTo
  <2>2. groups \in Seq(Groups)
    BY SendableType, SeqMonotonic
  <2>. QED
    BY <1>2, <2>1, <2>2 DEF Entries, Call
<1>6. CASE e \in {Process(j) : j \in OfKinds(h, RuleKinds)}
  BY <1>3, <1>6 DEF OfKinds, Process, Entries
<1>7. CASE e \in {Rule(r) : r \in Rules} \cup {Action(a) : a \in Actions}
  BY <1>7 DEF Rule, Action, Entries
<1>8. CASE e \in {Call(d, Report(kind)) : d \in Range(Outputs[n]), kind \in ReportKind(h)}
  <2>1. PICK d \in Range(Outputs[n]), kind \in ReportKind(h) : e = Call(d, Report(kind))
    BY <1>8
  <2>2. Report(kind) \in Seq(Groups)
    BY DEF Report, ReportKind, Group, Groups, ItemKinds
  <2>. QED
    BY <1>2, <2>1, <2>2 DEF Entries, Call
<1>9. CASE e \in {Convert(ids) : ids \in Seq(OfKinds(h, {"metric"}))}
  <2>1. PICK ids \in Seq(OfKinds(h, {"metric"})) : e = Convert(ids)
    BY <1>9
  <2>2. OfKinds(h, {"metric"}) \subseteq Nat \ {0}
    BY <1>3 DEF OfKinds
  <2>3. ids \in Seq(Nat \ {0})
    BY <2>2, SeqMonotonic
  <2>. QED
    BY <2>1, <2>3 DEF Entries, Convert
<1>. QED
  BY <1>1, <1>4, <1>5, <1>6, <1>7, <1>8, <1>9 DEF Tasks

(* A frame that is as it should be has the type of one. *)
LEMMA FrameType ==
    ASSUME NEW h, IsHeap(h), NEW fr, FrameOK(h, fr)
    PROVE  fr \in Frames
<1>1. fr.node \in Nodes /\ fr.todo \in Seq(Tasks(h, fr.node, fr.item))
  BY DEF FrameOK
<1>2. fr.todo \in Seq(Entries)
  BY <1>1, TasksType, SeqMonotonic
<1>. QED
  BY <1>2 DEF FrameOK, Frames

(* What there is to do stays so when the heap grows. *)
LEMMA TasksGrow ==
    ASSUME NEW h, IsHeap(h), NEW g, IsHeap(g), Grows(h, g), NEW n \in Nodes, NEW i
    PROVE  Tasks(h, n, i) \subseteq Tasks(g, n, i)
<1>1. \A kinds : OfKinds(h, kinds) \subseteq OfKinds(g, kinds)
  BY DEF OfKinds, Grows
<1>2. Sendable(h) \subseteq Sendable(g)
  <2>1. SUFFICES ASSUME NEW m \in Sendable(h) PROVE m \in Sendable(g)
    OBVIOUS
  <2>2. m \in [kind : ReceiverKinds, ids : Seq(DOMAIN h)]
    BY DEF Sendable
  <2>3. m.ids \in Seq(DOMAIN g)
    BY <2>2, SeqMonotonic DEF Grows
  <2>4. m \in [kind : ReceiverKinds, ids : Seq(DOMAIN g)]
    BY <2>2, <2>3
  <2>5. ASSUME m.kind # "compact", NEW j \in DOMAIN m.ids PROVE g[m.ids[j]].kind = m.kind
    <3>1. m.ids[j] \in DOMAIN h
      BY <2>2, LenProperties, ElementOfSeq
    <3>2. h[m.ids[j]].kind = m.kind
      BY <2>5 DEF Sendable
    <3>. QED
      BY <3>1, <3>2 DEF Grows
  <2>. QED
    BY <2>4, <2>5 DEF Sendable
<1>3. \A tos : Singles(h, tos) \subseteq Singles(g, tos)
  BY <1>2 DEF Singles
<1>4. Seq(Sendable(h)) \subseteq Seq(Sendable(g))
  BY <1>2, SeqMonotonic
<1>5. \A tos : CallsTo(h, tos) \subseteq CallsTo(g, tos)
  BY <1>4 DEF CallsTo
<1>6. ReportKind(h) \subseteq ReportKind(g)
  BY DEF ReportKind, Grows
<1>7. Seq(OfKinds(h, {"metric"})) \subseteq Seq(OfKinds(g, {"metric"}))
  BY <1>1, SeqMonotonic
<1>8. {Process(j) : j \in OfKinds(h, RuleKinds)} \subseteq {Process(j) : j \in OfKinds(g, RuleKinds)}
  BY <1>1
<1>9. {Convert(ids) : ids \in Seq(OfKinds(h, {"metric"}))} \subseteq
      {Convert(ids) : ids \in Seq(OfKinds(g, {"metric"}))}
  BY <1>7
<1>10. {Call(d, Report(kind)) : d \in Range(Outputs[n]), kind \in ReportKind(h)} \subseteq
       {Call(d, Report(kind)) : d \in Range(Outputs[n]), kind \in ReportKind(g)}
  BY <1>6
<1>. QED
  BY <1>3, <1>5, <1>8, <1>9, <1>10 DEF Tasks

(* A frame stays as it should be when the heap grows. *)
LEMMA FrameGrows ==
    ASSUME NEW h, IsHeap(h), NEW g, IsHeap(g), Grows(h, g), NEW fr, FrameOK(h, fr)
    PROVE  FrameOK(g, fr)
<1>1. fr.node \in Nodes /\ fr.todo \in Seq(Tasks(h, fr.node, fr.item))
  BY DEF FrameOK
<1>2. fr.todo \in Seq(Tasks(g, fr.node, fr.item))
  BY <1>1, TasksGrow, SeqMonotonic
<1>3. ItemOf(g, fr.node, fr.item)
  BY DEF FrameOK, ItemOf, OfKinds, Grows
<1>. QED
  BY <1>2, <1>3 DEF FrameOK

(* So does a stack. *)
LEMMA StackGrows ==
    ASSUME NEW h, IsHeap(h), NEW g, IsHeap(g), Grows(h, g), NEW n, NEW st, StackOK(h, n, st)
    PROVE  StackOK(g, n, st)
BY FrameGrows DEF StackOK

(* A call. *)
LEMMA StackPushed ==
    ASSUME NEW h, IsHeap(h), NEW n, NEW st, StackOK(h, n, st), st # << >>,
           NEW fr, FrameOK(h, fr), Linked(Last(st), fr)
    PROVE  StackOK(h, n, Append(st, fr))
<1>1. fr \in Frames /\ st \in Seq(Frames)
  BY FrameType DEF StackOK
<1>2. /\ Len(st) \in Nat \ {0} /\ DOMAIN st = 1 .. Len(st) /\ Last(st) = st[Len(st)]
  BY <1>1, FrontLast
<1> DEFINE t == Append(st, fr)
<1>3. /\ t \in Seq(Frames) /\ t # << >> /\ Len(t) = Len(st) + 1 /\ DOMAIN t = 1 .. Len(st) + 1
      /\ \A k \in 1 .. Len(st) : t[k] = st[k]
      /\ t[Len(st) + 1] = fr
  BY <1>1, AppendProperties, LenProperties
<1>. HIDE DEF t
<1>4. \A k \in DOMAIN t : FrameOK(h, t[k])
  BY <1>2, <1>3 DEF StackOK
<1>5. \A k \in 1 .. Len(t) - 1 : Linked(t[k], t[k + 1])
  <2>1. SUFFICES ASSUME NEW k \in 1 .. Len(st) PROVE Linked(t[k], t[k + 1])
    BY <1>2, <1>3
  <2>2. CASE k = Len(st)
    BY <1>2, <1>3, <2>2
  <2>3. CASE k # Len(st)
    <3>1. k \in 1 .. Len(st) - 1 /\ k + 1 \in 1 .. Len(st)
      <4> DEFINE N == Len(st)
      <4>1. N \in Nat /\ k \in 1 .. N /\ k # N
        BY <1>2, <2>3
      <4>. HIDE DEF N
      <4>2. k \in 1 .. N - 1 /\ k + 1 \in 1 .. N
        BY <4>1
      <4>. QED
        BY <4>2 DEF N
    <3>2. t[k] = st[k] /\ t[k + 1] = st[k + 1]
      BY <1>3, <3>1
    <3>. QED
      BY <3>1, <3>2 DEF StackOK
  <2>. QED
    BY <2>2, <2>3
<1>6. t[1].node = n /\ t[1].item = None
  BY <1>2, <1>3 DEF StackOK
<1>. QED
  BY <1>3, <1>4, <1>5, <1>6 DEF StackOK, t

(* A step of the call on top. *)
LEMMA StackReplaced ==
    ASSUME NEW h, IsHeap(h), NEW n, NEW st, StackOK(h, n, st), st # << >>,
           NEW fr, FrameOK(h, fr), fr.node = Last(st).node, fr.item = Last(st).item
    PROVE  StackOK(h, n, Append(Front(st), fr))
<1>1. fr \in Frames /\ st \in Seq(Frames)
  BY FrameType DEF StackOK
<1>2. /\ Len(st) \in Nat \ {0} /\ DOMAIN st = 1 .. Len(st) /\ Last(st) = st[Len(st)]
      /\ Front(st) \in Seq(Frames) /\ Len(Front(st)) = Len(st) - 1
      /\ \A k \in 1 .. Len(st) - 1 : Front(st)[k] = st[k]
  BY <1>1, FrontLast
<1> DEFINE t == Append(Front(st), fr)
<1>3. /\ t \in Seq(Frames) /\ t # << >> /\ Len(t) = Len(st) /\ DOMAIN t = 1 .. Len(st)
      /\ \A k \in 1 .. Len(st) - 1 : t[k] = st[k]
      /\ t[Len(st)] = fr
  <2> DEFINE u == Front(st)  N == Len(st)
  <2>1. /\ u \in Seq(Frames) /\ Len(u) = N - 1 /\ N \in Nat /\ (N - 1) + 1 = N
        /\ \A k \in 1 .. N - 1 : u[k] = st[k]
    BY <1>2
  <2>. HIDE DEF u, N
  <2>2. /\ Append(u, fr) \in Seq(Frames) /\ Append(u, fr) # << >> /\ Len(Append(u, fr)) = N
        /\ \A k \in 1 .. N - 1 : Append(u, fr)[k] = u[k]
        /\ Append(u, fr)[N] = fr
    BY <1>1, <2>1, AppendProperties
  <2>3. DOMAIN Append(u, fr) = 1 .. N
    BY <2>2, LenProperties
  <2>. QED
    BY <2>1, <2>2, <2>3 DEF u, N
<1>. HIDE DEF t
<1>4. \A k \in DOMAIN t : FrameOK(h, t[k])
  <2>1. \A k \in DOMAIN t : k = Len(st) \/ k \in 1 .. Len(st) - 1
    BY <1>2, <1>3
  <2>. QED
    BY <1>2, <1>3, <2>1 DEF StackOK
<1>5. \A k \in 1 .. Len(t) - 1 : Linked(t[k], t[k + 1])
  <2>1. SUFFICES ASSUME NEW k \in 1 .. Len(st) - 1 PROVE Linked(t[k], t[k + 1])
    BY <1>2, <1>3
  <2>2. Linked(st[k], st[k + 1]) /\ t[k] = st[k]
    BY <1>3 DEF StackOK
  <2>3. t[k + 1].node = st[k + 1].node /\ t[k + 1].item = st[k + 1].item
    <3>1. k + 1 = Len(st) \/ k + 1 \in 1 .. Len(st) - 1
      <4> DEFINE N == Len(st)
      <4>1. N \in Nat /\ k \in 1 .. N - 1
        BY <1>2
      <4>. HIDE DEF N
      <4>2. k + 1 = N \/ k + 1 \in 1 .. N - 1
        BY <4>1
      <4>. QED
        BY <4>2 DEF N
    <3>. QED
      BY <1>2, <1>3, <3>1
  <2>. QED
    BY <2>2, <2>3 DEF Linked
<1>6. t[1].node = n /\ t[1].item = None
  <2>1. st[1].node = n /\ st[1].item = None
    BY DEF StackOK
  <2>2. 1 = Len(st) \/ 1 \in 1 .. Len(st) - 1
    BY <1>2
  <2>. QED
    BY <1>2, <1>3, <2>1, <2>2
<1>. QED
  BY <1>3, <1>4, <1>5, <1>6 DEF StackOK, t

(* A return. *)
LEMMA StackPopped ==
    ASSUME NEW h, IsHeap(h), NEW n, NEW st, StackOK(h, n, st), st # << >>, Len(st) # 1
    PROVE  /\ StackOK(h, n, Front(st)) /\ Front(st) # << >>
           /\ Linked(Last(Front(st)), Last(st)) /\ FrameOK(h, Last(Front(st)))
           /\ Last(Front(st)) = st[Len(st) - 1] /\ Len(st) - 1 \in DOMAIN st
<1>1. /\ st \in Seq(Frames) /\ Len(st) \in Nat \ {0} /\ DOMAIN st = 1 .. Len(st) /\ Last(st) = st[Len(st)]
      /\ Front(st) \in Seq(Frames) /\ Len(Front(st)) = Len(st) - 1
      /\ \A k \in 1 .. Len(st) - 1 : Front(st)[k] = st[k]
  BY FrontLast DEF StackOK
<1> DEFINE t == Front(st)
<1>2. t # << >> /\ DOMAIN t = 1 .. Len(st) - 1 /\ Last(t) = st[Len(st) - 1]
  <2> DEFINE N == Len(st)
  <2>1. N \in Nat /\ N # 1 /\ N # 0 /\ Len(t) = N - 1 /\ t \in Seq(Frames)
    BY <1>1
  <2>. HIDE DEF t, N
  <2>2. t # << >>
    BY <2>1, EmptySeq
  <2>3. DOMAIN t = 1 .. N - 1 /\ Last(t) = t[N - 1]
    BY <2>1, <2>2, LenProperties DEF Last
  <2>4. N - 1 \in 1 .. N - 1
    BY <2>1
  <2>. QED
    BY <1>1, <2>2, <2>3, <2>4 DEF t, N
<1>. HIDE DEF t
<1>3. StackOK(h, n, t)
  BY <1>1, <1>2 DEF StackOK, t
<1>4. Linked(st[Len(st) - 1], st[Len(st)])
  <2>1. Len(st) - 1 \in 1 .. Len(st) - 1 /\ (Len(st) - 1) + 1 = Len(st)
    BY <1>1
  <2>. QED
    BY <2>1 DEF StackOK
<1>. QED
  BY <1>1, <1>2, <1>3, <1>4 DEF t, StackOK

-----------------------------------------------------------------------------
(* Results. *)

Results == [error : BOOLEAN, failed : Nat, succeeded : Nat, held : Nat]

(* The items of a message are counted by a number. *)
LEMMA CountType ==
    ASSUME NEW groups \in Seq(Groups)
    PROVE  Count(groups) \in Nat
<1> DEFINE h == [g \in DOMAIN groups |-> Len(groups[g].ids)]
<1>1. /\ DOMAIN groups = 1 .. Len(groups) /\ Len(groups) \in Nat
      /\ \A g \in DOMAIN groups : groups[g] \in Groups
  BY LenProperties, ElementOfSeq
<1>2. h \in [DOMAIN groups -> Nat]
  BY <1>1, LenProperties DEF Groups
<1>3. IsFiniteSet(DOMAIN groups)
  BY <1>1, FS_Interval
<1>. HIDE DEF h
<1>4. Total(h) \in Nat
  BY <1>2, <1>3, PairsFinite
<1>. QED
  BY <1>4 DEF Count, h

(* What an error counts for is a number. *)
LEMMA WeightType ==
    ASSUME NEW e \in Entries
    PROVE  Weight(e) \in Nat
<1>1. CASE e.do = "call"
  <2>1. e.groups \in Seq(Groups)
    BY <1>1 DEF Entries
  <2>. QED
    BY <1>1, <2>1, CountType DEF Weight
<1>. QED
  BY <1>1 DEF Weight

(* The frame with other things to do. *)
LEMMA FrameWith ==
    ASSUME NEW h, NEW fr, FrameOK(h, fr), NEW todo \in Seq(Tasks(h, fr.node, fr.item)),
           fr.error => todo = << >>
    PROVE  /\ FrameOK(h, [fr EXCEPT !.todo = todo])
           /\ [fr EXCEPT !.todo = todo].node = fr.node /\ [fr EXCEPT !.todo = todo].item = fr.item
BY DEF FrameOK

(* What a frame does next, and what then remains. *)
LEMMA TaskFacts ==
    ASSUME NEW h, IsHeap(h), NEW fr, FrameOK(h, fr), fr.todo # << >>
    PROVE  /\ fr.node \in Nodes /\ ~fr.error
           /\ Head(fr.todo) \in Tasks(h, fr.node, fr.item) /\ Head(fr.todo) \in Entries
           /\ Tail(fr.todo) \in Seq(Tasks(h, fr.node, fr.item))
<1>1. fr.node \in Nodes /\ fr.todo \in Seq(Tasks(h, fr.node, fr.item)) /\ ~fr.error
  BY DEF FrameOK
<1>2. Head(fr.todo) \in Tasks(h, fr.node, fr.item) /\ Tail(fr.todo) \in Seq(Tasks(h, fr.node, fr.item))
  BY <1>1, HeadTailProperties
<1>. QED
  BY <1>1, <1>2, TasksType

(* A frame that takes a result stays one of its node and its item. *)
LEMMA TookFrame ==
    ASSUME NEW h, IsHeap(h), NEW fr, FrameOK(h, fr), fr.todo # << >>, NEW r \in Results
    PROVE  FrameOK(h, Took(fr, r)) /\ Took(fr, r).node = fr.node /\ Took(fr, r).item = fr.item
<1>1. /\ Weight(Head(fr.todo)) \in Nat /\ ~fr.error
      /\ Tail(fr.todo) \in Seq(Tasks(h, fr.node, fr.item)) /\ << >> \in Seq(Tasks(h, fr.node, fr.item))
  BY TaskFacts, WeightType, EmptySeq
<1>2. /\ (IF r.error THEN Weight(Head(fr.todo)) ELSE r.failed) \in Nat
      /\ (IF r.error THEN 0 ELSE r.succeeded) \in Nat
      /\ (IF r.error THEN 0 ELSE r.held) \in Nat
      /\ r.error \in BOOLEAN
  BY <1>1 DEF Results
<1>3. /\ fr.failed + (IF r.error THEN Weight(Head(fr.todo)) ELSE r.failed) \in Nat
      /\ fr.succeeded + (IF r.error THEN 0 ELSE r.succeeded) \in Nat
      /\ fr.held + (IF r.error THEN 0 ELSE r.held) \in Nat
  BY <1>2 DEF FrameOK
<1>. QED
  BY <1>1, <1>2, <1>3 DEF Took, FrameOK

-----------------------------------------------------------------------------
(* What a call has to do when it begins. *)

(* What may come to a node. *)
Acceptable(h, n, groups) ==
    /\ n \in Nodes /\ Role[n] # "endpoint"
    /\ IF Role[n] \in {"writer", "log", "zenoss"}
       THEN \E kind \in ReportKind(h) : groups = Report(kind)
       ELSE groups \in Seq(Sendable(h)) /\ ~Unimplemented(n, groups)

(* A frame that has just been made is as it should be. *)
LEMMA FreshFrame ==
    ASSUME NEW h, NEW n \in Nodes, Role[n] # "endpoint", NEW i \in Nat, ItemOf(h, n, i),
           NEW todo \in Seq(Tasks(h, n, i))
    PROVE  FrameOK(h, Frame(n, i, todo))
BY DEF FrameOK, Frame

(* A proxy calls itself with every group. *)
LEMMA ProxyAgendaType ==
    ASSUME NEW h, NEW n \in Nodes, NEW groups \in Seq(Sendable(h))
    PROVE  ProxyAgenda(n, groups) \in Seq(Singles(h, {n}))
<1>1. /\ DOMAIN groups = 1 .. Len(groups) /\ Len(groups) \in Nat
      /\ \A g \in DOMAIN groups : groups[g] \in Sendable(h)
  BY LenProperties, ElementOfSeq
<1>2. ProxyAgenda(n, groups) \in [1 .. Len(groups) -> Singles(h, {n})]
  BY <1>1 DEF ProxyAgenda, Singles
<1>. QED
  BY <1>1, <1>2, FunctionSeq

(* The agenda of a splitter, flattened and before. *)
SplitterRows(n, groups) ==
    [o \in DOMAIN Outputs[n] |-> [g \in DOMAIN groups |-> Call(Outputs[n][o], <<groups[g]>>)]]

(* A splitter calls its outputs, with one group each time. *)
LEMMA SplitterAgendaType ==
    ASSUME NEW h, NEW n \in Nodes, NEW groups \in Seq(Sendable(h))
    PROVE  /\ SplitterRows(n, groups) \in Seq(Seq(Singles(h, Range(Outputs[n]))))
           /\ SplitterAgenda(n, groups) \in Seq(Singles(h, Range(Outputs[n])))
<1> DEFINE S == Singles(h, Range(Outputs[n]))
<1>1. /\ DOMAIN groups = 1 .. Len(groups) /\ Len(groups) \in Nat
      /\ \A g \in DOMAIN groups : groups[g] \in Sendable(h)
      /\ DOMAIN Outputs[n] = 1 .. Len(Outputs[n]) /\ Len(Outputs[n]) \in Nat
      /\ \A o \in DOMAIN Outputs[n] : Outputs[n][o] \in Range(Outputs[n])
  BY LenProperties, ElementOfSeq, OutputFacts
<1>2. ASSUME NEW o \in DOMAIN Outputs[n]
      PROVE  [g \in DOMAIN groups |-> Call(Outputs[n][o], <<groups[g]>>)] \in Seq(S)
  <2>1. [g \in DOMAIN groups |-> Call(Outputs[n][o], <<groups[g]>>)] \in [1 .. Len(groups) -> S]
    BY <1>1 DEF Singles
  <2>. HIDE DEF S
  <2>. QED
    BY <1>1, <2>1, FunctionSeq
<1>3. SplitterRows(n, groups) \in [1 .. Len(Outputs[n]) -> Seq(S)]
  BY <1>1, <1>2 DEF SplitterRows
<1>. HIDE DEF S
<1>4. SplitterRows(n, groups) \in Seq(Seq(S))
  BY <1>1, <1>3, FunctionSeq
<1>5. SplitterAgenda(n, groups) \in Seq(S)
  BY <1>4, FlattenProperties DEF SplitterAgenda, SplitterRows
<1>. QED
  BY <1>4, <1>5 DEF S

ProcessorRows(n, groups) ==
    [g \in DOMAIN groups |->
        IF groups[g].kind = "compact" THEN <<Call(Outputs[n][1], <<groups[g]>>)>>
        ELSE [j \in DOMAIN groups[g].ids |-> Process(groups[g].ids[j])]]

(* A processor calls its output with compact metrics and processes the rest. *)
LEMMA ProcessorAgendaType ==
    ASSUME NEW h, NEW n \in Nodes, Role[n] = "processor", NEW groups \in Seq(Sendable(h)),
           ~Unimplemented(n, groups)
    PROVE  /\ ProcessorRows(n, groups) \in Seq(Seq(Tasks(h, n, None)))
           /\ ProcessorAgenda(n, groups) \in Seq(Tasks(h, n, None))
<1> DEFINE S == Tasks(h, n, None)
<1>1. /\ DOMAIN groups = 1 .. Len(groups) /\ Len(groups) \in Nat
      /\ \A g \in DOMAIN groups : groups[g] \in Sendable(h)
      /\ Outputs[n][1] \in Range(Outputs[n])
  BY LenProperties, ElementOfSeq, OutputFacts
<1>2. S = Singles(h, Range(Outputs[n])) \cup {Process(j) : j \in OfKinds(h, RuleKinds)}
  BY DEF Tasks, None
<1>. HIDE DEF S
<1>3. ASSUME NEW g \in DOMAIN groups PROVE ProcessorRows(n, groups)[g] \in Seq(S)
  <2>1. CASE groups[g].kind = "compact"
    <3>1. Call(Outputs[n][1], <<groups[g]>>) \in S
      BY <1>1, <1>2 DEF Singles
    <3>. QED
      BY <2>1, <3>1 DEF ProcessorRows
  <2>2. CASE groups[g].kind # "compact"
    <3> DEFINE ids == groups[g].ids
    <3>1. /\ ids \in Seq(DOMAIN h) /\ groups[g].kind \in ReceiverKinds
          /\ \A j \in DOMAIN ids : h[ids[j]].kind = groups[g].kind
      BY <1>1, <2>2 DEF Sendable
    <3>2. groups[g].kind \in RuleKinds
      <4>1. groups[g].kind # "event"
        BY DEF Unimplemented
      <4>. QED
        BY <2>2, <3>1, <4>1 DEF ReceiverKinds, RuleKinds
    <3>3. /\ DOMAIN ids = 1 .. Len(ids) /\ Len(ids) \in Nat
          /\ \A j \in DOMAIN ids : ids[j] \in DOMAIN h
      BY <3>1, LenProperties, ElementOfSeq
    <3>4. \A j \in DOMAIN ids : Process(ids[j]) \in S
      BY <1>2, <3>1, <3>2, <3>3 DEF OfKinds
    <3>5. [j \in DOMAIN ids |-> Process(ids[j])] \in [1 .. Len(ids) -> S]
      BY <3>3, <3>4
    <3>6. [j \in DOMAIN ids |-> Process(ids[j])] \in Seq(S)
      BY <3>3, <3>5, FunctionSeq
    <3>. QED
      BY <2>2, <3>6 DEF ProcessorRows
  <2>. QED
    BY <2>1, <2>2
<1>4. ProcessorRows(n, groups) \in [1 .. Len(groups) -> Seq(S)]
  <2>1. ProcessorRows(n, groups) = [g \in 1 .. Len(groups) |-> ProcessorRows(n, groups)[g]]
    BY <1>1 DEF ProcessorRows
  <2>. QED
    BY <1>1, <1>3, <2>1
<1>5. ProcessorRows(n, groups) \in Seq(Seq(S))
  BY <1>1, <1>4, FunctionSeq
<1>6. ProcessorAgenda(n, groups) \in Seq(S)
  BY <1>5, FlattenProperties DEF ProcessorAgenda, ProcessorRows
<1>. QED
  BY <1>5, <1>6 DEF S

(* A writer calls its destinations with the report. *)
LEMMA WriterAgendaType ==
    ASSUME NEW h, NEW n \in Nodes, NEW kind \in ReportKind(h)
    PROVE  WriterAgenda(n, Report(kind)) \in
               Seq({Call(d, Report(k)) : d \in Range(Outputs[n]), k \in ReportKind(h)})
<1> DEFINE S == {Call(d, Report(k)) : d \in Range(Outputs[n]), k \in ReportKind(h)}
<1>1. WriterAgenda(n, Report(kind)) \in [1 .. Len(Outputs[n]) -> S]
  BY OutputFacts DEF WriterAgenda
<1>. HIDE DEF S
<1>2. WriterAgenda(n, Report(kind)) \in Seq(S)
  BY <1>1, OutputFacts, FunctionSeq
<1>. QED
  BY <1>2 DEF S

(* The frame of a call to any node but a Zenoss destination. *)
LEMMA Entered ==
    ASSUME NEW h, NEW n, NEW groups, Acceptable(h, n, groups), Role[n] # "zenoss"
    PROVE  /\ FrameOK(h, Enter(n, groups))
           /\ Enter(n, groups).node = n /\ Enter(n, groups).item = None
<1>1. n \in Nodes /\ Role[n] \in Roles \ {"endpoint", "zenoss"}
  BY NetworkAssumption DEF Acceptable
<1>2. ItemOf(h, n, None) /\ None \in Nat
  BY <1>1 DEF ItemOf, None
<1>3. CASE Role[n] = "proxy"
  <2>1. ProxyAgenda(n, groups) \in Seq(Tasks(h, n, None))
    BY <1>1, <1>3, ProxyAgendaType DEF Acceptable, Tasks
  <2>2. Enter(n, groups) = Frame(n, None, ProxyAgenda(n, groups))
    BY <1>3 DEF Enter
  <2>. QED
    BY <1>1, <1>2, <2>1, <2>2, FreshFrame DEF Frame
<1>4. CASE Role[n] = "splitter"
  <2>1. SplitterAgenda(n, groups) \in Seq(Tasks(h, n, None))
    BY <1>1, <1>4, SplitterAgendaType DEF Acceptable, Tasks
  <2>2. Enter(n, groups) = Frame(n, None, SplitterAgenda(n, groups))
    BY <1>4 DEF Enter
  <2>. QED
    BY <1>1, <1>2, <2>1, <2>2, FreshFrame DEF Frame
<1>5. CASE Role[n] = "processor"
  <2>1. ProcessorAgenda(n, groups) \in Seq(Tasks(h, n, None))
    BY <1>1, <1>5, ProcessorAgendaType DEF Acceptable
  <2>2. Enter(n, groups) = Frame(n, None, ProcessorAgenda(n, groups))
    BY <1>5 DEF Enter
  <2>. QED
    BY <1>1, <1>2, <2>1, <2>2, FreshFrame DEF Frame
<1>6. CASE Role[n] = "writer"
  <2>1. WriterAgenda(n, groups) \in Seq(Tasks(h, n, None))
    BY <1>1, <1>6, WriterAgendaType DEF Acceptable, Tasks
  <2>2. Enter(n, groups) = Frame(n, None, WriterAgenda(n, groups))
    BY <1>6 DEF Enter
  <2>. QED
    BY <1>1, <1>2, <2>1, <2>2, FreshFrame DEF Frame
<1>7. CASE Role[n] = "log"
  <2>1. << >> \in Seq(Tasks(h, n, None))
    BY EmptySeq
  <2>2. Enter(n, groups) = Frame(n, None, << >>)
    BY <1>7 DEF Enter
  <2>3. FrameOK(h, Frame(n, None, << >>))
    BY <1>1, <1>2, <2>1, FreshFrame
  <2>. QED
    BY <2>2, <2>3 DEF Frame
<1>. QED
  BY <1>1, <1>3, <1>4, <1>5, <1>6, <1>7 DEF Roles

(* A Zenoss destination: the items it makes, and what it has to do. *)
LEMMA MeasuresType ==
    ASSUME NEW i
    PROVE  Measures(i) \in Seq(Fields)
<1> DEFINE S == Present(heap, i)
<1>1. IsFiniteSet(S) /\ S \subseteq Fields
  BY RulesAssumption, FS_Subset DEF Present
<1>. HIDE DEF S
<1>2. Cardinality(S) \in Nat /\ ExistsBijection(1 .. Cardinality(S), S)
  BY <1>1, FS_CardinalityType, FS_NatBijection, FS_CountingElements
<1>3. \E f \in [1 .. Cardinality(S) -> S] : IsInjective(f)
  BY <1>2 DEF ExistsBijection, Bijection, Injection
<1>4. SetToSeq(S) \in [1 .. Cardinality(S) -> S]
  BY <1>3 DEF SetToSeq
<1>5. SetToSeq(S) \in [1 .. Cardinality(S) -> Fields]
  BY <1>1, <1>4
<1>. QED
  BY <1>2, <1>5, FunctionSeq DEF Measures, S

(* What a Zenoss destination makes of a report is items without fields. *)
LEMMA BuiltType ==
    ASSUME IsHeap(heap), NEW i \in DOMAIN heap, heap[i].kind \in {"health", "component"}
    PROVE  /\ Built(i) \in Seq(Item)
           /\ \A k \in DOMAIN Built(i) :
                 /\ \A f \in Fields : Built(i)[k].ref[f] = Absent
                 /\ Built(i)[k].kind = IF heap[i].kind = "component" THEN "model" ELSE "metric"
<1> DEFINE none == [f \in Fields |-> Absent]
           item(kind, name) == NewItem(kind, name, none)
<1>1. \A kind \in ItemKinds : \A name \in Names :
          /\ item(kind, name) \in Item /\ item(kind, name).kind = kind
          /\ \A f \in Fields : item(kind, name).ref[f] = Absent
  BY DEF NewItem, Item, Absent
<1>. HIDE DEF item
<1>2. heap[i].name \in Names
  BY HeapFacts DEF Item
<1>3. CASE heap[i].kind = "component"
  <2>1. Built(i) = <<item("model", heap[i].name)>>
    BY <1>3 DEF Built, item
  <2>2. item("model", heap[i].name) \in Item
    BY <1>1, <1>2 DEF ItemKinds
  <2>. QED
    BY <1>1, <1>2, <1>3, <2>1, <2>2 DEF ItemKinds
<1>4. CASE heap[i].kind # "component"
  <2> DEFINE m == Measures(i)
  <2>1. /\ m \in Seq(Fields) /\ Len(m) \in Nat /\ DOMAIN m = 1 .. Len(m)
        /\ \A k \in DOMAIN m : m[k] \in Names
    BY MeasuresType, LenProperties, ElementOfSeq, RulesAssumption
  <2>2. Built(i) = [k \in DOMAIN m |-> item("metric", m[k])]
    BY <1>4 DEF Built, item
  <2>. HIDE DEF m
  <2>3. \A k \in DOMAIN m : /\ item("metric", m[k]) \in Item /\ item("metric", m[k]).kind = "metric"
                            /\ \A f \in Fields : item("metric", m[k]).ref[f] = Absent
    BY <1>1, <2>1 DEF ItemKinds
  <2>4. Built(i) \in [1 .. Len(m) -> Item]
    BY <2>1, <2>2, <2>3
  <2>. QED
    BY <1>4, <2>1, <2>2, <2>3, <2>4, FunctionSeq
<1>. QED
  BY <1>3, <1>4

(* The frame of a call to a Zenoss destination, and the heap with what it makes. *)
LEMMA EnteredZenoss ==
    ASSUME IsHeap(heap), NEW n, NEW groups, Acceptable(heap, n, groups), Role[n] = "zenoss"
    PROVE  /\ IsHeap(EnterHeap(n, groups)) /\ Keeps(heap, EnterHeap(n, groups))
           /\ FrameOK(EnterHeap(n, groups), Enter(n, groups))
           /\ Enter(n, groups).node = n /\ Enter(n, groups).item # None
<1> DEFINE i == groups[1].ids[1]
           t == Built(i)
           g == heap \o t
           ids == [k \in DOMAIN t |-> Len(heap) + k]
<1>1. n \in Nodes /\ i = 1 /\ i \in DOMAIN heap /\ heap[i].kind \in {"health", "component"}
  BY DEF Acceptable, Report, Group, ReportKind
<1>2. /\ t \in Seq(Item)
      /\ \A k \in DOMAIN t : /\ \A f \in Fields : t[k].ref[f] = Absent
                             /\ t[k].kind = IF heap[i].kind = "component" THEN "model" ELSE "metric"
  <2>. HIDE DEF i
  <2>. QED
    BY <1>1, BuiltType
<1>3. EnterHeap(n, groups) = g
  BY DEF EnterHeap
<1>. HIDE DEF i, t
<1>4. IsHeap(g) /\ Keeps(heap, g)
  BY <1>2, HeapExtended
<1>5. /\ Len(heap) \in Nat /\ DOMAIN heap = 1 .. Len(heap) /\ Len(t) \in Nat /\ DOMAIN t = 1 .. Len(t)
      /\ DOMAIN g = 1 .. Len(heap) + Len(t)
      /\ \A k \in DOMAIN t : g[Len(heap) + k] = t[k]
  <2>1. Len(heap) \in Nat /\ DOMAIN heap = 1 .. Len(heap) /\ Len(t) \in Nat /\ DOMAIN t = 1 .. Len(t)
    BY <1>2, HeapFacts, LenProperties
  <2>2. /\ g \in Seq(Item) /\ Len(g) = Len(heap) + Len(t)
        /\ \A j \in 1 .. Len(heap) + Len(t) : g[j] = IF j <= Len(heap) THEN heap[j] ELSE t[j - Len(heap)]
    BY <1>2, ConcatProperties DEF IsHeap
  <2>3. DOMAIN g = 1 .. Len(heap) + Len(t)
    BY <2>2, LenProperties
  <2>4. ASSUME NEW k \in DOMAIN t PROVE g[Len(heap) + k] = t[k]
    <3> DEFINE j == Len(heap) + k
    <3>1. j \in 1 .. Len(heap) + Len(t) /\ ~(j <= Len(heap)) /\ j - Len(heap) = k
      BY <2>1
    <3>. HIDE DEF j, g
    <3>2. g[j] = t[j - Len(heap)]
      BY <2>2, <3>1
    <3>. QED
      BY <3>1, <3>2 DEF j
  <2>. QED
    BY <2>1, <2>3, <2>4
<1>. HIDE DEF g
<1>6. \A k \in DOMAIN ids : /\ ids[k] \in DOMAIN g
                            /\ g[ids[k]].kind = IF heap[i].kind = "component" THEN "model" ELSE "metric"
  BY <1>2, <1>5
<1>7. DOMAIN ids = 1 .. Len(t) /\ Len(t) \in Nat
  BY <1>5
<1>8. ASSUME NEW K, \A k \in DOMAIN ids : ids[k] \in K PROVE ids \in Seq(K)
  <2>1. ids \in [1 .. Len(t) -> K]
    BY <1>7, <1>8
  <2>. HIDE DEF ids
  <2>. QED
    BY <1>7, <2>1, FunctionSeq
<1>9. Outputs[n][1] \in Range(Outputs[n])
  BY <1>1, OutputFacts
<1>10. ZenossAgenda(n, i) \in Seq(Tasks(g, n, i))
  <2>1. Tasks(g, n, i) = CallsTo(g, Range(Outputs[n])) \cup {Convert(s) : s \in Seq(OfKinds(g, {"metric"}))}
    BY DEF Tasks
  <2>2. ASSUME NEW kind \in {"model", "metric"},
               kind = IF heap[i].kind = "component" THEN "model" ELSE "metric"
        PROVE  Call(Outputs[n][1], <<Group(kind, ids)>>) \in Tasks(g, n, i)
    <3>1. ids \in Seq(DOMAIN g)
      BY <1>6, <1>8
    <3>2. Group(kind, ids) \in Sendable(g)
      <4>. HIDE DEF ids
      <4>. QED
        BY <1>6, <2>2, <3>1 DEF Group, Sendable, ReceiverKinds
    <3>3. <<Group(kind, ids)>> \in Seq(Sendable(g))
      BY <3>2
    <3> DEFINE message == <<Group(kind, ids)>>
    <3>4. message \in Seq(Sendable(g))
      BY <3>3
    <3>. HIDE DEF message
    <3>5. Call(Outputs[n][1], message) \in CallsTo(g, Range(Outputs[n]))
      BY <1>9, <3>4 DEF CallsTo
    <3>. QED
      BY <2>1, <3>5 DEF message
  <2>3. CASE heap[i].kind = "component"
    <3>1. ZenossAgenda(n, i) = <<Call(Outputs[n][1], <<Group("model", ids)>>)>>
      BY <2>3 DEF ZenossAgenda, t
    <3>2. Call(Outputs[n][1], <<Group("model", ids)>>) \in Tasks(g, n, i)
      BY <2>2, <2>3
    <3>. HIDE DEF ids
    <3>. QED
      BY <3>1, <3>2
  <2>4. CASE heap[i].kind # "component" /\ n \in Compact
    <3>1. ZenossAgenda(n, i) = <<Convert(ids)>>
      BY <2>4 DEF ZenossAgenda, t
    <3>2. ids \in Seq(OfKinds(g, {"metric"}))
      <4>1. \A k \in DOMAIN ids : ids[k] \in OfKinds(g, {"metric"})
        BY <1>6, <2>4 DEF OfKinds
      <4>. QED
        BY <1>8, <4>1
    <3>3. Convert(ids) \in Tasks(g, n, i)
      BY <2>1, <3>2
    <3>. HIDE DEF ids
    <3>. QED
      BY <3>1, <3>3
  <2>5. CASE heap[i].kind # "component" /\ n \notin Compact
    <3>1. ZenossAgenda(n, i) = <<Call(Outputs[n][1], <<Group("metric", ids)>>)>>
      BY <2>5 DEF ZenossAgenda, t
    <3>2. Call(Outputs[n][1], <<Group("metric", ids)>>) \in Tasks(g, n, i)
      BY <2>2, <2>5
    <3>. HIDE DEF ids
    <3>. QED
      BY <3>1, <3>2
  <2>. QED
    BY <2>3, <2>4, <2>5
<1>11. Enter(n, groups) = Frame(n, i, ZenossAgenda(n, i))
  BY DEF Enter, i
<1>12. ItemOf(g, n, i) /\ i \in Nat /\ i # None
  <2>1. DOMAIN heap \subseteq DOMAIN g
    BY <1>4 DEF Keeps, Grows
  <2>. QED
    BY <1>1, <2>1 DEF ItemOf, None
<1>13. FrameOK(g, Frame(n, i, ZenossAgenda(n, i)))
  BY <1>1, <1>10, <1>12, FreshFrame
<1>. QED
  BY <1>3, <1>4, <1>11, <1>12, <1>13 DEF Frame, g

-----------------------------------------------------------------------------
(* What an answer must account for.  Worth is a recursive function on the network; that there  *)
(* is one follows from no receiver being before itself.                                        *)

Worths == [ItemKinds -> Nat]

WorthOf(w, n) ==
    [kind \in ItemKinds |->
        IF Role[n] = "splitter" THEN Total([o \in DOMAIN Outputs[n] |-> w[Outputs[n][o]][kind]])
        ELSE IF Role[n] = "processor" /\ kind = "compact" THEN w[Outputs[n][1]][kind]
        ELSE 1]

Solves(S, w) ==
    S \subseteq Nodes /\ Closed(S) /\ w \in [S -> Worths] /\ \A n \in S : w[n] = WorthOf(w, n)

(* The worth of items at a node depends on the worth at its outputs only. *)
LEMMA WorthDepends ==
    ASSUME NEW n \in Nodes, NEW w, NEW v, \A o \in Range(Outputs[n]) : w[o] = v[o]
    PROVE  WorthOf(w, n) = WorthOf(v, n)
<1>1. \A o \in DOMAIN Outputs[n] : w[Outputs[n][o]] = v[Outputs[n][o]]
  BY OutputFacts
<1>2. \A kind \in ItemKinds : [o \in DOMAIN Outputs[n] |-> w[Outputs[n][o]][kind]] =
                              [o \in DOMAIN Outputs[n] |-> v[Outputs[n][o]][kind]]
  BY <1>1
<1>3. Role[n] = "processor" => w[Outputs[n][1]] = v[Outputs[n][1]]
  BY OutputFacts
<1>. QED
  BY <1>2, <1>3 DEF WorthOf

(* Items are worth a number at a node if they are at its outputs. *)
LEMMA WorthOfType ==
    ASSUME NEW n \in Nodes, NEW w, \A o \in Range(Outputs[n]) : w[o] \in Worths
    PROVE  WorthOf(w, n) \in Worths
<1>1. /\ \A o \in DOMAIN Outputs[n] : w[Outputs[n][o]] \in Worths
      /\ DOMAIN Outputs[n] = 1 .. Len(Outputs[n]) /\ Len(Outputs[n]) \in Nat
      /\ Role[n] = "processor" => w[Outputs[n][1]] \in Worths
  BY OutputFacts
<1>2. ASSUME NEW kind \in ItemKinds
      PROVE  Total([o \in DOMAIN Outputs[n] |-> w[Outputs[n][o]][kind]]) \in Nat
  <2> DEFINE h == [o \in DOMAIN Outputs[n] |-> w[Outputs[n][o]][kind]]
  <2>1. h \in [DOMAIN Outputs[n] -> Nat] /\ IsFiniteSet(DOMAIN Outputs[n])
    <3>1. \A o \in DOMAIN Outputs[n] : w[Outputs[n][o]][kind] \in Nat
      BY <1>1 DEF Worths
    <3>2. IsFiniteSet(DOMAIN Outputs[n])
      BY <1>1, FS_Interval
    <3>. QED
      BY <3>1, <3>2
  <2>. HIDE DEF h
  <2>2. Total(h) \in Nat
    BY <2>1, PairsFinite
  <2>. QED
    BY <2>2 DEF h
<1>3. \A kind \in ItemKinds : Role[n] = "processor" => w[Outputs[n][1]][kind] \in Nat
  BY <1>1 DEF Worths
<1>. QED
  BY <1>2, <1>3 DEF WorthOf, Worths

(* Two solutions of the equations of Worth agree where both are defined: the outputs come     *)
(* first.                                                                                     *)
LEMMA WorthUnique ==
    ASSUME NEW S, NEW w, Solves(S, w), NEW T, NEW v, Solves(T, v)
    PROVE  \A n \in S \cap T : w[n] = v[n]
<1> DEFINE D == {n \in S \cap T : w[n] # v[n]}
<1>1. SUFFICES ASSUME D # {} PROVE FALSE
  OBVIOUS
<1>2. D \in SUBSET Nodes
  BY DEF Solves
<1>3. PICK n \in D : \A o \in DOMAIN Outputs[n] : Outputs[n][o] \notin D
  <2>. HIDE DEF D
  <2>. QED
    BY <1>1, <1>2, NetworkAssumption
<1>4. n \in Nodes /\ Range(Outputs[n]) \subseteq S \cap T
  BY <1>2 DEF Solves, Closed
<1>5. \A o \in Range(Outputs[n]) : w[o] = v[o]
  BY <1>3, <1>4 DEF Range
<1>6. WorthOf(w, n) = WorthOf(v, n)
  BY <1>4, <1>5, WorthDepends
<1>. QED
  BY <1>3, <1>6 DEF Solves

(* There is a solution, for the nodes whose outputs all are solved grow until they are all. *)
LEMMA WorthExists ==
    \E w : Solves(Nodes, w)
<1> DEFINE D == {n \in Nodes : \E S : \E w : Solves(S, w) /\ n \in S}
           Is(n, x) == \E S : \E w : Solves(S, w) /\ n \in S /\ x = w[n]
           all == [n \in D |-> CHOOSE x : Is(n, x)]
<1>1. ASSUME NEW S, NEW w, Solves(S, w), NEW n \in S PROVE n \in D /\ all[n] = w[n]
  <2>1. n \in D
    BY <1>1 DEF Solves
  <2>2. \E x : Is(n, x)
    BY <1>1
  <2>3. Is(n, all[n])
    <3>. HIDE DEF D, Is
    <3>. QED
      BY <2>1, <2>2
  <2>4. PICK T, v : Solves(T, v) /\ n \in T /\ all[n] = v[n]
    BY <2>3
  <2>. HIDE DEF all, D
  <2>5. w[n] = v[n]
    BY <1>1, <2>4, WorthUnique
  <2>. QED
    BY <2>1, <2>4, <2>5
<1>2. Solves(D, all)
  <2>1. ASSUME NEW n \in D
        PROVE  /\ Range(Outputs[n]) \subseteq D /\ all[n] \in Worths /\ all[n] = WorthOf(all, n)
    <3>1. PICK S, w : Solves(S, w) /\ n \in S
      OBVIOUS
    <3>2. Range(Outputs[n]) \subseteq S /\ n \in Nodes
      BY <3>1 DEF Solves, Closed
    <3>. HIDE DEF D, all
    <3>3. \A o \in S : o \in D /\ all[o] = w[o]
      BY <1>1, <3>1
    <3>4. WorthOf(all, n) = WorthOf(w, n)
      BY <3>2, <3>3, WorthDepends
    <3>5. w[n] \in Worths /\ w[n] = WorthOf(w, n)
      BY <3>1 DEF Solves
    <3>. QED
      BY <3>1, <3>2, <3>3, <3>4, <3>5
  <2>2. all \in [D -> Worths]
    BY <2>1
  <2>. QED
    BY <2>1, <2>2 DEF Solves, Closed
<1>3. ASSUME Nodes \ D # {} PROVE FALSE
  <2> DEFINE rest == Nodes \ D
  <2>1. PICK n \in rest : \A o \in DOMAIN Outputs[n] : Outputs[n][o] \notin rest
    <3>1. rest \in SUBSET Nodes /\ rest # {}
      BY <1>3
    <3>. HIDE DEF rest
    <3>. QED
      BY <3>1, NetworkAssumption
  <2>2. n \in Nodes /\ n \notin D /\ Range(Outputs[n]) \subseteq D
    BY <2>1, OutputFacts DEF Range
  <2> DEFINE more == [m \in D \cup {n} |-> IF m \in D THEN all[m] ELSE WorthOf(all, n)]
  <2>. HIDE DEF all, D
  <2>3. \A o \in D : more[o] = all[o] /\ all[o] \in Worths
    BY <1>2 DEF Solves
  <2>4. WorthOf(all, n) \in Worths
    BY <2>2, <2>3, WorthOfType
  <2>5. more \in [D \cup {n} -> Worths]
    BY <2>3, <2>4
  <2>6. ASSUME NEW m \in D \cup {n} PROVE Range(Outputs[m]) \subseteq D /\ more[m] = WorthOf(more, m)
    <3>1. Range(Outputs[m]) \subseteq D /\ m \in Nodes
      BY <1>2, <2>2 DEF Solves, Closed
    <3>2. WorthOf(more, m) = WorthOf(all, m)
      <4>. HIDE DEF more
      <4>. QED
        BY <2>3, <3>1, WorthDepends
    <3>3. more[m] = WorthOf(all, m)
      BY <1>2, <2>2, <2>3 DEF Solves
    <3>. QED
      BY <3>1, <3>2, <3>3
  <2>7. Solves(D \cup {n}, more)
    <3>. HIDE DEF more
    <3>. QED
      BY <1>2, <2>2, <2>5, <2>6 DEF Solves, Closed
  <2>8. n \in D
    <3>. HIDE DEF more
    <3>. QED
      BY <2>2, <2>7 DEF D
  <2>. QED
    BY <2>2, <2>8
<1>4. D = Nodes
  BY <1>3
<1>. QED
  BY <1>2, <1>4

(* So Worth is a function, and its equations hold. *)
LEMMA WorthFacts ==
    /\ Worth \in [Nodes -> Worths]
    /\ \A n \in Nodes : \A kind \in ItemKinds :
          Worth[n][kind] =
              IF Role[n] = "splitter"
              THEN Total([o \in DOMAIN Outputs[n] |-> Worth[Outputs[n][o]][kind]])
              ELSE IF Role[n] = "processor" /\ kind = "compact" THEN Worth[Outputs[n][1]][kind]
              ELSE 1
<1> DEFINE IsWorth(w) ==
        w = [n \in Nodes |->
                [kind \in ItemKinds |->
                    IF Role[n] = "splitter"
                    THEN Total([o \in DOMAIN Outputs[n] |-> w[Outputs[n][o]][kind]])
                    ELSE IF Role[n] = "processor" /\ kind = "compact" THEN w[Outputs[n][1]][kind]
                    ELSE 1]]
<1>1. \E w : IsWorth(w)
  <2>1. PICK w : Solves(Nodes, w)
    BY WorthExists
  <2>2. w = [n \in Nodes |-> WorthOf(w, n)]
    BY <2>1 DEF Solves
  <2>. QED
    BY <2>2 DEF WorthOf
<1>2. Worth = CHOOSE w : IsWorth(w)
  BY DEF Worth
<1>3. IsWorth(Worth)
  <2>. HIDE DEF IsWorth
  <2>. QED
    BY <1>1, <1>2
<1>4. Worth = [n \in Nodes |-> WorthOf(Worth, n)]
  BY <1>3 DEF WorthOf
<1>5. PICK w : Solves(Nodes, w)
  BY WorthExists
<1>6. \A n \in Nodes : Worth[n] = w[n]
  <2> DEFINE D == {n \in Nodes : Worth[n] # w[n]}
  <2>1. SUFFICES ASSUME D # {} PROVE FALSE
    OBVIOUS
  <2>2. D \in SUBSET Nodes
    OBVIOUS
  <2>3. PICK n \in D : \A o \in DOMAIN Outputs[n] : Outputs[n][o] \notin D
    <3>. HIDE DEF D
    <3>. QED
      BY <2>1, <2>2, NetworkAssumption
  <2>4. \A o \in Range(Outputs[n]) : Worth[o] = w[o]
    BY <2>3, OutputFacts DEF Range
  <2>5. WorthOf(Worth, n) = WorthOf(w, n)
    BY <2>3, <2>4, WorthDepends
  <2>6. Worth[n] = WorthOf(Worth, n)
    BY <1>4, <2>3
  <2>. QED
    BY <1>5, <2>3, <2>5, <2>6 DEF Solves
<1>7. DOMAIN Worth = Nodes /\ Worth = [n \in Nodes |-> Worth[n]]
  BY <1>4
<1>8. Worth \in [Nodes -> Worths]
  BY <1>5, <1>6, <1>7 DEF Solves
<1>9. \A n \in Nodes : Worth[n] = WorthOf(Worth, n)
  BY <1>4
<1>. QED
  BY <1>8, <1>9 DEF WorthOf

(* What an answer must account for is a number. *)
LEMMA OwedType ==
    ASSUME NEW n \in Nodes, NEW groups \in Seq(Groups)
    PROVE  /\ Owed(n, groups) \in Nat
           /\ [g \in DOMAIN groups |-> Worth[n][groups[g].kind] * Len(groups[g].ids)] \in
                  [DOMAIN groups -> Nat]
           /\ IsFiniteSet(DOMAIN groups) /\ DOMAIN groups = 1 .. Len(groups) /\ Len(groups) \in Nat
<1> DEFINE h == [g \in DOMAIN groups |-> Worth[n][groups[g].kind] * Len(groups[g].ids)]
<1>1. DOMAIN groups = 1 .. Len(groups) /\ Len(groups) \in Nat /\ IsFiniteSet(DOMAIN groups)
  BY LenProperties, FS_Interval
<1>2. ASSUME NEW g \in DOMAIN groups PROVE Worth[n][groups[g].kind] * Len(groups[g].ids) \in Nat
  <2>1. groups[g] \in Groups
    BY <1>1, ElementOfSeq
  <2>2. Len(groups[g].ids) \in Nat
    BY <2>1, LenProperties DEF Groups
  <2>3. Worth[n][groups[g].kind] \in Nat
    BY <2>1, WorthFacts DEF Groups, Worths
  <2>. QED
    BY <2>2, <2>3
<1>3. h \in [DOMAIN groups -> Nat]
  BY <1>2
<1>. HIDE DEF h
<1>4. Total(h) \in Nat
  BY <1>1, <1>3, PairsFinite
<1>. QED
  BY <1>1, <1>3, <1>4 DEF Owed, h

(* The sum of n ones. *)
LEMMA TotalOfOnes ==
    ASSUME NEW n \in Nat
    PROVE  Total([j \in 1 .. n |-> 1]) = n
<1> DEFINE h == [j \in 1 .. n |-> 1]
<1>1. Pairs(h) = (1 .. n) \X {1}
  <2>1. DOMAIN h = 1 .. n /\ \A j \in 1 .. n : 1 .. h[j] = {1}
    BY SMT
  <2>. HIDE DEF h
  <2>2. \A p \in Pairs(h) : p \in (1 .. n) \X {1}
    BY <2>1 DEF Pairs
  <2>3. \A p \in (1 .. n) \X {1} : p \in Pairs(h)
    BY <2>1 DEF Pairs
  <2>. QED
    BY <2>2, <2>3
<1> DEFINE S == 1 .. n  T == {1}
<1>2. /\ IsFiniteSet(S) /\ Cardinality(S) = n /\ IsFiniteSet(T) /\ Cardinality(T) = 1
      /\ h \in [S -> Nat]
  <2>1. IsFiniteSet(1 .. n) /\ Cardinality(1 .. n) = n
    BY FS_Interval
  <2>. QED
    BY <2>1, FS_Singleton
<1>. HIDE DEF h, S, T
<1>3. Total(h) = Cardinality(Pairs(h))
  BY <1>2, PairsFinite
<1>4. Cardinality(S \X T) = Cardinality(S) * Cardinality(T)
  BY <1>2, FS_Product
<1>5. Cardinality(S) * Cardinality(T) = n
  BY <1>2
<1>6. Total(h) = n
  BY <1>1, <1>3, <1>4, <1>5 DEF S, T
<1>. QED
  BY <1>6 DEF h

Fates == {"error", "taken", "held", "refused"}

(* What an endpoint is given: as many items as the message has, as they are now. *)
LEMMA GivenFacts ==
    ASSUME IsHeap(heap), NEW to \in Nodes, NEW groups \in Seq(Sendable(heap)),
           NEW fates \in [1 .. Count(groups) -> Fates]
    PROVE  LET given == Given(to, groups, fates)
           IN  /\ given \in Seq(Offers) /\ Len(given) = Count(groups)
               /\ \A j \in DOMAIN given : /\ given[j].at = to /\ given[j].fate = fates[j]
                                          /\ given[j].item \in DOMAIN heap
                                          /\ given[j].content = Content(heap, given[j].item)
<1> DEFINE row(g) == [j \in DOMAIN groups[g].ids |-> <<groups[g].kind, groups[g].ids[j]>>]
           seqs == [g \in DOMAIN groups |-> row(g)]
           items == FlattenSeq(seqs)
           S == ItemKinds \X DOMAIN heap
           given == Given(to, groups, fates)
<1>1. /\ DOMAIN groups = 1 .. Len(groups) /\ Len(groups) \in Nat
      /\ \A g \in DOMAIN groups : groups[g] \in Sendable(heap)
  BY LenProperties, ElementOfSeq
<1>2. ASSUME NEW g \in DOMAIN groups
      PROVE  row(g) \in Seq(S) /\ DOMAIN row(g) = 1 .. Len(groups[g].ids) /\ Len(groups[g].ids) \in Nat
  <2> DEFINE ids == groups[g].ids
  <2>1. ids \in Seq(DOMAIN heap) /\ groups[g].kind \in ItemKinds
    BY <1>1 DEF Sendable, ReceiverKinds, ItemKinds
  <2>2. DOMAIN ids = 1 .. Len(ids) /\ Len(ids) \in Nat /\ \A j \in DOMAIN ids : ids[j] \in DOMAIN heap
    BY <2>1, LenProperties, ElementOfSeq
  <2>3. row(g) \in [1 .. Len(ids) -> S]
    BY <2>1, <2>2
  <2>. HIDE DEF row, S
  <2>. QED
    BY <2>2, <2>3, FunctionSeq
<1>3. seqs \in Seq(Seq(S)) /\ DOMAIN seqs = DOMAIN groups
  <2>1. seqs \in [1 .. Len(groups) -> Seq(S)]
    BY <1>1, <1>2
  <2>. HIDE DEF row, S
  <2>. QED
    BY <1>1, <2>1, FunctionSeq
<1> DEFINE w == [s \in S |-> 1]
<1>4. w \in Counts(S) /\ \A s \in S : w[s] = 1
  BY DEF Counts
<1>5. /\ items \in Seq(S)
      /\ Total([j \in DOMAIN items |-> w[items[j]]]) =
         Total([g \in DOMAIN seqs |-> Total([j \in DOMAIN seqs[g] |-> w[seqs[g][j]]])])
  <2>. HIDE DEF seqs, S, w
  <2>1. items \in Seq(S) /\ SumOver(items, w) = SumOverAll(seqs, w)
    BY <1>3, <1>4, TotalFlattened
  <2>. HIDE DEF items
  <2>. QED
    BY <2>1 DEF SumOver, SumOverAll
<1>6. DOMAIN items = 1 .. Len(items) /\ Len(items) \in Nat /\ \A j \in DOMAIN items : items[j] \in S
  BY <1>5, LenProperties, ElementOfSeq
<1>7. [j \in DOMAIN items |-> w[items[j]]] = [j \in 1 .. Len(items) |-> 1]
  <2>. HIDE DEF items, w, S
  <2>. QED
    BY <1>4, <1>6
<1>8. [g \in DOMAIN seqs |-> Total([j \in DOMAIN seqs[g] |-> w[seqs[g][j]]])] =
      [g \in DOMAIN groups |-> Len(groups[g].ids)]
  <2>1. ASSUME NEW g \in DOMAIN groups
        PROVE  Total([j \in DOMAIN seqs[g] |-> w[seqs[g][j]]]) = Len(groups[g].ids)
    <3>1. seqs[g] = row(g)
      OBVIOUS
    <3>2. \A j \in DOMAIN row(g) : row(g)[j] \in S
      BY <1>2, ElementOfSeq, LenProperties
    <3>. HIDE DEF seqs, row, S, w
    <3>3. [j \in DOMAIN seqs[g] |-> w[seqs[g][j]]] = [j \in 1 .. Len(groups[g].ids) |-> 1]
      BY <1>2, <1>4, <3>1, <3>2
    <3>. QED
      BY <1>2, <3>3, TotalOfOnes
  <2>. HIDE DEF seqs, w
  <2>. QED
    BY <1>3, <2>1
<1>9. Len(items) = Count(groups)
  <2>. HIDE DEF items, seqs, w
  <2>. QED
    BY <1>5, <1>6, <1>7, <1>8, TotalOfOnes DEF Count
<1>10. given = [j \in DOMAIN items |-> [at |-> to, kind |-> items[j][1], item |-> items[j][2],
                                       content |-> Content(heap, items[j][2]), fate |-> fates[j]]]
  BY DEF Given
<1>. HIDE DEF items, given
<1>11. ASSUME NEW j \in DOMAIN items
       PROVE  /\ given[j] \in Offers /\ given[j].at = to /\ given[j].fate = fates[j]
              /\ given[j].item \in DOMAIN heap /\ given[j].content = Content(heap, given[j].item)
  <2>1. items[j][1] \in ItemKinds /\ items[j][2] \in DOMAIN heap
    BY <1>6
  <2>2. fates[j] \in Fates
    BY <1>6, <1>9
  <2>3. Content(heap, items[j][2]) \in [Fields -> Int] /\ items[j][2] \in Nat \ {0}
    BY <2>1, HeapFacts
  <2>. QED
    BY <1>10, <2>1, <2>2, <2>3 DEF Offers, Fates
<1>12. given \in [1 .. Len(items) -> Offers]
  BY <1>6, <1>10, <1>11
<1>13. given \in Seq(Offers) /\ Len(given) = Len(items) /\ DOMAIN given = DOMAIN items
  BY <1>6, <1>12, FunctionSeq
<1>. QED
  BY <1>9, <1>11, <1>13 DEF given

-----------------------------------------------------------------------------
(* The type invariant, with what it takes to keep it: the calls on the stack are each in the   *)
(* middle of what the one below has next, and only do what a node of their kind does.          *)

Shape ==
    /\ IsHeap(heap)
    /\ StackOK(heap, request.node, stack)
    /\ pc \in {"check", "lookUp"} =>
          Role[request.node] = "proxy" /\ Acceptable(heap, request.node, request.groups)
    /\ pc = "lookUp" => looking # << >>

TypeInv == TypeOK /\ Shape

(* The types of what no call changes; and of the counts and records of those under way. *)
Fixed ==
    /\ rules \in RuleSets
    /\ allowed \in KeySets /\ output \in {c.output : c \in Configs}
    /\ setting \subseteq [field : {"allowed"}, value : KeySets] \cup
                         [field : {"output"}, value : {c.output : c \in Configs}]
    /\ request \in Requests

Records ==
    /\ looking \in Seq(STRING)
    /\ answer \in Results \cup {Pending}
    /\ inForce \subseteq KeySets
    /\ due \in Nat
    /\ offers \in Seq(Offers)
    /\ begun \subseteq Nodes \X (Nat \ {0}) /\ stopped \subseteq Nodes \X (Nat \ {0})

(* The invariant by its parts. *)
LEMMA TypeParts ==
    TypeInv <=> /\ Fixed /\ Records /\ Shape
                /\ pc \in {"idle", "check", "lookUp", "serve", "panicked"} /\ (pc = "serve" <=> stack # << >>)
BY DEF TypeInv, TypeOK, Fixed, Records, Shape, Results, IsHeap, StackOK

(* What is known of the call on top while a request is served. *)
LEMMA ServeFacts ==
    ASSUME TypeInv, pc = "serve"
    PROVE  /\ IsHeap(heap) /\ StackOK(heap, request.node, stack) /\ stack # << >>
           /\ stack \in Seq(Frames) /\ Len(stack) \in Nat \ {0} /\ DOMAIN stack = 1 .. Len(stack)
           /\ Top = stack[Len(stack)] /\ FrameOK(heap, Top) /\ Top.node \in Nodes
           /\ Top.todo \in Seq(Tasks(heap, Top.node, Top.item))
           /\ Top.todo # << >> =>
                 /\ ~Top.error /\ Entry \in Tasks(heap, Top.node, Top.item) /\ Entry \in Entries
                 /\ Tail(Top.todo) \in Seq(Tasks(heap, Top.node, Top.item))
<1>1. IsHeap(heap) /\ StackOK(heap, request.node, stack) /\ stack # << >> /\ stack \in Seq(Frames)
  BY DEF TypeInv, TypeOK, Shape
<1>2. /\ Len(stack) \in Nat \ {0} /\ DOMAIN stack = 1 .. Len(stack)
      /\ Top = stack[Len(stack)]
  BY <1>1, FrontLast DEF Top
<1>3. FrameOK(heap, Top)
  BY <1>1, <1>2 DEF StackOK
<1>. QED
  BY <1>1, <1>2, <1>3, TaskFacts DEF Entry, FrameOK

(* What a call is to, and with. *)
LEMMA CallFacts ==
    ASSUME TypeInv, Doing("call")
    PROVE  /\ pc = "serve" /\ Top.todo # << >> /\ Head(Top.todo).do = "call"
           /\ Target \in Nodes /\ Entry.groups \in Seq(Groups)
           /\ \/ Target = Head(Top.todo).to
              \/ Role[Top.node] = "proxy" /\ Target \in Receivers
           /\ IF Role[Top.node] = "writer"
              THEN Role[Target] \in {"log", "zenoss"} /\ Acceptable(heap, Target, Entry.groups)
              ELSE Target \in Receivers /\ Entry.groups \in Seq(Sendable(heap))
           /\ Role[Top.node] \notin {"writer", "zenoss"} =>
                 Entry.groups = <<Entry.groups[1]>> /\ Len(Entry.groups) = 1
           /\ Role[Target] # "endpoint" /\ ~Unimplemented(Target, Entry.groups) =>
                 Acceptable(heap, Target, Entry.groups)
<1>1. /\ pc = "serve" /\ Top.todo # << >> /\ Head(Top.todo).do = "call" /\ Entry.do = "call"
      /\ Head(Top.todo) = Entry
  BY DEF Doing, Entry
<1>2. /\ IsHeap(heap) /\ FrameOK(heap, Top) /\ Top.node \in Nodes
      /\ Entry \in Tasks(heap, Top.node, Top.item) /\ Entry \in Entries
  BY <1>1, ServeFacts
<1>3. Role[Top.node] \in Roles \ {"endpoint"} /\ Entry.groups \in Seq(Groups)
  BY <1>1, <1>2, NetworkAssumption DEF FrameOK, Entries
<1> DEFINE outs == Range(Outputs[Top.node])
<1>4. outs \subseteq Nodes /\ (Role[Top.node] # "writer" => outs \subseteq Receivers)
  BY <1>2, OutputFacts
<1>. HIDE DEF outs
<1>5. CASE Role[Top.node] = "proxy"
  <2>1. Entry \in Singles(heap, {Top.node})
    BY <1>2, <1>5 DEF Tasks
  <2>2. Entry.groups \in Seq(Sendable(heap)) /\ Entry.groups = <<Entry.groups[1]>> /\ Len(Entry.groups) = 1
    BY <1>2, <2>1, SingleFacts
  <2>3. Target = output /\ output \in Receivers
    BY <1>5, NetworkAssumption DEF Target, TypeInv, TypeOK
  <2>. QED
    BY <1>1, <1>3, <1>5, <2>2, <2>3 DEF Acceptable, Receivers
<1>6. CASE Role[Top.node] \in {"splitter", "processor"}
  <2>1. Entry \in Singles(heap, outs)
    BY <1>1, <1>2, <1>6 DEF Tasks, Process, Rule, Action, outs
  <2>2. /\ Entry.groups \in Seq(Sendable(heap)) /\ Entry.groups = <<Entry.groups[1]>>
        /\ Len(Entry.groups) = 1 /\ Entry.to \in outs
    BY <1>2, <1>4, <2>1, SingleFacts
  <2>3. Target = Entry.to /\ Entry.to \in Receivers
    BY <1>4, <1>6, <2>2 DEF Target
  <2>. QED
    BY <1>1, <1>3, <1>6, <2>2, <2>3 DEF Acceptable, Receivers
<1>7. CASE Role[Top.node] = "zenoss"
  <2>1. Entry \in CallsTo(heap, outs)
    BY <1>1, <1>2, <1>7 DEF Tasks, Convert, outs
  <2>2. Entry.groups \in Seq(Sendable(heap)) /\ Entry.to \in outs
    BY <2>1 DEF CallsTo, Call
  <2>3. Target = Entry.to /\ Entry.to \in Receivers
    BY <1>4, <1>7, <2>2 DEF Target
  <2>. QED
    BY <1>1, <1>3, <1>7, <2>2, <2>3 DEF Acceptable, Receivers
<1>8. CASE Role[Top.node] = "writer"
  <2>1. PICK d \in outs, kind \in ReportKind(heap) : Entry = Call(d, Report(kind))
    BY <1>2, <1>8 DEF Tasks, outs
  <2>2. Target = d /\ d \in Nodes /\ Role[d] \in {"log", "zenoss"} /\ Entry.to = d
    BY <1>2, <1>4, <1>8, <2>1, OutputFacts DEF Target, Call, outs
  <2>3. Acceptable(heap, d, Entry.groups)
    BY <2>1, <2>2 DEF Acceptable, Call
  <2>. QED
    BY <1>1, <1>3, <1>8, <2>2, <2>3
<1>9. CASE Role[Top.node] = "log"
  BY <1>2, <1>9 DEF Tasks
<1>. QED
  BY <1>3, <1>5, <1>6, <1>7, <1>8, <1>9 DEF Roles

(* A request that is not refused is acceptable where it comes. *)
LEMMA RequestFacts ==
    ASSUME NEW q \in Requests
    PROVE  /\ q.node \in Nodes /\ Role[q.node] \in {"proxy", "splitter", "processor", "writer"}
           /\ IsHeap(q.items) /\ q.apiKeys \in Seq(STRING) /\ q.groups \in Seq(Groups)
           /\ ~Unimplemented(q.node, q.groups) => Acceptable(q.items, q.node, q.groups)
<1> DEFINE S == [kind : ItemKinds, ids : Seq(DOMAIN q.items)]
<1>1. /\ q.node \in Nodes /\ Role[q.node] \in {"proxy", "splitter", "processor", "writer"}
      /\ IsHeap(q.items) /\ q.apiKeys \in Seq(STRING) /\ q.groups \in Seq(S)
      /\ \A g \in DOMAIN q.groups : \A j \in DOMAIN q.groups[g].ids :
            q.items[q.groups[g].ids[j]].kind = q.groups[g].kind
      /\ Role[q.node] = "writer" =>
            \E kind \in {"health", "component"} : q.groups = <<[kind |-> kind, ids |-> <<1>>]>>
      /\ Role[q.node] # "writer" => \A g \in DOMAIN q.groups : q.groups[g].kind \in ReceiverKinds
  BY RequestsAssumption
<1>2. S \subseteq Groups
  <2>1. DOMAIN q.items \subseteq Nat \ {0}
    BY <1>1, HeapFacts
  <2>2. Seq(DOMAIN q.items) \subseteq Seq(Nat \ {0})
    BY <2>1, SeqMonotonic
  <2>. QED
    BY <2>2 DEF Groups
<1>3. q.groups \in Seq(Groups)
  BY <1>1, <1>2, SeqMonotonic
<1>4. ASSUME Role[q.node] # "writer" PROVE q.groups \in Seq(Sendable(q.items))
  <2>1. /\ DOMAIN q.groups = 1 .. Len(q.groups) /\ Len(q.groups) \in Nat
        /\ \A g \in DOMAIN q.groups : q.groups[g] \in S
    BY <1>1, LenProperties, ElementOfSeq
  <2>2. \A g \in DOMAIN q.groups : q.groups[g] \in Sendable(q.items)
    BY <1>1, <1>4, <2>1 DEF Sendable
  <2>3. q.groups = [g \in 1 .. Len(q.groups) |-> q.groups[g]]
    BY <1>1, LenProperties
  <2>4. q.groups \in [1 .. Len(q.groups) -> Sendable(q.items)]
    BY <2>1, <2>2, <2>3
  <2>. QED
    BY <2>1, <2>4, FunctionSeq
<1>5. ASSUME Role[q.node] = "writer" PROVE \E kind \in ReportKind(q.items) : q.groups = Report(kind)
  <2>1. PICK kind \in {"health", "component"} : q.groups = <<[kind |-> kind, ids |-> <<1>>]>>
    BY <1>1, <1>5
  <2>2. /\ Len(q.groups) = 1 /\ q.groups[1] = [kind |-> kind, ids |-> <<1>>] /\ 1 \in DOMAIN q.groups
    BY <2>1
  <2>3. 1 \in DOMAIN q.groups[1].ids /\ q.groups[1].ids[1] = 1 /\ q.groups[1].kind = kind
    BY <2>2
  <2>4. q.groups[1].ids \in Seq(DOMAIN q.items)
    BY <1>1, <2>2, ElementOfSeq
  <2>5. 1 \in DOMAIN q.items
    BY <2>3, <2>4, ElementOfSeq, LenProperties
  <2>6. q.items[1].kind = kind
    BY <1>1, <2>2, <2>3
  <2>. QED
    BY <2>1, <2>5, <2>6 DEF ReportKind, Report, Group
<1>6. ~Unimplemented(q.node, q.groups) => Acceptable(q.items, q.node, q.groups)
  BY <1>1, <1>4, <1>5 DEF Acceptable
<1>. QED
  BY <1>1, <1>3, <1>6

(* The stack of a request that has just been admitted. *)
LEMMA StackOfOne ==
    ASSUME NEW h, IsHeap(h), NEW fr, FrameOK(h, fr), fr.item = None
    PROVE  StackOK(h, fr.node, <<fr>>) /\ <<fr>> # << >>
<1>1. fr \in Frames
  BY FrameType
<1>2. <<fr>> \in Seq(Frames) /\ Len(<<fr>>) = 1 /\ DOMAIN <<fr>> = {1} /\ <<fr>>[1] = fr
  BY <1>1
<1>. QED
  BY <1>2 DEF StackOK

(* The stack with no call under way. *)
LEMMA StackOfNone ==
    ASSUME NEW h, NEW n
    PROVE  StackOK(h, n, << >>)
<1>1. << >> \in Seq(Frames) /\ Len(<< >>) = 0 /\ DOMAIN << >> = {}
  BY EmptySeq
<1>. QED
  BY <1>1 DEF StackOK

-----------------------------------------------------------------------------

(* The invariant holds at the beginning. *)
LEMMA InitTyped ==
    Init => TypeInv
<1> SUFFICES ASSUME Init PROVE TypeInv
  OBVIOUS
<1>1. Fixed
  BY DEF Init, Fixed, KeySets
<1>2. Records
  BY EmptySeq DEF Init, Records
<1>3. IsHeap(heap)
  <2>1. heap = << >> /\ heap \in Seq(Item) /\ DOMAIN heap = {}
    BY EmptySeq DEF Init
  <2>. QED
    BY <2>1 DEF IsHeap
<1>4. StackOK(heap, request.node, stack)
  BY StackOfNone DEF Init
<1>. QED
  BY <1>1, <1>2, <1>3, <1>4, TypeParts DEF Init, Shape

(* The proxy's configuration. *)
LEMMA ConfigTyped ==
    TypeInv /\ (SetConfig \/ \E w \in setting : SetAllowed(w) \/ SetOutput(w)) => TypeInv'
<1> SUFFICES ASSUME TypeInv, SetConfig \/ \E w \in setting : SetAllowed(w) \/ SetOutput(w)
             PROVE  TypeInv'
  OBVIOUS
<1>1. /\ UNCHANGED <<rules, request, pc, looking, heap, stack, answer, due, offers, begun, stopped>>
      /\ Fixed' /\ inForce' \subseteq KeySets
  <2>1. Fixed /\ inForce \subseteq KeySets
    BY TypeParts DEF Records
  <2>2. CASE SetConfig
    BY <2>1, <2>2 DEF SetConfig, Fixed, KeySets, history
  <2>3. CASE \E w \in setting : SetAllowed(w)
    <3>1. PICK w \in setting : SetAllowed(w)
      BY <2>3
    <3>2. w.value \in KeySets
      BY <2>1, <3>1 DEF SetAllowed, Fixed
    <3>. QED
      BY <2>1, <3>1, <3>2 DEF SetAllowed, Fixed
  <2>4. CASE \E w \in setting : SetOutput(w)
    <3>1. PICK w \in setting : SetOutput(w)
      BY <2>4
    <3>2. w.value \in {c.output : c \in Configs}
      BY <2>1, <3>1 DEF SetOutput, Fixed
    <3>. QED
      BY <2>1, <3>1, <3>2 DEF SetOutput, Fixed, history
  <2>. QED
    BY <2>2, <2>3, <2>4
<1>. QED
  BY <1>1 DEF TypeInv, TypeOK, Shape, Fixed

(* A request that comes keeps the invariant. *)
LEMMA ReceiveTyped ==
    ASSUME TypeInv, NEW q \in Requests, Receive(q)
    PROVE  TypeInv'
<1> DEFINE refused == Unimplemented(q.node, q.groups)
           proxied == Role[q.node] = "proxy"
<1>1. /\ request' = q /\ heap' = q.items /\ looking' = q.apiKeys
      /\ pc' = IF refused THEN "idle" ELSE IF proxied THEN "check" ELSE "serve"
      /\ stack' = IF refused \/ proxied THEN << >> ELSE <<Enter(q.node, q.groups)>>
      /\ answer' = IF refused THEN Error ELSE Pending
      /\ inForce' = {allowed} /\ offers' = << >> /\ begun' = {} /\ stopped' = {}
      /\ due' = IF refused \/ proxied THEN 0 ELSE Owed(q.node, q.groups)
      /\ UNCHANGED <<rules, allowed, output, setting>>
  BY DEF Receive, proxyVars
<1>2. /\ q.node \in Nodes /\ Role[q.node] \in {"proxy", "splitter", "processor", "writer"}
      /\ IsHeap(q.items) /\ q.apiKeys \in Seq(STRING) /\ q.groups \in Seq(Groups)
      /\ ~refused => Acceptable(q.items, q.node, q.groups)
  BY RequestFacts
<1>3. Fixed /\ allowed \in KeySets
  BY TypeParts DEF Fixed
<1>4. Fixed'
  BY <1>1, <1>3 DEF Fixed
<1>5. Owed(q.node, q.groups) \in Nat
  BY <1>2, OwedType
<1>6. Records'
  BY <1>1, <1>2, <1>3, <1>5, EmptySeq DEF Records, Results, Error, Result
<1>7. StackOK(q.items, q.node, stack') /\ (pc' = "serve" <=> stack' # << >>)
  <2>1. CASE refused \/ proxied
    BY <1>1, <2>1, StackOfNone
  <2>2. CASE ~refused /\ ~proxied
    <3>1. /\ FrameOK(q.items, Enter(q.node, q.groups))
          /\ Enter(q.node, q.groups).node = q.node /\ Enter(q.node, q.groups).item = None
      BY <1>2, <2>2, Entered
    <3>. QED
      BY <1>1, <1>2, <2>2, <3>1, StackOfOne
  <2>. QED
    BY <2>1, <2>2
<1>8. Acceptable(q.items, q.node, q.groups) => Acceptable(heap', request'.node, request'.groups)
  BY <1>1
<1>9. Shape'
  BY <1>1, <1>2, <1>7, <1>8 DEF Shape
<1>10. pc' \in {"idle", "check", "lookUp", "serve", "panicked"} /\ (pc' = "serve" <=> stack' # << >>)
  BY <1>1, <1>7
<1>11. (TypeInv <=> /\ Fixed /\ Records /\ Shape
                    /\ pc \in {"idle", "check", "lookUp", "serve", "panicked"} /\ (pc = "serve" <=> stack # << >>))'
  BY TypeParts, PTL
<1>. QED
  BY <1>4, <1>6, <1>9, <1>10, <1>11

(* What the entries of an agenda tell of the frame. *)
LEMMA RuleFacts ==
    ASSUME NEW h, IsHeap(h), NEW fr, FrameOK(h, fr), fr.todo # << >>,
           Head(fr.todo).do \in {"rule", "action"}
    PROVE  /\ fr.node \in Nodes /\ Role[fr.node] = "processor" /\ fr.item \in OfKinds(h, RuleKinds)
           /\ fr.item \in DOMAIN h /\ fr.item \in Nat \ {0}
           /\ Tasks(h, fr.node, fr.item) = Singles(h, Range(Outputs[fr.node])) \cup
                                           {Rule(r) : r \in Rules} \cup {Action(a) : a \in Actions}
           /\ Head(fr.todo).do = "rule" => Head(fr.todo).rule \in Rules
           /\ Head(fr.todo).do = "action" => Head(fr.todo).action \in Actions
<1> DEFINE e == Head(fr.todo)
           single(tos) == Singles(h, tos)
<1>1. /\ fr.node \in Nodes /\ e \in Tasks(h, fr.node, fr.item) /\ ItemOf(h, fr.node, fr.item)
      /\ Role[fr.node] \in Roles
  BY TaskFacts, NetworkAssumption DEF FrameOK
<1>2. /\ Range(Outputs[fr.node]) \subseteq Nodes
      /\ \A tos : tos \subseteq Nodes => \A x \in single(tos) : x.do = "call"
  <2>1. \A tos : tos \subseteq Nodes => \A x \in single(tos) : x.do = "call"
    BY SingleFacts
  <2>. QED
    BY <1>1, <2>1, OutputFacts
<1>3. e.do \in {"rule", "action"}
  OBVIOUS
<1>4. {fr.node} \subseteq Nodes
  BY <1>1
<1>5. Role[fr.node] = "processor" /\ fr.item # None
  <2>. HIDE DEF e, single
  <2>1. ASSUME e \in single({fr.node}) \/ e \in single(Range(Outputs[fr.node])) PROVE FALSE
    BY <1>2, <1>3, <1>4, <2>1
  <2>. QED
    BY <1>1, <1>3, <2>1 DEF Tasks, Process, CallsTo, Call, Convert, single
<1>6. /\ fr.item \in OfKinds(h, RuleKinds)
      /\ Tasks(h, fr.node, fr.item) = single(Range(Outputs[fr.node])) \cup
                                      {Rule(r) : r \in Rules} \cup {Action(a) : a \in Actions}
  BY <1>1, <1>5 DEF ItemOf, Tasks
<1>7. (e.do = "rule" => e.rule \in Rules) /\ (e.do = "action" => e.action \in Actions)
  <2>. HIDE DEF single
  <2>1. e \in {Rule(r) : r \in Rules} \cup {Action(a) : a \in Actions}
    BY <1>1, <1>2, <1>3, <1>6
  <2>. QED
    BY <2>1 DEF Rule, Action
<1>8. fr.item \in DOMAIN h /\ fr.item \in Nat \ {0}
  BY <1>6, HeapFacts DEF OfKinds
<1>. QED
  BY <1>1, <1>5, <1>6, <1>7, <1>8

(* Only the call of a processor has items to process. *)
LEMMA ProcessFacts ==
    ASSUME NEW h, IsHeap(h), NEW fr, FrameOK(h, fr), fr.todo # << >>, Head(fr.todo).do = "process"
    PROVE  /\ Role[fr.node] = "processor" /\ fr.item = None
           /\ Head(fr.todo).item \in OfKinds(h, RuleKinds)
<1> DEFINE e == Head(fr.todo)
           single(tos) == Singles(h, tos)
<1>1. /\ fr.node \in Nodes /\ e \in Tasks(h, fr.node, fr.item) /\ e.do = "process"
  BY TaskFacts
<1>2. /\ Range(Outputs[fr.node]) \subseteq Nodes /\ {fr.node} \subseteq Nodes
      /\ \A tos : tos \subseteq Nodes => \A x \in single(tos) : x.do = "call"
  <2>1. \A tos : tos \subseteq Nodes => \A x \in single(tos) : x.do = "call"
    BY SingleFacts
  <2>. QED
    BY <1>1, <2>1, OutputFacts
<1>. HIDE DEF e, single
<1>3. e \notin single({fr.node}) /\ e \notin single(Range(Outputs[fr.node]))
  BY <1>1, <1>2
<1>4. Role[fr.node] = "processor" /\ fr.item = None /\ e \in {Process(j) : j \in OfKinds(h, RuleKinds)}
  BY <1>1, <1>3 DEF Tasks, Process, CallsTo, Call, Convert, Rule, Action, single
<1>5. e.item \in OfKinds(h, RuleKinds)
  BY <1>4 DEF Process
<1>. QED
  BY <1>4, <1>5 DEF e

(* Only a Zenoss destination converts metrics. *)
LEMMA ConvertFacts ==
    ASSUME NEW h, IsHeap(h), NEW fr, FrameOK(h, fr), fr.todo # << >>, Head(fr.todo).do = "convert"
    PROVE  /\ fr.node \in Nodes /\ Role[fr.node] = "zenoss"
           /\ Head(fr.todo).ids \in Seq(OfKinds(h, {"metric"}))
           /\ CallsTo(h, Range(Outputs[fr.node])) \subseteq Tasks(h, fr.node, fr.item)
<1> DEFINE e == Head(fr.todo)
           single(tos) == Singles(h, tos)
<1>1. /\ fr.node \in Nodes /\ e \in Tasks(h, fr.node, fr.item) /\ e.do = "convert"
  BY TaskFacts
<1>2. /\ Range(Outputs[fr.node]) \subseteq Nodes /\ {fr.node} \subseteq Nodes
      /\ \A tos : tos \subseteq Nodes => \A x \in single(tos) : x.do = "call"
  <2>1. \A tos : tos \subseteq Nodes => \A x \in single(tos) : x.do = "call"
    BY SingleFacts
  <2>. QED
    BY <1>1, <2>1, OutputFacts
<1>. HIDE DEF e, single
<1>3. e \notin single({fr.node}) /\ e \notin single(Range(Outputs[fr.node]))
  BY <1>1, <1>2
<1>4. Role[fr.node] = "zenoss" /\ e \in {Convert(ids) : ids \in Seq(OfKinds(h, {"metric"}))}
  BY <1>1, <1>3 DEF Tasks, Process, CallsTo, Call, Convert, Rule, Action, single
<1>5. e.ids \in Seq(OfKinds(h, {"metric"}))
  BY <1>4 DEF Convert
<1>6. CallsTo(h, Range(Outputs[fr.node])) \subseteq Tasks(h, fr.node, fr.item)
  BY <1>4 DEF Tasks
<1>. QED
  BY <1>1, <1>4, <1>5, <1>6 DEF e

(* The rules of an item, and the call that sends it. *)
LEMMA ItemAgendaType ==
    ASSUME rules \in RuleSets, NEW h, NEW n \in Nodes, Role[n] = "processor",
           NEW i \in OfKinds(h, RuleKinds), i # None
    PROVE  ItemAgenda(n, i, h[i].kind) \in Seq(Tasks(h, n, i))
<1> DEFINE kind == h[i].kind
           own == rules[n][kind]
           T == Tasks(h, n, i)
<1>1. kind \in RuleKinds /\ i \in DOMAIN h
  BY DEF OfKinds
<1>2. own \in Seq(Rules)
  BY <1>1, RulesAssumption
<1>3. T = Singles(h, Range(Outputs[n])) \cup {Rule(r) : r \in Rules} \cup {Action(a) : a \in Actions}
  BY DEF Tasks
<1>4. Call(Outputs[n][1], <<Group(kind, <<i>>)>>) \in T
  <2>1. Group(kind, <<i>>) \in Sendable(h)
    BY <1>1 DEF Group, Sendable, RuleKinds, ReceiverKinds
  <2>2. Outputs[n][1] \in Range(Outputs[n])
    BY OutputFacts
  <2>. QED
    BY <1>3, <2>1, <2>2 DEF Singles
<1>5. [k \in DOMAIN own |-> Rule(own[k])] \in Seq(T)
  <2>1. DOMAIN own = 1 .. Len(own) /\ Len(own) \in Nat /\ \A k \in DOMAIN own : own[k] \in Rules
    BY <1>2, LenProperties, ElementOfSeq
  <2>2. [k \in 1 .. Len(own) |-> Rule(own[k])] \in [1 .. Len(own) -> T]
    BY <1>3, <2>1
  <2>. HIDE DEF own, T
  <2>. QED
    BY <2>1, <2>2, FunctionSeq
<1>6. <<Call(Outputs[n][1], <<Group(kind, <<i>>)>>)>> \in Seq(T)
  <2>. HIDE DEF T
  <2>. QED
    BY <1>4
<1>. HIDE DEF T
<1>. QED
  BY <1>5, <1>6, ConcatProperties DEF ItemAgenda, own, T

-----------------------------------------------------------------------------

(* What all steps of a call leave alone, and what remains to be shown of one. *)
LEMMA StepTyped ==
    ASSUME TypeInv, UNCHANGED <<rules, allowed, output, setting, request, looking, inForce>>,
           answer' \in Results \cup {Pending}, due' \in Nat, offers' \in Seq(Offers),
           begun' \subseteq Nodes \X (Nat \ {0}), stopped' \subseteq Nodes \X (Nat \ {0}),
           IsHeap(heap'), StackOK(heap', request.node, stack'),
           pc' \in {"idle", "serve"}, pc' = "serve" <=> stack' # << >>
    PROVE  TypeInv'
<1>1. Fixed /\ looking \in Seq(STRING) /\ inForce \subseteq KeySets
  BY TypeParts DEF Records
<1>2. Fixed'
  BY <1>1 DEF Fixed
<1>3. Records'
  BY <1>1 DEF Records
<1>4. Shape'
  BY DEF Shape
<1>5. pc' \in {"idle", "check", "lookUp", "serve", "panicked"} /\ (pc' = "serve" <=> stack' # << >>)
  OBVIOUS
<1>6. (TypeInv <=> /\ Fixed /\ Records /\ Shape
                   /\ pc \in {"idle", "check", "lookUp", "serve", "panicked"} /\ (pc = "serve" <=> stack # << >>))'
  BY TypeParts, PTL
<1>. QED
  BY <1>2, <1>3, <1>4, <1>5, <1>6

(* Changing the frame on top keeps the stack as it should be. *)
LEMMA TopReplaced ==
    ASSUME TypeInv, pc = "serve", NEW h, IsHeap(h), Grows(heap, h),
           NEW fr, FrameOK(h, fr), fr.node = Top.node, fr.item = Top.item
    PROVE  StackOK(h, request.node, ReplaceTop(fr)) /\ ReplaceTop(fr) # << >>
<1>1. IsHeap(heap) /\ StackOK(heap, request.node, stack) /\ stack # << >> /\ Top = Last(stack)
  BY ServeFacts DEF Top
<1>2. StackOK(h, request.node, stack)
  BY <1>1, StackGrows
<1>3. StackOK(h, request.node, Append(Front(stack), fr))
  BY <1>1, <1>2, StackReplaced
<1>4. Front(stack) \in Seq(Frames) /\ fr \in Frames
  BY <1>1, FrontLast, FrameType DEF StackOK
<1>5. Append(Front(stack), fr) # << >>
  BY <1>4, AppendProperties, EmptySeq
<1>. QED
  BY <1>3, <1>5 DEF ReplaceTop

(* So does a call by the frame on top. *)
LEMMA TopPushed ==
    ASSUME TypeInv, pc = "serve", NEW h, IsHeap(h), Grows(heap, h),
           NEW fr, FrameOK(h, fr), Linked(Top, fr)
    PROVE  StackOK(h, request.node, Append(stack, fr)) /\ Append(stack, fr) # << >>
<1>1. IsHeap(heap) /\ StackOK(heap, request.node, stack) /\ stack # << >> /\ Top = Last(stack)
  BY ServeFacts DEF Top
<1>2. StackOK(h, request.node, stack)
  BY <1>1, StackGrows
<1>3. StackOK(h, request.node, Append(stack, fr))
  BY <1>1, <1>2, StackPushed
<1>4. stack \in Seq(Frames) /\ fr \in Frames
  BY <1>1, FrameType DEF StackOK
<1>5. Append(stack, fr) # << >>
  BY <1>4, AppendProperties, EmptySeq
<1>. QED
  BY <1>3, <1>5

(* So does going on with other things to do. *)
LEMMA Proceeded ==
    ASSUME TypeInv, pc = "serve", Top.todo # << >>, NEW h, IsHeap(h), Grows(heap, h),
           NEW todo \in Seq(Tasks(h, Top.node, Top.item))
    PROVE  /\ StackOK(h, request.node, ReplaceTop([Top EXCEPT !.todo = todo]))
           /\ ReplaceTop([Top EXCEPT !.todo = todo]) # << >>
<1>1. IsHeap(heap) /\ FrameOK(heap, Top) /\ ~Top.error
  BY ServeFacts
<1>2. FrameOK(h, Top)
  BY <1>1, FrameGrows
<1>3. /\ FrameOK(h, [Top EXCEPT !.todo = todo])
      /\ [Top EXCEPT !.todo = todo].node = Top.node /\ [Top EXCEPT !.todo = todo].item = Top.item
  BY <1>1, <1>2, FrameWith
<1>. QED
  BY <1>3, TopReplaced

(* So does taking a result. *)
LEMMA Answers ==
    ASSUME TypeInv, pc = "serve", Top.todo # << >>, NEW r \in Results
    PROVE  StackOK(heap, request.node, Deliver(stack, r)) /\ Deliver(stack, r) # << >>
<1>1. IsHeap(heap) /\ FrameOK(heap, Top) /\ Grows(heap, heap)
  BY ServeFacts, KeepsItself DEF Keeps
<1>2. FrameOK(heap, Took(Top, r)) /\ Took(Top, r).node = Top.node /\ Took(Top, r).item = Top.item
  BY <1>1, TookFrame
<1>3. Deliver(stack, r) = ReplaceTop(Took(Top, r))
  BY DEF Deliver, ReplaceTop, Top
<1>. QED
  BY <1>1, <1>2, <1>3, TopReplaced

(* The keys of a request to the proxy. *)
LEMMA KeysTyped ==
    TypeInv /\ (CheckAPIKey \/ LookUpAPIKey) => TypeInv'
<1> SUFFICES ASSUME TypeInv, CheckAPIKey \/ LookUpAPIKey PROVE TypeInv'
  OBVIOUS
<1>1. /\ Fixed /\ Records /\ Shape /\ stack = << >> /\ pc \in {"check", "lookUp"}
      /\ UNCHANGED <<rules, allowed, output, setting, request, heap, inForce, due, offers, begun,
                     stopped>>
  BY TypeParts DEF CheckAPIKey, LookUpAPIKey, proxyVars, history
<1>2. Role[request.node] = "proxy" /\ Acceptable(heap, request.node, request.groups) /\ IsHeap(heap)
  BY <1>1 DEF Shape
<1>3. /\ looking' \in Seq(STRING) /\ answer' \in Results \cup {Pending}
      /\ \/ pc' = "serve" /\ stack' = <<Enter(request.node, request.groups)>>
         \/ pc' = "idle" /\ stack' = << >>
         \/ pc' = "lookUp" /\ stack' = << >> /\ looking' # << >>
  <2>1. looking \in Seq(STRING) /\ answer \in Results \cup {Pending} /\ Error \in Results
    BY <1>1 DEF Records, Error, Result, Results
  <2>2. CASE CheckAPIKey
    BY <1>1, <2>1, <2>2 DEF CheckAPIKey, Admit, Refuse
  <2>3. CASE LookUpAPIKey
    <3>1. pc = "lookUp" /\ looking # << >>
      BY <1>1, <2>3 DEF LookUpAPIKey, Shape
    <3>2. Tail(looking) \in Seq(STRING)
      BY <2>1, <3>1, HeadTailProperties
    <3>. QED
      BY <1>1, <2>1, <2>3, <3>1, <3>2 DEF LookUpAPIKey, Admit, Refuse
  <2>. QED
    BY <2>2, <2>3
<1>4. StackOK(heap, request.node, stack') /\ (pc' = "serve" <=> stack' # << >>)
  <2>1. CASE stack' = << >> /\ pc' # "serve"
    BY <2>1, StackOfNone
  <2>2. CASE pc' = "serve" /\ stack' = <<Enter(request.node, request.groups)>>
    <3>1. /\ FrameOK(heap, Enter(request.node, request.groups))
          /\ Enter(request.node, request.groups).node = request.node
          /\ Enter(request.node, request.groups).item = None
      BY <1>2, Entered
    <3>. QED
      BY <1>2, <2>2, <3>1, StackOfOne
  <2>. QED
    BY <1>3, <2>1, <2>2
<1>5. Acceptable(heap', request'.node, request'.groups)
  BY <1>1, <1>2
<1>6. Shape'
  BY <1>1, <1>2, <1>3, <1>4, <1>5 DEF Shape
<1>7. Fixed' /\ Records'
  BY <1>1, <1>3 DEF Fixed, Records
<1>8. pc' \in {"idle", "check", "lookUp", "serve", "panicked"} /\ (pc' = "serve" <=> stack' # << >>)
  BY <1>3, <1>4
<1>9. (TypeInv <=> /\ Fixed /\ Records /\ Shape
                   /\ pc \in {"idle", "check", "lookUp", "serve", "panicked"} /\ (pc = "serve" <=> stack # << >>))'
  BY TypeParts, PTL
<1>. QED
  BY <1>6, <1>7, <1>8, <1>9

-----------------------------------------------------------------------------
(* Calls. *)

(* What is due stays a number. *)
LEMMA DueType ==
    ASSUME TypeInv, Doing("call")
    PROVE  Due \in Nat
<1>1. Owed(Target, Entry.groups) \in Nat
  BY CallFacts, OwedType
<1>2. due \in Nat
  BY DEF TypeInv, TypeOK
<1>. QED
  BY <1>1, <1>2 DEF Due

(* What a call enters is made for the one below it. *)
LEMMA EnteredCall ==
    ASSUME TypeInv, Doing("call"), Role[Target] # "endpoint", ~Unimplemented(Target, Entry.groups)
    PROVE  LET fr == Enter(Target, Entry.groups)
               h  == EnterHeap(Target, Entry.groups)
           IN  IsHeap(h) /\ Keeps(heap, h) /\ FrameOK(h, fr) /\ Linked(Top, fr) /\ fr.node = Target
<1> DEFINE fr == Enter(Target, Entry.groups)
           h  == EnterHeap(Target, Entry.groups)
<1>1. /\ pc = "serve" /\ Top.todo # << >> /\ Head(Top.todo).do = "call"
      /\ \/ Target = Head(Top.todo).to
         \/ Role[Top.node] = "proxy" /\ Target \in Receivers
      /\ Acceptable(heap, Target, Entry.groups)
  BY CallFacts
<1>2. IsHeap(heap)
  BY <1>1, ServeFacts
<1>3. /\ IsHeap(h) /\ Keeps(heap, h) /\ FrameOK(h, fr) /\ fr.node = Target
      /\ (fr.item = None \/ Role[Target] = "zenoss")
  <2>1. CASE Role[Target] = "zenoss"
    BY <1>1, <1>2, <2>1, EnteredZenoss
  <2>2. CASE Role[Target] # "zenoss"
    BY <1>1, <1>2, <2>2, Entered, KeepsItself DEF EnterHeap
  <2>. QED
    BY <2>1, <2>2
<1>. HIDE DEF fr, h
<1>4. Linked(Top, fr)
  BY <1>1, <1>3 DEF Linked
<1>. QED
  BY <1>3, <1>4 DEF fr, h

(* A call keeps the invariant. *)
LEMMA CallOutputTyped ==
    TypeInv /\ CallOutput => TypeInv'
<1> SUFFICES ASSUME TypeInv, CallOutput PROVE TypeInv'
  OBVIOUS
<1> DEFINE fr == Enter(Target, Entry.groups)
           h  == EnterHeap(Target, Entry.groups)
<1>1. /\ Doing("call") /\ Role[Target] # "endpoint" /\ ~Unimplemented(Target, Entry.groups)
      /\ stack' = Append(stack, fr) /\ heap' = h /\ due' = Due
      /\ UNCHANGED <<rules, allowed, output, setting, request, pc, looking, answer, inForce, offers,
                     begun, stopped>>
  BY DEF CallOutput, proxyVars
<1>2. /\ IsHeap(h) /\ Grows(heap, h) /\ FrameOK(h, fr) /\ Linked(Top, fr) /\ Due \in Nat /\ pc = "serve"
  BY <1>1, EnteredCall, DueType DEF Keeps, Doing
<1>. HIDE DEF fr, h
<1>3. StackOK(h, request.node, Append(stack, fr)) /\ Append(stack, fr) # << >>
  BY <1>2, TopPushed
<1>4. Records
  BY TypeParts
<1>. QED
  BY <1>1, <1>2, <1>3, <1>4, StepTyped DEF Records

(* So does one that is not implemented. *)
LEMMA CallUnimplementedTyped ==
    TypeInv /\ CallUnimplemented => TypeInv'
<1> SUFFICES ASSUME TypeInv, CallUnimplemented PROVE TypeInv'
  OBVIOUS
<1>1. /\ Doing("call") /\ stack' = Deliver(stack, Error) /\ due' = Due
      /\ UNCHANGED <<rules, allowed, output, setting, request, pc, looking, heap, answer, inForce,
                     offers, begun, stopped>>
  BY DEF CallUnimplemented, proxyVars
<1>2. Due \in Nat /\ pc = "serve" /\ Top.todo # << >> /\ Error \in Results /\ IsHeap(heap)
  BY <1>1, DueType, ServeFacts DEF Doing, Error, Result, Results
<1>3. StackOK(heap, request.node, Deliver(stack, Error)) /\ Deliver(stack, Error) # << >>
  BY <1>2, Answers
<1>4. Records
  BY TypeParts
<1>. QED
  BY <1>1, <1>2, <1>3, <1>4, StepTyped DEF Records

(* What an endpoint answers, and which of the items it is given it takes. *)
LEMMA EndpointSteps ==
    ASSUME TypeInv, CallEndpoint
    PROVE  /\ Doing("call") /\ Role[Target] = "endpoint" /\ due' = Due
           /\ UNCHANGED <<rules, allowed, output, setting, request, pc, looking, heap, answer,
                          inForce, begun, stopped>>
           /\ Entry.groups \in Seq(Sendable(heap)) /\ Count(Entry.groups) \in Nat
           /\ \E fates \in [1 .. Count(Entry.groups) -> Fates], r \in Results :
                 /\ offers' = offers \o Given(Target, Entry.groups, fates)
                 /\ stack' = Deliver(stack, r)
                 /\ \/ /\ fates = [j \in 1 .. Count(Entry.groups) |-> "error"]
                       /\ r = Error
                    \/ \E k, h \in Nat :
                          /\ k + h <= Count(Entry.groups)
                          /\ fates = [j \in 1 .. Count(Entry.groups) |-> Fate(j, k, h)]
                          /\ r = Result(FALSE, Count(Entry.groups) - k - h, k, h)
<1>1. /\ Doing("call") /\ Role[Target] = "endpoint" /\ due' = Due
      /\ UNCHANGED <<rules, allowed, output, setting, request, pc, looking, heap, answer,
                     inForce, begun, stopped>>
  BY DEF CallEndpoint, proxyVars
<1>2. Entry.groups \in Seq(Sendable(heap)) /\ Entry.groups \in Seq(Groups)
  BY <1>1, CallFacts
<1> DEFINE n == Count(Entry.groups)
<1>3. n \in Nat
  BY <1>2, CountType
<1>4. \/ /\ offers' = offers \o Given(Target, Entry.groups, [j \in 1 .. n |-> "error"])
         /\ stack' = Deliver(stack, Error)
      \/ \E k, h \in Nat :
            /\ k + h <= n
            /\ offers' = offers \o Given(Target, Entry.groups, [j \in 1 .. n |-> Fate(j, k, h)])
            /\ stack' = Deliver(stack, Result(FALSE, n - k - h, k, h))
  <2>1. \A k \in 0 .. n : \A h \in 0 .. n - k : k \in Nat /\ h \in Nat /\ k + h <= n
    <3>. HIDE DEF n
    <3>. QED
      BY <1>3
  <2>. QED
    BY <2>1 DEF CallEndpoint
<1> DEFINE Step(fates, r) ==
               /\ offers' = offers \o Given(Target, Entry.groups, fates)
               /\ stack' = Deliver(stack, r)
               /\ \/ /\ fates = [j \in 1 .. n |-> "error"]
                     /\ r = Error
                  \/ \E k, h \in Nat :
                        /\ k + h <= n
                        /\ fates = [j \in 1 .. n |-> Fate(j, k, h)]
                        /\ r = Result(FALSE, n - k - h, k, h)
<1>. HIDE DEF n
<1>5. \E fates \in [1 .. n -> Fates], r \in Results : Step(fates, r)
  <2>1. CASE /\ offers' = offers \o Given(Target, Entry.groups, [j \in 1 .. n |-> "error"])
             /\ stack' = Deliver(stack, Error)
    <3>1. [j \in 1 .. n |-> "error"] \in [1 .. n -> Fates] /\ Error \in Results
      BY DEF Fates, Error, Result, Results
    <3>. QED
      BY <2>1, <3>1
  <2>2. ASSUME NEW k \in Nat, NEW h \in Nat, k + h <= n,
               offers' = offers \o Given(Target, Entry.groups, [j \in 1 .. n |-> Fate(j, k, h)]),
               stack' = Deliver(stack, Result(FALSE, n - k - h, k, h))
        PROVE  \E fates \in [1 .. n -> Fates], r \in Results : Step(fates, r)
    <3> DEFINE fates == [j \in 1 .. n |-> Fate(j, k, h)]
    <3>1. fates \in [1 .. n -> Fates] /\ Result(FALSE, n - k - h, k, h) \in Results
      BY <1>3, <2>2 DEF Fate, Fates, Result, Results
    <3>2. Step(fates, Result(FALSE, n - k - h, k, h))
      BY <2>2
    <3>. HIDE DEF Step, fates
    <3>. QED
      BY <3>1, <3>2
  <2>. QED
    BY <1>4, <2>1, <2>2
<1>. QED
  BY <1>1, <1>2, <1>3, <1>5 DEF n

(* A call of an endpoint keeps the invariant. *)
LEMMA CallEndpointTyped ==
    TypeInv /\ CallEndpoint => TypeInv'
<1> SUFFICES ASSUME TypeInv, CallEndpoint PROVE TypeInv'
  OBVIOUS
<1>1. /\ Doing("call") /\ due' = Due
      /\ UNCHANGED <<rules, allowed, output, setting, request, pc, looking, heap, answer, inForce,
                     begun, stopped>>
      /\ Entry.groups \in Seq(Sendable(heap))
  BY EndpointSteps
<1>2. PICK fates \in [1 .. Count(Entry.groups) -> Fates], r \in Results :
         offers' = offers \o Given(Target, Entry.groups, fates) /\ stack' = Deliver(stack, r)
  BY EndpointSteps
<1>3. Due \in Nat /\ pc = "serve" /\ Top.todo # << >> /\ IsHeap(heap) /\ Target \in Nodes
  BY <1>1, DueType, ServeFacts, CallFacts DEF Doing
<1>4. StackOK(heap, request.node, Deliver(stack, r)) /\ Deliver(stack, r) # << >>
  BY <1>3, Answers
<1>5. Records
  BY TypeParts
<1>6. Given(Target, Entry.groups, fates) \in Seq(Offers)
  BY <1>1, <1>3, GivenFacts
<1>7. offers' \in Seq(Offers)
  BY <1>2, <1>5, <1>6, ConcatProperties DEF Records
<1>. QED
  BY <1>1, <1>2, <1>3, <1>4, <1>5, <1>7, StepTyped DEF Records

(* A call that returns, and the one it returns to. *)
LEMMA ReturnFacts ==
    ASSUME TypeInv, Return
    PROVE  LET r == IF Top.item = None THEN Result(FALSE, Top.failed, Top.succeeded, Top.held)
                                       ELSE Result(Top.error, 0, 1, 0)
               caller == Last(Front(stack))
           IN  /\ pc = "serve" /\ Top.todo = << >> /\ r \in Results
               /\ UNCHANGED <<rules, allowed, output, setting, request, looking, heap, inForce, due,
                              offers, begun>>
               /\ IF Len(stack) = 1
                  THEN pc' = "idle" /\ stack' = << >> /\ answer' = r /\ UNCHANGED stopped
                  ELSE /\ stack' = Deliver(Front(stack), r)
                       /\ stopped' = IF r.error /\ Head(caller.todo).do = "action"
                                     THEN stopped \cup {<<caller.node, caller.item>>} ELSE stopped
                       /\ UNCHANGED <<pc, answer>>
                       /\ caller = stack[Len(stack) - 1] /\ Len(stack) - 1 \in DOMAIN stack
                       /\ FrameOK(heap, caller) /\ Linked(caller, Top)
                       /\ StackOK(heap, request.node, Front(stack)) /\ Front(stack) # << >>
<1> DEFINE r == IF Top.item = None THEN Result(FALSE, Top.failed, Top.succeeded, Top.held)
                                   ELSE Result(Top.error, 0, 1, 0)
           caller == Last(Front(stack))
<1>1. pc = "serve" /\ Top.todo = << >>
  BY DEF Return
<1>2. /\ IsHeap(heap) /\ FrameOK(heap, Top) /\ StackOK(heap, request.node, stack) /\ stack # << >>
  BY <1>1, ServeFacts
<1>3. r \in Results
  BY <1>2 DEF FrameOK, Result, Results
<1>4. Len(stack) # 1 =>
         /\ caller = stack[Len(stack) - 1] /\ Len(stack) - 1 \in DOMAIN stack
         /\ FrameOK(heap, caller) /\ Linked(caller, Top)
         /\ StackOK(heap, request.node, Front(stack)) /\ Front(stack) # << >>
  BY <1>2, StackPopped DEF Top
<1>5. /\ UNCHANGED <<rules, allowed, output, setting, request, looking, heap, inForce, due,
                     offers, begun>>
      /\ IF Len(stack) = 1
         THEN pc' = "idle" /\ stack' = << >> /\ answer' = r /\ UNCHANGED stopped
         ELSE /\ stack' = Deliver(Front(stack), r)
              /\ stopped' = IF r.error /\ Head(caller.todo).do = "action"
                            THEN stopped \cup {<<caller.node, caller.item>>} ELSE stopped
              /\ UNCHANGED <<pc, answer>>
  BY DEF Return, proxyVars
<1>. HIDE DEF r, caller
<1>6. IF Len(stack) = 1
      THEN pc' = "idle" /\ stack' = << >> /\ answer' = r /\ UNCHANGED stopped
      ELSE /\ stack' = Deliver(Front(stack), r)
           /\ stopped' = IF r.error /\ Head(caller.todo).do = "action"
                         THEN stopped \cup {<<caller.node, caller.item>>} ELSE stopped
           /\ UNCHANGED <<pc, answer>>
           /\ caller = stack[Len(stack) - 1] /\ Len(stack) - 1 \in DOMAIN stack
           /\ FrameOK(heap, caller) /\ Linked(caller, Top)
           /\ StackOK(heap, request.node, Front(stack)) /\ Front(stack) # << >>
  BY <1>4, <1>5
<1>. QED
  BY <1>1, <1>3, <1>5, <1>6 DEF r, caller

(* The return of a call keeps the invariant. *)
LEMMA ReturnTyped ==
    TypeInv /\ Return => TypeInv'
<1> SUFFICES ASSUME TypeInv, Return PROVE TypeInv'
  OBVIOUS
<1> DEFINE r == IF Top.item = None THEN Result(FALSE, Top.failed, Top.succeeded, Top.held)
                                   ELSE Result(Top.error, 0, 1, 0)
           caller == Last(Front(stack))
<1>1. /\ pc = "serve" /\ r \in Results
      /\ UNCHANGED <<rules, allowed, output, setting, request, looking, heap, inForce, due,
                     offers, begun>>
      /\ IF Len(stack) = 1
         THEN pc' = "idle" /\ stack' = << >> /\ answer' = r /\ UNCHANGED stopped
         ELSE /\ stack' = Deliver(Front(stack), r)
              /\ stopped' = IF r.error /\ Head(caller.todo).do = "action"
                            THEN stopped \cup {<<caller.node, caller.item>>} ELSE stopped
              /\ UNCHANGED <<pc, answer>>
              /\ FrameOK(heap, caller) /\ Linked(caller, Top)
              /\ StackOK(heap, request.node, Front(stack)) /\ Front(stack) # << >>
  BY ReturnFacts
<1>. HIDE DEF r
<1>2. Records /\ IsHeap(heap)
  BY <1>1, TypeParts, ServeFacts
<1>3. CASE Len(stack) = 1
  <2>1. StackOK(heap, request.node, << >>)
    BY StackOfNone
  <2>. QED
    BY <1>1, <1>2, <1>3, <2>1, StepTyped DEF Records
<1>4. CASE Len(stack) # 1
  <2>1. caller.todo # << >>
    BY <1>1, <1>4 DEF Linked
  <2>2. FrameOK(heap, Took(caller, r)) /\ Took(caller, r).node = caller.node /\ Took(caller, r).item = caller.item
    BY <1>1, <1>2, <1>4, <2>1, TookFrame
  <2>3. StackOK(heap, request.node, Append(Front(Front(stack)), Took(caller, r)))
    BY <1>1, <1>2, <1>4, <2>2, StackReplaced
  <2>4. Append(Front(Front(stack)), Took(caller, r)) # << >>
    <3>1. Front(stack) \in Seq(Frames) /\ Took(caller, r) \in Frames
      BY <1>1, <1>2, <1>4, <2>2, FrameType DEF StackOK
    <3>2. Front(Front(stack)) \in Seq(Frames)
      BY <1>1, <1>4, <3>1, FrontLast
    <3>. QED
      BY <3>1, <3>2, AppendProperties, EmptySeq
  <2>5. stack' = Append(Front(Front(stack)), Took(caller, r))
    BY <1>1, <1>4 DEF Deliver
  <2>6. stopped' \subseteq Nodes \X (Nat \ {0})
    <3>1. stopped \subseteq Nodes \X (Nat \ {0})
      BY <1>2 DEF Records
    <3>2. Head(caller.todo).do = "action" => caller.node \in Nodes /\ caller.item \in Nat \ {0}
      BY <1>1, <1>2, <1>4, <2>1, RuleFacts
    <3>. HIDE DEF caller
    <3>. QED
      BY <1>1, <1>4, <3>1, <3>2
  <2>7. StackOK(heap, request.node, stack') /\ stack' # << >>
    BY <2>3, <2>4, <2>5
  <2>. HIDE DEF caller
  <2>. QED
    BY <1>1, <1>2, <1>4, <2>6, <2>7, StepTyped DEF Records
<1>. QED
  BY <1>3, <1>4

(* Processors and Zenoss destinations. *)

(* A processor that begins with an item has its frame on the stack. *)
LEMMA ItemBegun ==
    ASSUME TypeInv, pc = "serve", Top.todo # << >>, Head(Top.todo).do \in {"process", "action"},
           Role[Top.node] = "processor", NEW h, IsHeap(h), Grows(heap, h), NEW i \in OfKinds(h, RuleKinds),
           stack' = Append(stack, Frame(Top.node, i, ItemAgenda(Top.node, i, h[i].kind))),
           begun' = begun \cup {<<Top.node, i>>}
    PROVE  /\ StackOK(h, request.node, stack') /\ stack' # << >>
           /\ begun' \subseteq Nodes \X (Nat \ {0})
<1> DEFINE fr == Frame(Top.node, i, ItemAgenda(Top.node, i, h[i].kind))
<1>1. /\ Top.node \in Nodes /\ rules \in RuleSets /\ begun \subseteq Nodes \X (Nat \ {0})
      /\ i \in Nat \ {0} /\ i # None
  BY ServeFacts, HeapFacts DEF OfKinds, None, TypeInv, TypeOK
<1>2. ItemAgenda(Top.node, i, h[i].kind) \in Seq(Tasks(h, Top.node, i))
  BY <1>1, ItemAgendaType
<1>3. ItemOf(h, Top.node, i)
  BY DEF ItemOf
<1>4. FrameOK(h, fr)
  <2>. HIDE DEF ItemOf
  <2>. QED
    BY <1>1, <1>2, <1>3, FreshFrame
<1>5. Linked(Top, fr)
  BY <1>1 DEF Linked, Frame
<1>. HIDE DEF fr
<1>6. StackOK(h, request.node, Append(stack, fr)) /\ Append(stack, fr) # << >>
  BY <1>4, <1>5, TopPushed
<1>. QED
  BY <1>1, <1>6 DEF fr

(* Taking an item keeps the invariant. *)
LEMMA TakeItemTyped ==
    TypeInv /\ TakeItem => TypeInv'
<1> SUFFICES ASSUME TypeInv, TakeItem PROVE TypeInv'
  OBVIOUS
<1>1. /\ Doing("process") /\ Entry = Head(Top.todo)
      /\ stack' = Append(stack, Frame(Top.node, Entry.item,
                                      ItemAgenda(Top.node, Entry.item, heap[Entry.item].kind)))
      /\ begun' = begun \cup {<<Top.node, Entry.item>>}
      /\ UNCHANGED <<rules, allowed, output, setting, request, pc, looking, heap, answer, inForce, due,
                     offers, stopped>>
  BY DEF TakeItem, ProcessItem, proxyVars, Entry
<1>2. pc = "serve" /\ Top.todo # << >> /\ Head(Top.todo).do = "process"
  BY <1>1 DEF Doing
<1>3. IsHeap(heap) /\ FrameOK(heap, Top) /\ Grows(heap, heap) /\ Records
  BY <1>2, ServeFacts, KeepsItself, TypeParts DEF Keeps
<1>4. Role[Top.node] = "processor" /\ Entry.item \in OfKinds(heap, RuleKinds)
  BY <1>1, <1>2, <1>3, ProcessFacts
<1>5. /\ StackOK(heap, request.node, stack') /\ stack' # << >>
      /\ begun' \subseteq Nodes \X (Nat \ {0})
  BY <1>1, <1>2, <1>3, <1>4, ItemBegun
<1>. QED
  BY <1>1, <1>2, <1>3, <1>5, StepTyped DEF Records

(* What a rule or an action is done on. *)
LEMMA RuleSteps ==
    ASSUME TypeInv, Doing("rule") \/ Doing("action")
    PROVE  /\ pc = "serve" /\ Top.todo # << >> /\ IsHeap(heap) /\ Grows(heap, heap) /\ Records
           /\ Top.node \in Nodes /\ Role[Top.node] = "processor"
           /\ Top.item \in OfKinds(heap, RuleKinds) /\ Top.item \in DOMAIN heap
           /\ Top.item \in Nat \ {0}
           /\ {Rule(r) : r \in Rules} \cup {Action(a) : a \in Actions} \subseteq
                  Tasks(heap, Top.node, Top.item)
           /\ Doing("rule") => Entry.rule \in Rules
           /\ Doing("action") => Entry.action \in Actions
           /\ Tail(Top.todo) \in Seq(Tasks(heap, Top.node, Top.item))
           /\ Last(Top.todo) \in Tasks(heap, Top.node, Top.item)
           /\ FrameOK(heap, Top)
<1>1. pc = "serve" /\ Top.todo # << >> /\ Entry = Head(Top.todo) /\ Entry.do \in {"rule", "action"}
  BY DEF Doing, Entry
<1>2. /\ IsHeap(heap) /\ FrameOK(heap, Top) /\ Grows(heap, heap) /\ Records
      /\ Top.todo \in Seq(Tasks(heap, Top.node, Top.item))
      /\ Tail(Top.todo) \in Seq(Tasks(heap, Top.node, Top.item))
  BY <1>1, ServeFacts, KeepsItself, TypeParts DEF Keeps
<1>3. Last(Top.todo) \in Tasks(heap, Top.node, Top.item)
  BY <1>1, <1>2, FrontLast
<1>. QED
  BY <1>1, <1>2, <1>3, RuleFacts DEF Doing

(* Applying a rule keeps the invariant. *)
LEMMA ApplyRuleTyped ==
    TypeInv /\ ApplyRule => TypeInv'
<1> SUFFICES ASSUME TypeInv, ApplyRule PROVE TypeInv'
  OBVIOUS
<1> DEFINE r == Entry.rule
           T == Tasks(heap, Top.node, Top.item)
           acts == [k \in DOMAIN r.actions |-> Action(r.actions[k])]
           subs == [k \in DOMAIN r.rules |-> Rule(r.rules[k])]
           todo == IF Applies(heap, Top.item, r) THEN acts \o subs \o Tail(Top.todo)
                                                 ELSE Tail(Top.todo)
<1>1. /\ Doing("rule") /\ stack' = ReplaceTop([Top EXCEPT !.todo = todo])
      /\ UNCHANGED <<rules, allowed, output, setting, request, pc, looking, heap, answer, inForce, due,
                     offers, begun, stopped>>
  BY DEF ApplyRule, Proceed, proxyVars, history
<1>2. /\ pc = "serve" /\ Top.todo # << >> /\ IsHeap(heap) /\ Grows(heap, heap) /\ Records
      /\ {Rule(x) : x \in Rules} \cup {Action(a) : a \in Actions} \subseteq T
      /\ r \in Rules /\ Tail(Top.todo) \in Seq(T)
  BY <1>1, RuleSteps
<1>3. r.actions \in Seq(Actions) /\ r.rules \in Seq(Rules)
  BY <1>2, RulesAssumption
<1>4. acts \in Seq(T)
  <2>1. /\ DOMAIN r.actions = 1 .. Len(r.actions) /\ Len(r.actions) \in Nat
        /\ \A k \in DOMAIN r.actions : r.actions[k] \in Actions
    BY <1>3, LenProperties, ElementOfSeq
  <2>2. acts \in [1 .. Len(r.actions) -> T]
    <3>. HIDE DEF T
    <3>. QED
      BY <1>2, <2>1
  <2>. HIDE DEF T, acts
  <2>. QED
    BY <2>1, <2>2, FunctionSeq
<1>5. subs \in Seq(T)
  <2>1. /\ DOMAIN r.rules = 1 .. Len(r.rules) /\ Len(r.rules) \in Nat
        /\ \A k \in DOMAIN r.rules : r.rules[k] \in Rules
    BY <1>3, LenProperties, ElementOfSeq
  <2>2. subs \in [1 .. Len(r.rules) -> T]
    <3>. HIDE DEF T
    <3>. QED
      BY <1>2, <2>1
  <2>. HIDE DEF T, subs
  <2>. QED
    BY <2>1, <2>2, FunctionSeq
<1>6. todo \in Seq(T)
  <2>. HIDE DEF T, acts, subs
  <2>1. acts \o subs \in Seq(T)
    BY <1>4, <1>5, ConcatProperties
  <2>2. (acts \o subs) \o Tail(Top.todo) \in Seq(T)
    BY <1>2, <2>1, ConcatProperties
  <2>. QED
    BY <1>2, <2>2
<1>. HIDE DEF todo
<1>7. StackOK(heap, request.node, stack') /\ stack' # << >>
  BY <1>1, <1>2, <1>6, Proceeded
<1>. QED
  BY <1>1, <1>2, <1>7, StepTyped DEF Records

(* An action that fails keeps the invariant. *)
LEMMA FailActionTyped ==
    TypeInv /\ FailAction => TypeInv'
<1> SUFFICES ASSUME TypeInv, FailAction PROVE TypeInv'
  OBVIOUS
<1> DEFINE fr == [Top EXCEPT !.todo = << >>, !.error = TRUE]
<1>1. /\ Doing("action") /\ stack' = ReplaceTop(fr)
      /\ stopped' = stopped \cup {<<Top.node, Top.item>>}
      /\ UNCHANGED <<rules, allowed, output, setting, request, pc, looking, heap, answer, inForce, due,
                     offers, begun>>
  BY DEF FailAction, Stop, proxyVars
<1>2. /\ pc = "serve" /\ IsHeap(heap) /\ Grows(heap, heap) /\ Records
      /\ Top.node \in Nodes /\ Top.item \in Nat \ {0} /\ FrameOK(heap, Top)
  BY <1>1, RuleSteps
<1>3. FrameOK(heap, fr) /\ fr.node = Top.node /\ fr.item = Top.item
  <2>1. << >> \in Seq(Tasks(heap, Top.node, Top.item))
    BY EmptySeq
  <2>. QED
    BY <1>2, <2>1 DEF FrameOK
<1>. HIDE DEF fr
<1>4. StackOK(heap, request.node, stack') /\ stack' # << >>
  BY <1>1, <1>2, <1>3, TopReplaced
<1>. QED
  BY <1>1, <1>2, <1>4, StepTyped DEF Records

(* A signal keeps the invariant. *)
LEMMA SignalTyped ==
    TypeInv /\ Signal => TypeInv'
<1> SUFFICES ASSUME TypeInv, Signal PROVE TypeInv'
  OBVIOUS
<1>1. /\ Doing("action")
      /\ \/ stack' = ReplaceTop([Top EXCEPT !.todo = << >>])
         \/ stack' = ReplaceTop([Top EXCEPT !.todo = <<Last(Top.todo)>>])
      /\ stopped' = stopped \cup {<<Top.node, Top.item>>} \/ stopped' = stopped
      /\ UNCHANGED <<rules, allowed, output, setting, request, pc, looking, heap, answer, inForce, due,
                     offers, begun>>
  BY DEF Signal, Acting, Proceed, Stop, proxyVars
<1>2. /\ pc = "serve" /\ Top.todo # << >> /\ IsHeap(heap) /\ Grows(heap, heap) /\ Records
      /\ Top.node \in Nodes /\ Top.item \in Nat \ {0}
      /\ Last(Top.todo) \in Tasks(heap, Top.node, Top.item)
  BY <1>1, RuleSteps
<1>3. PICK todo \in Seq(Tasks(heap, Top.node, Top.item)) : stack' = ReplaceTop([Top EXCEPT !.todo = todo])
  <2> DEFINE T == Tasks(heap, Top.node, Top.item)
             last == Last(Top.todo)
  <2>. HIDE DEF T, last
  <2>1. << >> \in Seq(T) /\ <<last>> \in Seq(T)
    BY <1>2, EmptySeq DEF T, last
  <2>. QED
    BY <1>1, <2>1 DEF T, last
<1>4. StackOK(heap, request.node, stack') /\ stack' # << >>
  BY <1>2, <1>3, Proceeded
<1>5. stopped' \subseteq Nodes \X (Nat \ {0})
  BY <1>1, <1>2 DEF Records
<1>. QED
  BY <1>1, <1>2, <1>4, <1>5, StepTyped DEF Records

(* A field is appended to only where it is no scalar. *)
LEMMA ChangeFacts ==
    ASSUME TypeInv, Change
    PROVE  IsHeap(heap') /\ Keeps(heap, heap')
<1>1. /\ Doing("action") /\ ~Fails(heap, Top.item, Entry.action)
      /\ heap' = IF Entry.action.type = "append-to-metadata-field"
                 THEN Appended(heap, Top.item, Entry.action) ELSE heap
  BY DEF Change, Acting
<1>2. IsHeap(heap) /\ Top.item \in DOMAIN heap /\ Entry.action \in Actions
  BY <1>1, RuleSteps
<1>3. CASE Entry.action.type = "append-to-metadata-field"
  <2>1. Entry.action.key \in Fields /\ heap[Top.item].ref[Entry.action.key] # Scalar
    BY <1>1, <1>2, <1>3, RulesAssumption DEF Fails
  <2>. QED
    BY <1>1, <1>2, <1>3, <2>1, AppendedKeeps
<1>4. CASE Entry.action.type # "append-to-metadata-field"
  BY <1>1, <1>2, <1>4, KeepsItself
<1>. QED
  BY <1>3, <1>4

(* An action on the item itself keeps the invariant. *)
LEMMA ChangeTyped ==
    TypeInv /\ Change => TypeInv'
<1> SUFFICES ASSUME TypeInv, Change PROVE TypeInv'
  OBVIOUS
<1>1. /\ Doing("action") /\ stack' = ReplaceTop([Top EXCEPT !.todo = Tail(Top.todo)])
      /\ UNCHANGED <<rules, allowed, output, setting, request, pc, looking, answer, inForce, due,
                     offers, begun, stopped>>
  BY DEF Change, Acting, Proceed, proxyVars, history
<1>2. /\ pc = "serve" /\ Top.todo # << >> /\ IsHeap(heap) /\ Records /\ Top.node \in Nodes
      /\ Tail(Top.todo) \in Seq(Tasks(heap, Top.node, Top.item))
  BY <1>1, RuleSteps
<1>3. IsHeap(heap') /\ Grows(heap, heap')
  BY ChangeFacts DEF Keeps
<1>4. Tail(Top.todo) \in Seq(Tasks(heap', Top.node, Top.item))
  BY <1>2, <1>3, TasksGrow, SeqMonotonic
<1>5. StackOK(heap', request.node, stack') /\ stack' # << >>
  BY <1>1, <1>2, <1>3, <1>4, Proceeded
<1>. QED
  BY <1>1, <1>2, <1>3, <1>5, StepTyped DEF Records

(* A new item has only the lists of the one it is made from. *)
LEMMA CreateFacts ==
    ASSUME TypeInv, Create
    PROVE  LET new == Created(heap, Top.item, Entry.action)
           IN  /\ heap' = Append(heap, new) /\ IsHeap(heap') /\ Keeps(heap, heap')
               /\ Len(heap) + 1 \in OfKinds(heap', RuleKinds)
<1> DEFINE new == Created(heap, Top.item, Entry.action)
           i == Top.item
           a == Entry.action
<1>1. /\ Doing("action") /\ heap' = Append(heap, new)
  BY DEF Create, Acting
<1>2. IsHeap(heap) /\ i \in DOMAIN heap /\ heap \in Seq(Item)
  BY <1>1, RuleSteps DEF IsHeap
<1>3. /\ Len(heap) \in Nat /\ DOMAIN heap = 1 .. Len(heap) /\ heap[i] \in Item
      /\ \A f \in Fields : heap[i].ref[f] \in Int /\ heap[i].name \in Names
  BY <1>2, HeapFacts DEF Item
<1>4. new \in Item /\ new.kind \in RuleKinds
  <2>1. CASE a.type = "create-model"
    <3>1. new = NewItem("model", heap[i].name,
                        [f \in Fields |-> IF f = a.key THEN Scalar
                                          ELSE IF f \in a.drops THEN Absent ELSE heap[i].ref[f]])
      BY <2>1 DEF Created, CreatedModel
    <3>. HIDE DEF new
    <3>. QED
      BY <1>3, <3>1 DEF NewItem, Item, ItemKinds, RuleKinds, Scalar, Absent
  <2>2. CASE a.type # "create-model"
    <3>1. new = NewItem("metric", heap[i].name,
                        [f \in Fields |-> IF f \in a.metadataKeys \cap Present(heap, i)
                                          THEN Scalar ELSE Absent])
      BY <2>2 DEF Created, CopiedMetric
    <3>. HIDE DEF new
    <3>. QED
      BY <1>3, <3>1 DEF NewItem, Item, ItemKinds, RuleKinds, Scalar, Absent
  <2>. QED
    BY <2>1, <2>2
<1>5. \A f \in Fields : \/ new.ref[f] \in {Absent, Scalar}
                        \/ new.ref[f] = heap[i].ref[f]
  BY DEF Created, CreatedModel, CopiedMetric, NewItem
<1>6. \A f \in Fields :
         \/ new.ref[f] \in {Absent, Scalar}
         \/ new.ref[f] \in 1 .. Len(heap) /\ heap[new.ref[f]].ref[f] = new.ref[f]
  <2>1. \A f \in Fields :
           \/ heap[i].ref[f] \in {Absent, Scalar}
           \/ heap[i].ref[f] \in 1 .. i /\ heap[heap[i].ref[f]].ref[f] = heap[i].ref[f]
    BY <1>2 DEF IsHeap
  <2>2. i \in 1 .. Len(heap)
    BY <1>2, <1>3
  <2>. HIDE DEF new
  <2>. QED
    BY <1>3, <1>5, <2>1, <2>2
<1>. HIDE DEF new
<1>7. <<new>> \in Seq(Item) /\ DOMAIN <<new>> = {1} /\ <<new>>[1] = new
  BY <1>4
<1>8. heap' = heap \o <<new>>
  BY <1>1, <1>2, <1>4
<1>9. IsHeap(heap \o <<new>>) /\ Keeps(heap, heap \o <<new>>)
  <2> DEFINE t == <<new>>
  <2>1. t \in Seq(Item) /\ DOMAIN t = {1} /\ t[1] = new
    BY <1>7
  <2>. HIDE DEF t
  <2>2. \A k \in DOMAIN t : \A f \in Fields :
              \/ t[k].ref[f] \in {Absent, Scalar}
              \/ t[k].ref[f] \in 1 .. Len(heap) /\ heap[t[k].ref[f]].ref[f] = t[k].ref[f]
    BY <1>6, <2>1
  <2>3. IsHeap(heap \o t) /\ Keeps(heap, heap \o t)
    BY <1>2, <2>1, <2>2, HeapExtended
  <2>. QED
    BY <2>3 DEF t
<1>10. /\ Len(heap) + 1 \in DOMAIN heap' /\ heap'[Len(heap) + 1] = new
  BY <1>1, <1>2, <1>4, AppendProperties
<1>. QED
  BY <1>1, <1>4, <1>8, <1>9, <1>10 DEF OfKinds, new

(* Creating an item keeps the invariant. *)
LEMMA CreateTyped ==
    TypeInv /\ Create => TypeInv'
<1> SUFFICES ASSUME TypeInv, Create PROVE TypeInv'
  OBVIOUS
<1> DEFINE i == Len(heap) + 1
<1>1. /\ Doing("action")
      /\ stack' = Append(stack, Frame(Top.node, i, ItemAgenda(Top.node, i, heap'[i].kind)))
      /\ begun' = begun \cup {<<Top.node, i>>}
      /\ UNCHANGED <<rules, allowed, output, setting, request, pc, looking, answer, inForce, due, offers,
                     stopped>>
  BY DEF Create, Acting, ProcessItem, proxyVars
<1>2. /\ pc = "serve" /\ Top.todo # << >> /\ Records /\ Role[Top.node] = "processor"
      /\ Head(Top.todo).do = "action"
  BY <1>1, RuleSteps DEF Doing, Entry
<1>3. IsHeap(heap') /\ Grows(heap, heap') /\ i \in OfKinds(heap', RuleKinds)
  BY CreateFacts DEF Keeps
<1>. HIDE DEF i
<1>4. /\ StackOK(heap', request.node, stack') /\ stack' # << >>
      /\ begun' \subseteq Nodes \X (Nat \ {0})
  BY <1>1, <1>2, <1>3, ItemBegun
<1>. QED
  BY <1>1, <1>2, <1>3, <1>4, StepTyped DEF Records

(* Converting metrics keeps the invariant. *)
LEMMA ConvertMetricsTyped ==
    TypeInv /\ ConvertMetrics => TypeInv'
<1> SUFFICES ASSUME TypeInv, ConvertMetrics PROVE TypeInv'
  OBVIOUS
<1> DEFINE out == Outputs[Top.node][1]
           M == OfKinds(heap, {"metric"})
           ids == Entry.ids
<1>1. PICK converted \in SUBSET ToSet(ids) :
         stack' = ReplaceTop([Top EXCEPT !.todo =
                      <<Call(out, <<Group("compact", Those(ids, converted)),
                                    Group("metric", Those(ids, ToSet(ids) \ converted))>>)>>])
  BY DEF ConvertMetrics, Proceed
<1>2. /\ Doing("convert")
      /\ UNCHANGED <<rules, allowed, output, setting, request, pc, looking, heap, answer, inForce, due,
                     offers, begun, stopped>>
  BY DEF ConvertMetrics, proxyVars, history
<1>3. pc = "serve" /\ Top.todo # << >> /\ Head(Top.todo) = Entry /\ Head(Top.todo).do = "convert"
  BY <1>2 DEF Doing, Entry
<1>4. IsHeap(heap) /\ FrameOK(heap, Top) /\ Grows(heap, heap) /\ Records
  BY <1>3, ServeFacts, KeepsItself, TypeParts DEF Keeps
<1>5. /\ Top.node \in Nodes /\ Role[Top.node] = "zenoss" /\ ids \in Seq(M)
      /\ CallsTo(heap, Range(Outputs[Top.node])) \subseteq Tasks(heap, Top.node, Top.item)
  BY <1>3, <1>4, ConvertFacts
<1> DEFINE first == Those(ids, converted)
           second == Those(ids, ToSet(ids) \ converted)
<1>6. first \in Seq(M) /\ second \in Seq(M)
  BY <1>5, ThoseType
<1>. HIDE DEF first, second
<1>7. Group("compact", first) \in Sendable(heap) /\ Group("metric", second) \in Sendable(heap)
  <2>1. M \subseteq DOMAIN heap /\ \A i \in M : heap[i].kind = "metric"
    BY DEF OfKinds
  <2>. HIDE DEF M
  <2>2. first \in Seq(DOMAIN heap) /\ second \in Seq(DOMAIN heap)
    BY <1>6, <2>1, SeqMonotonic
  <2>3. \A j \in DOMAIN second : heap[second[j]].kind = "metric"
    BY <1>6, <2>1, ElementOfSeq, LenProperties
  <2>. QED
    BY <2>2, <2>3 DEF Group, Sendable, ReceiverKinds
<1>8. <<Group("compact", first), Group("metric", second)>> \in Seq(Sendable(heap))
  BY <1>7
<1>9. out \in Range(Outputs[Top.node])
  BY <1>5, OutputFacts
<1>10. Call(out, <<Group("compact", first), Group("metric", second)>>) \in
           CallsTo(heap, Range(Outputs[Top.node]))
  <2>. HIDE DEF out
  <2>. QED
    BY <1>8, <1>9 DEF CallsTo
<1> DEFINE call == Call(out, <<Group("compact", first), Group("metric", second)>>)
<1>11. <<call>> \in Seq(Tasks(heap, Top.node, Top.item))
  <2>1. call \in Tasks(heap, Top.node, Top.item)
    BY <1>5, <1>10
  <2>. HIDE DEF call
  <2>. QED
    BY <2>1
<1>12. stack' = ReplaceTop([Top EXCEPT !.todo = <<call>>])
  BY <1>1 DEF first, second
<1>. HIDE DEF call
<1>13. StackOK(heap, request.node, stack') /\ stack' # << >>
  BY <1>3, <1>4, <1>11, <1>12, Proceeded
<1>. QED
  BY <1>2, <1>3, <1>4, <1>13, StepTyped DEF Records

-----------------------------------------------------------------------------

(* A panic ends the request, and changes nothing else. *)
LEMMA PanicFacts ==
    ASSUME Panic
    PROVE  /\ pc = "serve" /\ pc' = "panicked" /\ stack' = << >>
           /\ UNCHANGED <<rules, allowed, output, setting, request, looking, heap, answer, inForce, due,
                          offers, begun, stopped>>
BY DEF Panic, Acting, Doing, proxyVars, history

(* A panic keeps the invariant. *)
LEMMA PanicTyped ==
    TypeInv /\ Panic => TypeInv'
<1> SUFFICES ASSUME TypeInv, Panic PROVE TypeInv'
  OBVIOUS
<1>1. pc' = "panicked" /\ stack' = << >> /\ IsHeap(heap') /\ StackOK(heap, request.node, << >>)
  BY PanicFacts, ServeFacts, StackOfNone
<1>2. Shape'
  BY <1>1, PanicFacts DEF Shape
<1>3. TypeOK'
  BY <1>1, PanicFacts DEF TypeInv, TypeOK
<1>. QED
  BY <1>2, <1>3 DEF TypeInv

(* Every step keeps the invariant. *)
LEMMA StepKeepsType ==
    TypeInv /\ [Next]_vars => TypeInv'
<1> SUFFICES ASSUME TypeInv, [Next]_vars PROVE TypeInv'
  OBVIOUS
<1>1. CASE SetConfig \/ \E w \in setting : SetAllowed(w) \/ SetOutput(w)
  BY <1>1, ConfigTyped
<1>2. CASE \E q \in Requests : Receive(q)
  BY <1>2, ReceiveTyped
<1>3. CASE Serve
  BY <1>3, KeysTyped, CallOutputTyped, CallUnimplementedTyped, CallEndpointTyped, ReturnTyped,
     TakeItemTyped, ApplyRuleTyped, FailActionTyped, SignalTyped, ChangeTyped, PanicTyped,
     CreateTyped, ConvertMetricsTyped DEF Serve
<1>4. CASE UNCHANGED vars
  BY <1>4 DEF vars, proxyVars, history, TypeInv, TypeOK, Shape
<1>. QED
  BY <1>1, <1>2, <1>3, <1>4 DEF Next

(* The variables keep their types in every network, with every rule and configuration. *)
THEOREM ReceiversTypeCorrect == Spec => []TypeOK
<1>1. TypeInv => TypeOK
  BY DEF TypeInv
<1>. QED
  BY <1>1, InitTyped, StepKeepsType, PTL DEF Spec

(* What all steps of calls have in common. *)
CallStep ==
    \/ CallOutput \/ CallUnimplemented \/ CallEndpoint \/ Return
    \/ TakeItem \/ ApplyRule \/ FailAction \/ Signal \/ Change \/ Create \/ ConvertMetrics

(* What the steps of calls leave alone, and how the last one answers. *)
LEMMA CallSteps ==
    ASSUME TypeInv, CallStep
    PROVE  /\ pc = "serve"
           /\ UNCHANGED <<rules, allowed, output, setting, request, looking, inForce>>
           /\ \/ pc' = "serve" /\ UNCHANGED answer
              \/ /\ Return /\ Len(stack) = 1 /\ Top.item = None /\ Top = stack[1]
                 /\ pc' = "idle" /\ answer' = Result(FALSE, Top.failed, Top.succeeded, Top.held)
           /\ IsHeap(heap') /\ Keeps(heap, heap')
           /\ CallEndpoint \/ UNCHANGED offers
<1>1. pc = "serve"
  BY DEF CallStep, CallOutput, CallUnimplemented, CallEndpoint, Return, TakeItem, ApplyRule, FailAction,
         Signal, Change, Create, ConvertMetrics, Doing, Acting
<1>2. UNCHANGED <<rules, allowed, output, setting, request, looking, inForce>>
  BY DEF CallStep, CallOutput, CallUnimplemented, CallEndpoint, Return, TakeItem, ApplyRule, FailAction,
         Signal, Change, Create, ConvertMetrics, proxyVars, history
<1>3. IsHeap(heap) /\ Keeps(heap, heap)
  BY <1>1, ServeFacts, KeepsItself
<1>4. IsHeap(heap') /\ Keeps(heap, heap')
  <2>1. CASE CallOutput
    <3>1. /\ Doing("call") /\ Role[Target] # "endpoint" /\ ~Unimplemented(Target, Entry.groups)
          /\ heap' = EnterHeap(Target, Entry.groups)
      BY <2>1 DEF CallOutput
    <3>. QED
      BY <3>1, EnteredCall
  <2>2. CASE Change
    BY <2>2, ChangeFacts
  <2>3. CASE Create
    BY <2>3, CreateFacts
  <2>4. CASE UNCHANGED heap
    BY <1>3, <2>4
  <2>. QED
    BY <2>1, <2>2, <2>3, <2>4
    DEF CallStep, CallUnimplemented, CallEndpoint, Return, TakeItem, ApplyRule, FailAction,
        Signal, ConvertMetrics, history
<1>5. \/ pc' = "serve" /\ UNCHANGED answer
      \/ /\ Return /\ Len(stack) = 1 /\ Top.item = None /\ Top = stack[1]
         /\ pc' = "idle" /\ answer' = Result(FALSE, Top.failed, Top.succeeded, Top.held)
  <2>1. CASE Return
    <3>1. Len(stack) = 1 => Top = stack[1] /\ Top.item = None
      BY <1>1, ServeFacts DEF StackOK
    <3>. QED
      BY <1>1, <2>1, <3>1 DEF Return
  <2>. QED
    BY <1>1, <2>1
    DEF CallStep, CallOutput, CallUnimplemented, CallEndpoint, TakeItem, ApplyRule, FailAction,
        Signal, Change, Create, ConvertMetrics
<1>6. CallEndpoint \/ UNCHANGED offers
  BY DEF CallStep, CallOutput, CallUnimplemented, Return, TakeItem, ApplyRule, FailAction,
         Signal, Change, Create, ConvertMetrics, history
<1>. QED
  BY <1>1, <1>2, <1>4, <1>5, <1>6

-----------------------------------------------------------------------------
(* Who is served. *)

(* The keys that are still looked up are keys of the request, and those allowed now have been  *)
(* in force since it came.                                                                     *)
AdmissionInv ==
    /\ pc # "idle" => allowed \in inForce
    /\ pc \in {"check", "lookUp"} =>
          /\ offers = << >>
          /\ \A k \in DOMAIN looking : \E j \in DOMAIN request.apiKeys : looking[k] = request.apiKeys[j]
    /\ Admission

(* At the beginning nothing has been offered. *)
LEMMA InitAdmitted ==
    Init => AdmissionInv
BY DEF Init, AdmissionInv, Admission, Answered

(* SetConfig adds to the key sets in force. *)
LEMMA ConfigAdmitted ==
    TypeInv /\ AdmissionInv /\ (SetConfig \/ \E w \in setting : SetAllowed(w) \/ SetOutput(w))
        => AdmissionInv'
<1> SUFFICES ASSUME TypeInv, AdmissionInv, SetConfig \/ \E w \in setting : SetAllowed(w) \/ SetOutput(w)
             PROVE  AdmissionInv'
  OBVIOUS
<1>1. /\ UNCHANGED <<request, pc, looking, answer, offers>>
      /\ \/ UNCHANGED <<allowed, inForce>>
         \/ allowed' \in inForce' /\ inForce \subseteq inForce'
  BY DEF SetConfig, SetAllowed, SetOutput, history
<1>2. \A keys : Allows(keys) => Allows(keys)'
  BY <1>1 DEF Allows
<1>. QED
  BY <1>1, <1>2 DEF AdmissionInv, Admission, Answered

(* A key that is found is one of the request, allowed by a set in force. *)
LEMMA KeysAdmitted ==
    TypeInv /\ AdmissionInv /\ (CheckAPIKey \/ LookUpAPIKey) => AdmissionInv'
<1> SUFFICES ASSUME TypeInv, AdmissionInv, CheckAPIKey \/ LookUpAPIKey PROVE AdmissionInv'
  OBVIOUS
<1>1. /\ pc \in {"check", "lookUp"} /\ UNCHANGED <<allowed, request, inForce, offers>>
      /\ looking \in Seq(STRING) /\ (pc = "lookUp" => looking # << >>)
  BY DEF CheckAPIKey, LookUpAPIKey, proxyVars, history, TypeInv, TypeOK, Shape
<1>2. /\ offers = << >> /\ allowed \in inForce
      /\ \A k \in DOMAIN looking : \E j \in DOMAIN request.apiKeys : looking[k] = request.apiKeys[j]
  BY <1>1 DEF AdmissionInv
<1>3. \A k \in DOMAIN looking' : \E j \in DOMAIN request'.apiKeys : looking'[k] = request'.apiKeys[j]
  <2>1. CASE CheckAPIKey
    BY <1>1, <1>2, <2>1 DEF CheckAPIKey
  <2>2. CASE LookUpAPIKey
    <3>1. looking' = Tail(looking) /\ looking # << >>
      BY <1>1, <2>2 DEF LookUpAPIKey
    <3>2. \A k \in DOMAIN looking' : k + 1 \in DOMAIN looking /\ looking'[k] = looking[k + 1]
      BY <1>1, <3>1, HeadTailProperties, LenProperties
    <3>. QED
      BY <1>1, <1>2, <3>2
  <2>. QED
    BY <2>1, <2>2
<1>4. pc' = "serve" => Allows(allowed)'
  <2>1. CASE CheckAPIKey
    BY <1>1, <2>1 DEF CheckAPIKey, Allows, Refuse, Admit
  <2>2. CASE LookUpAPIKey
    <3>1. looking # << >> /\ pc = "lookUp" /\ (pc' = "serve" => Head(looking) \in allowed)
      BY <1>1, <2>2 DEF LookUpAPIKey, Refuse, Admit
    <3>2. Head(looking) = looking[1] /\ 1 \in DOMAIN looking
      BY <1>1, <3>1, EmptySeq, LenProperties
    <3>. QED
      BY <1>1, <1>2, <3>1, <3>2 DEF Allows
  <2>. QED
    BY <2>1, <2>2
<1>. QED
  BY <1>1, <1>2, <1>3, <1>4 DEF AdmissionInv, Admission

(* Every step keeps it. *)
LEMMA StepAdmitted ==
    TypeInv /\ AdmissionInv /\ [Next]_vars => AdmissionInv'
<1> SUFFICES ASSUME TypeInv, AdmissionInv, [Next]_vars PROVE AdmissionInv'
  OBVIOUS
<1>1. CASE SetConfig \/ \E w \in setting : SetAllowed(w) \/ SetOutput(w)
  BY <1>1, ConfigAdmitted
<1>2. ASSUME NEW q \in Requests, Receive(q) PROVE AdmissionInv'
  <2>1. /\ request' = q /\ looking' = q.apiKeys /\ UNCHANGED allowed /\ inForce' = {allowed}
        /\ offers' = << >>
    BY <1>2 DEF Receive, proxyVars
  <2>2. pc' = "serve" => Role[request'.node] # "proxy"
    BY <1>2 DEF Receive
  <2>. QED
    BY <2>1, <2>2 DEF AdmissionInv, Admission
<1>3. CASE CheckAPIKey \/ LookUpAPIKey
  BY <1>3, KeysAdmitted
<1>4. CASE CallStep
  <2>1. /\ pc = "serve" /\ UNCHANGED <<allowed, request, inForce>>
        /\ \/ pc' = "serve"
           \/ pc' = "idle" /\ answer' = Result(FALSE, Top.failed, Top.succeeded, Top.held)
    BY <1>4, CallSteps
  <2>2. \A keys : Allows(keys) => Allows(keys)'
    BY <2>1 DEF Allows
  <2>. QED
    BY <2>1, <2>2 DEF AdmissionInv, Admission, Answered, Result
<1>5. CASE UNCHANGED vars
  BY <1>5 DEF vars, proxyVars, history, AdmissionInv, Admission, Answered, Allows
<1>6. CASE Panic
  <2>1. pc = "serve" /\ pc' = "panicked" /\ UNCHANGED <<allowed, inForce>>
    BY <1>6, PanicFacts
  <2>. QED
    BY <2>1 DEF AdmissionInv, Admission, Answered
<1>. QED
  BY <1>1, <1>2, <1>3, <1>4, <1>5, <1>6 DEF Next, Serve, CallStep

(* Whatever SetConfig does meanwhile, what is served is a request that a key set in force     *)
(* allows, and one refused reaches no output (checkAPIKey).                                   *)
THEOREM ReceiversAdmission == Spec => []Admission
<1>1. AdmissionInv => Admission
  BY DEF AdmissionInv
<1>. QED
  BY <1>1, InitTyped, StepKeepsType, InitAdmitted, StepAdmitted, PTL DEF Spec

-----------------------------------------------------------------------------
(* What endpoints are given. *)

(* What a heap keeps through two steps it keeps through both. *)
LEMMA KeepsOn ==
    ASSUME NEW h, IsHeap(h), NEW g, IsHeap(g), NEW k, IsHeap(k), Keeps(h, g), Keeps(g, k)
    PROVE  Keeps(h, k)
<1>1. /\ \A i \in DOMAIN h : Content(h, i) \in [Fields -> Int]
      /\ \A i \in DOMAIN g : Content(g, i) \in [Fields -> Int]
      /\ \A i \in DOMAIN k : Content(k, i) \in [Fields -> Int]
  BY HeapFacts
<1>2. Grows(h, k)
  BY DEF Keeps, Grows
<1>3. ASSUME NEW i \in DOMAIN h, NEW f \in Fields PROVE Content(k, i)[f] >= Content(h, i)[f]
  <2>1. i \in DOMAIN g /\ i \in DOMAIN k
    BY DEF Keeps, Grows
  <2>2. Content(k, i)[f] >= Content(g, i)[f] /\ Content(g, i)[f] >= Content(h, i)[f]
    BY <2>1 DEF Keeps
  <2>3. Content(h, i)[f] \in Int /\ Content(g, i)[f] \in Int /\ Content(k, i)[f] \in Int
    BY <1>1, <2>1
  <2>. QED
    BY <2>2, <2>3
<1>. QED
  BY <1>2, <1>3 DEF Keeps

(* While a request is served no item it came with loses a field, nor a list of it values. *)
KeptInv ==
    /\ pc # "idle" => Keeps(request.items, heap)
    /\ FieldsKept

(* Every step keeps the fields. *)
LEMMA StepKept ==
    TypeInv /\ KeptInv /\ [Next]_vars => KeptInv'
<1> SUFFICES ASSUME TypeInv, KeptInv, [Next]_vars PROVE KeptInv'
  OBVIOUS
<1>1. CASE SetConfig \/ CheckAPIKey \/ LookUpAPIKey \/ \E w \in setting : SetAllowed(w) \/ SetOutput(w)
  <2>1. /\ UNCHANGED <<request, heap, offers>> /\ (pc' # "idle" => pc # "idle")
    BY <1>1 DEF SetConfig, SetAllowed, SetOutput, CheckAPIKey, LookUpAPIKey, history
  <2>. QED
    BY <2>1 DEF KeptInv, FieldsKept
<1>2. ASSUME NEW q \in Requests, Receive(q) PROVE KeptInv'
  <2>1. request' = q /\ heap' = q.items /\ offers' = << >>
    BY <1>2 DEF Receive
  <2>2. Keeps(q.items, q.items)
    BY RequestFacts, KeepsItself
  <2>. QED
    BY <2>1, <2>2 DEF KeptInv, FieldsKept
<1>3. CASE CallStep
  <2>1. /\ pc = "serve" /\ UNCHANGED request /\ IsHeap(heap') /\ Keeps(heap, heap')
        /\ CallEndpoint \/ UNCHANGED offers
    BY <1>3, CallSteps
  <2>2. IsHeap(request.items) /\ IsHeap(heap) /\ Keeps(request.items, heap) /\ FieldsKept
    BY <2>1, ServeFacts, RequestFacts DEF KeptInv, TypeInv, TypeOK
  <2>3. Keeps(request.items, heap')
    BY <2>1, <2>2, KeepsOn
  <2>4. CASE UNCHANGED offers
    BY <2>1, <2>2, <2>3, <2>4 DEF KeptInv, FieldsKept
  <2>5. CASE CallEndpoint
    <3>1. PICK fates \in [1 .. Count(Entry.groups) -> Fates] :
             offers' = offers \o Given(Target, Entry.groups, fates)
      BY <2>5, EndpointSteps
    <3>2. Entry.groups \in Seq(Sendable(heap)) /\ Target \in Nodes /\ offers \in Seq(Offers)
      BY <2>5, EndpointSteps, CallFacts DEF TypeInv, TypeOK
    <3> DEFINE given == Given(Target, Entry.groups, fates)
    <3>3. /\ given \in Seq(Offers)
          /\ \A j \in DOMAIN given : /\ given[j].item \in DOMAIN heap
                                     /\ given[j].content = Content(heap, given[j].item)
      BY <2>2, <3>2, GivenFacts
    <3>. HIDE DEF given
    <3>4. /\ DOMAIN offers = 1 .. Len(offers) /\ Len(offers) \in Nat
          /\ DOMAIN given = 1 .. Len(given) /\ Len(given) \in Nat
          /\ DOMAIN (offers \o given) = 1 .. (Len(offers) + Len(given))
          /\ \A j \in 1 .. (Len(offers) + Len(given)) :
                (offers \o given)[j] = IF j <= Len(offers) THEN offers[j] ELSE given[j - Len(offers)]
      BY <3>2, <3>3, ConcatProperties, LenProperties
    <3>5. \A j \in DOMAIN (offers \o given) :
             \/ j \in DOMAIN offers /\ (offers \o given)[j] = offers[j]
             \/ j - Len(offers) \in DOMAIN given /\ (offers \o given)[j] = given[j - Len(offers)]
      BY <3>4
    <3>6. ASSUME NEW j \in DOMAIN (offers \o given), (offers \o given)[j].item \in DOMAIN request.items,
                 NEW f \in Fields
          PROVE  (offers \o given)[j].content[f] >= Content(request.items, (offers \o given)[j].item)[f]
      <4>1. CASE j \in DOMAIN offers /\ (offers \o given)[j] = offers[j]
        BY <2>2, <3>6, <4>1 DEF FieldsKept
      <4>2. CASE j - Len(offers) \in DOMAIN given /\ (offers \o given)[j] = given[j - Len(offers)]
        BY <2>2, <3>3, <3>6, <4>2 DEF Keeps
      <4>. QED
        BY <3>5, <4>1, <4>2
    <3>7. FieldsKept'
      BY <2>1, <3>1, <3>6 DEF FieldsKept, given
    <3>. QED
      BY <2>1, <2>3, <3>7 DEF KeptInv
  <2>. QED
    BY <2>1, <2>4, <2>5
<1>4. CASE UNCHANGED vars
  BY <1>4 DEF vars, history, KeptInv, FieldsKept
<1>5. CASE Panic
  <2>1. pc = "serve" /\ UNCHANGED <<request, heap, offers>>
    BY <1>5, PanicFacts
  <2>. QED
    BY <2>1 DEF KeptInv, FieldsKept
<1>. QED
  BY <1>1, <1>2, <1>3, <1>4, <1>5 DEF Next, Serve, CallStep

(* No endpoint is given an item with a field lost or a list cut, whatever processors it went  *)
(* through.                                                                                   *)
THEOREM ReceiversKeepFields == Spec => []FieldsKept
<1>1. Init => KeptInv
  BY DEF Init, KeptInv, FieldsKept
<1>2. KeptInv => FieldsKept
  BY DEF KeptInv
<1>. QED
  BY <1>1, <1>2, InitTyped, StepKeepsType, StepKept, PTL DEF Spec

-----------------------------------------------------------------------------
(* What a call is answered for. *)

(* What each thing that is left to do will be answered with: an item is one, a call is what    *)
(* its node answers.                                                                           *)
Prices == [e \in Entries |-> IF e.do = "call" THEN Owed(e.to, e.groups) ELSE 1]

(* Everything there is to do has a price. *)
LEMMA PricesType ==
    Prices \in Counts(Entries)
<1>1. \A e \in Entries : e.do = "call" => e.to \in Nodes /\ e.groups \in Seq(Groups)
  BY DEF Entries
<1>2. \A e \in Entries : e.do = "call" => Owed(e.to, e.groups) \in Nat
  BY <1>1, OwedType
<1>. QED
  BY <1>2 DEF Prices, Counts

(* The sum of one number. *)
LEMMA TotalOfOne ==
    ASSUME NEW h, DOMAIN h = {1}, NEW n \in Nat, h = [x \in {1} |-> n]
    PROVE  Total(h) = n
<1>1. h \in [{1} -> Nat] /\ IsFiniteSet({1}) /\ h[1] = n
  BY FS_Singleton
<1>2. Total(h) = Total([y \in {1} \ {1} |-> h[y]]) + h[1]
  BY <1>1, TotalSplit
<1>3. Total([y \in {1} \ {1} |-> h[y]]) = 0
  BY TotalOfNone
<1>. QED
  BY <1>1, <1>2, <1>3

(* What is owed for a message of one group. *)
LEMMA OwedForOne ==
    ASSUME NEW n \in Nodes, NEW x \in Groups
    PROVE  Owed(n, <<x>>) = Worth[n][x.kind] * Len(x.ids) /\ Worth[n][x.kind] * Len(x.ids) \in Nat
<1> DEFINE h == [g \in DOMAIN <<x>> |-> Worth[n][<<x>>[g].kind] * Len(<<x>>[g].ids)]
           c == Worth[n][x.kind] * Len(x.ids)
<1>1. x.kind \in ItemKinds /\ Len(x.ids) \in Nat
  BY LenProperties DEF Groups
<1>2. Worth[n][x.kind] \in Nat
  BY <1>1, WorthFacts DEF Worths
<1>3. c \in Nat
  <2> DEFINE a == Worth[n][x.kind]  b == Len(x.ids)
  <2>1. a \in Nat /\ b \in Nat
    BY <1>1, <1>2
  <2>. HIDE DEF a, b
  <2>2. a * b \in Nat
    BY <2>1
  <2>. QED
    BY <2>2 DEF a, b
<1>4. h = [g \in {1} |-> c] /\ DOMAIN h = {1}
  <2>1. DOMAIN <<x>> = {1} /\ <<x>>[1] = x
    OBVIOUS
  <2>. QED
    BY <2>1
<1>. HIDE DEF h, c
<1>5. Total(h) = c
  BY <1>3, <1>4, TotalOfOne
<1>. QED
  BY <1>3, <1>5 DEF Owed, h, c

(* A splitter: every group is worth what it is worth to each of the outputs. *)
LEMMA SplitterOwes ==
    ASSUME NEW h, IsHeap(h), NEW n \in Nodes, Role[n] = "splitter", NEW groups \in Seq(Sendable(h))
    PROVE  SumOver(SplitterAgenda(n, groups), Prices) = Owed(n, groups)
<1> DEFINE O == DOMAIN Outputs[n]
           G == DOMAIN groups
           rows == SplitterRows(n, groups)
           worth(o, g) == Worth[Outputs[n][o]][groups[g].kind]
           len(g) == Len(groups[g].ids)
           H == [p \in O \X G |-> worth(p[1], p[2]) * len(p[2])]
<1>1. /\ O = 1 .. Len(Outputs[n]) /\ Len(Outputs[n]) \in Nat
      /\ G = 1 .. Len(groups) /\ Len(groups) \in Nat
      /\ \A o \in O : Outputs[n][o] \in Range(Outputs[n]) /\ Outputs[n][o] \in Nodes
      /\ \A g \in G : groups[g] \in Groups /\ groups[g] \in Sendable(h)
  <2>1. groups \in Seq(Groups) /\ Sendable(h) \subseteq Groups
    BY SendableType, SeqMonotonic
  <2>. QED
    BY <2>1, OutputFacts, LenProperties, ElementOfSeq
<1>2. IsFiniteSet(O) /\ IsFiniteSet(G)
  <2>1. IsFiniteSet(1 .. Len(Outputs[n]))
    BY <1>1, FS_Interval
  <2>2. IsFiniteSet(1 .. Len(groups))
    BY <1>1, FS_Interval
  <2>. QED
    BY <1>1, <2>1, <2>2
<1>3. /\ \A g \in G : groups[g].kind \in ItemKinds /\ len(g) \in Nat
      /\ \A o \in O, g \in G : worth(o, g) \in Nat
  <2>1. \A g \in G : groups[g].kind \in ItemKinds /\ groups[g].ids \in Seq(Nat \ {0})
    BY <1>1 DEF Groups
  <2>. QED
    BY <1>1, <2>1, WorthFacts, LenProperties DEF Worths
<1>4. rows \in Seq(Seq(Entries))
  <2>1. Singles(h, Range(Outputs[n])) \subseteq Entries
    BY SingleFacts, OutputFacts
  <2>2. rows \in Seq(Seq(Singles(h, Range(Outputs[n]))))
    BY SplitterAgendaType
  <2>. HIDE DEF rows
  <2>. QED
    BY <2>1, <2>2, SeqMonotonic
<1>5. SumOver(SplitterAgenda(n, groups), Prices) = SumOverAll(rows, Prices)
  <2>1. SplitterAgenda(n, groups) = FlattenSeq(rows)
    BY DEF SplitterAgenda, SplitterRows
  <2>. HIDE DEF rows
  <2>. QED
    BY <1>4, <2>1, PricesType, TotalFlattened
<1>6. \A o \in O : SumOver(rows[o], Prices) = Total([g \in G |-> H[<<o, g>>]])
  <2> TAKE o \in O
  <2>1. DOMAIN rows[o] = G /\ \A g \in G : rows[o][g] = Call(Outputs[n][o], <<groups[g]>>)
    BY DEF SplitterRows
  <2>2. \A g \in G : Prices[rows[o][g]] = H[<<o, g>>]
    <3> TAKE g \in G
    <3>1. Call(Outputs[n][o], <<groups[g]>>) \in Entries
      <4>1. Call(Outputs[n][o], <<groups[g]>>) \in Singles(h, Range(Outputs[n]))
        BY <1>1 DEF Singles
      <4>. QED
        BY <4>1, SingleFacts, OutputFacts
    <3>2. Prices[Call(Outputs[n][o], <<groups[g]>>)] = Owed(Outputs[n][o], <<groups[g]>>)
      BY <3>1 DEF Prices, Call
    <3>3. Owed(Outputs[n][o], <<groups[g]>>) = worth(o, g) * len(g)
      BY <1>1, OwedForOne
    <3>4. H[<<o, g>>] = worth(o, g) * len(g)
      OBVIOUS
    <3>. QED
      BY <2>1, <3>2, <3>3, <3>4
  <2>. HIDE DEF H, rows
  <2>3. [g \in DOMAIN rows[o] |-> Prices[rows[o][g]]] = [g \in G |-> H[<<o, g>>]]
    BY <2>1, <2>2
  <2>. QED
    BY <2>3 DEF SumOver
<1>7. SumOverAll(rows, Prices) = Total([o \in O |-> Total([g \in G |-> H[<<o, g>>]])])
  <2>1. DOMAIN rows = O
    BY DEF SplitterRows
  <2>. HIDE DEF H, rows, O
  <2>2. [o \in DOMAIN rows |-> SumOver(rows[o], Prices)] =
        [o \in O |-> Total([g \in G |-> H[<<o, g>>]])]
    BY <1>6, <2>1
  <2>. QED
    BY <2>2 DEF SumOverAll
<1>8. H \in [O \X G -> Nat]
  <2>1. \A o \in O, g \in G : worth(o, g) * len(g) \in Nat
    <3> TAKE o \in O, g \in G
    <3>1. worth(o, g) \in Nat /\ len(g) \in Nat
      BY <1>3
    <3>. HIDE DEF worth, len
    <3>. QED
      BY <3>1
  <2>. HIDE DEF worth, len
  <2>. QED
    BY <2>1
<1>9. Total([o \in O |-> Total([g \in G |-> H[<<o, g>>]])]) =
      Total([g \in G |-> Total([o \in O |-> H[<<o, g>>]])])
  <2>1. H \in Counts(O \X G)
    BY <1>8 DEF Counts
  <2>. HIDE DEF H, O, G
  <2>. QED
    BY <1>2, <2>1, TotalSwapped
<1>10. \A g \in G : Total([o \in O |-> H[<<o, g>>]]) = Worth[n][groups[g].kind] * len(g)
  <2> TAKE g \in G
  <2> DEFINE W == [o \in O |-> worth(o, g)]
             c == len(g)
  <2>1. W \in [O -> Nat] /\ c \in Nat
    BY <1>3
  <2>2. [o \in O |-> H[<<o, g>>]] = [o \in O |-> W[o] * c]
    <3>1. \A o \in O : H[<<o, g>>] = W[o] * c
      OBVIOUS
    <3>. HIDE DEF H, W, c
    <3>. QED
      BY <3>1
  <2>3. Total(W) = Worth[n][groups[g].kind]
    BY <1>3, WorthFacts
  <2>. HIDE DEF W, c, H
  <2>4. Total([o \in O |-> W[o] * c]) = Total(W) * c
    BY <1>2, <2>1, TotalScaled
  <2>. QED
    BY <2>2, <2>3, <2>4 DEF c
<1>11. [g \in G |-> Total([o \in O |-> H[<<o, g>>]])] =
       [g \in G |-> Worth[n][groups[g].kind] * len(g)]
  <2>. HIDE DEF H, O
  <2>. QED
    BY <1>10
<1>12. Owed(n, groups) = Total([g \in G |-> Worth[n][groups[g].kind] * len(g)])
  BY DEF Owed
<1>. HIDE DEF H, O, G, rows
<1>. QED
  BY <1>5, <1>7, <1>9, <1>11, <1>12

(* A processor: compact metrics as much as to its output, every other item one. *)
LEMMA ProcessorOwes ==
    ASSUME NEW h, IsHeap(h), NEW n \in Nodes, Role[n] = "processor", NEW groups \in Seq(Sendable(h)),
           ~Unimplemented(n, groups)
    PROVE  SumOver(ProcessorAgenda(n, groups), Prices) = Owed(n, groups)
<1> DEFINE G == DOMAIN groups
           rows == ProcessorRows(n, groups)
           out == Outputs[n][1]
<1>1. /\ G = 1 .. Len(groups) /\ Len(groups) \in Nat
      /\ out \in Range(Outputs[n]) /\ out \in Nodes
      /\ \A g \in G : groups[g] \in Groups /\ groups[g] \in Sendable(h)
  <2>1. groups \in Seq(Groups) /\ Sendable(h) \subseteq Groups
    BY SendableType, SeqMonotonic
  <2>. QED
    BY <2>1, OutputFacts, LenProperties, ElementOfSeq
<1>2. Tasks(h, n, None) \subseteq Entries
  BY TasksType
<1>3. rows \in Seq(Seq(Entries)) /\ rows \in Seq(Seq(Tasks(h, n, None)))
  <2>1. rows \in Seq(Seq(Tasks(h, n, None)))
    BY ProcessorAgendaType
  <2>. HIDE DEF rows
  <2>. QED
    BY <1>2, <2>1, SeqMonotonic
<1>4. SumOver(ProcessorAgenda(n, groups), Prices) = SumOverAll(rows, Prices)
  <2>1. ProcessorAgenda(n, groups) = FlattenSeq(rows)
    BY DEF ProcessorAgenda, ProcessorRows
  <2>. HIDE DEF rows
  <2>. QED
    BY <1>3, <2>1, PricesType, TotalFlattened
<1>5. DOMAIN rows = G /\ \A g \in G : rows[g] \in Seq(Entries)
  <2>1. DOMAIN rows = G
    BY DEF ProcessorRows
  <2>. HIDE DEF rows
  <2>. QED
    BY <1>3, <2>1, ElementOfSeq, LenProperties
<1>6. \A g \in G : SumOver(rows[g], Prices) = Worth[n][groups[g].kind] * Len(groups[g].ids)
  <2> TAKE g \in G
  <2>1. groups[g].kind \in ItemKinds /\ Len(groups[g].ids) \in Nat
        /\ DOMAIN groups[g].ids = 1 .. Len(groups[g].ids)
    BY <1>1, LenProperties DEF Groups
  <2>2. CASE groups[g].kind = "compact"
    <3> DEFINE e == Call(out, <<groups[g]>>)
    <3>1. rows[g] = <<e>> /\ DOMAIN <<e>> = {1} /\ <<e>>[1] = e
      BY <2>2 DEF ProcessorRows
    <3>2. e \in Entries
      <4>1. e \in Singles(h, Range(Outputs[n]))
        BY <1>1 DEF Singles
      <4>. QED
        BY <4>1, SingleFacts, OutputFacts
    <3>3. Prices[e] = Owed(out, <<groups[g]>>)
      BY <3>2 DEF Prices, Call
    <3>4. Owed(out, <<groups[g]>>) = Worth[out]["compact"] * Len(groups[g].ids) /\ Prices[e] \in Nat
      BY <1>1, <2>2, <3>3, OwedForOne
    <3>5. Worth[n]["compact"] = Worth[out]["compact"]
      BY <2>1, <2>2, WorthFacts
    <3> DEFINE f == [j \in DOMAIN rows[g] |-> Prices[rows[g][j]]]
    <3>. HIDE DEF e
    <3>6. f = [x \in {1} |-> Prices[e]] /\ DOMAIN f = {1}
      BY <3>1
    <3>. HIDE DEF f
    <3>7. Total(f) = Prices[e]
      BY <3>4, <3>6, TotalOfOne
    <3>. QED
      BY <2>2, <3>3, <3>4, <3>5, <3>7 DEF SumOver, f
  <2>3. CASE groups[g].kind # "compact"
    <3>1. rows[g] = [j \in DOMAIN groups[g].ids |-> Process(groups[g].ids[j])]
      BY <2>3 DEF ProcessorRows
    <3>2. \A j \in DOMAIN groups[g].ids : Prices[rows[g][j]] = 1
      <4> TAKE j \in DOMAIN groups[g].ids
      <4>1. rows[g][j] = Process(groups[g].ids[j])
        BY <3>1
      <4>2. DOMAIN rows[g] = DOMAIN groups[g].ids
        BY <3>1
      <4>3. rows[g][j] \in Entries
        BY <1>5, <4>2, ElementOfSeq, LenProperties
      <4>. QED
        BY <4>1, <4>3 DEF Prices, Process
    <3>3. [j \in DOMAIN rows[g] |-> Prices[rows[g][j]]] = [j \in 1 .. Len(groups[g].ids) |-> 1]
      <4>1. DOMAIN rows[g] = DOMAIN groups[g].ids
        BY <3>1
      <4>. HIDE DEF rows
      <4>. QED
        BY <2>1, <3>2, <4>1
    <3>4. Total([j \in 1 .. Len(groups[g].ids) |-> 1]) = Len(groups[g].ids)
      BY <2>1, TotalOfOnes
    <3>5. Worth[n][groups[g].kind] = 1
      BY <2>1, <2>3, WorthFacts
    <3> DEFINE len == Len(groups[g].ids)
    <3>6. SumOver(rows[g], Prices) = len
      BY <3>3, <3>4 DEF SumOver
    <3>7. 1 * len = len
      <4>1. len \in Nat
        BY <2>1
      <4>. HIDE DEF len
      <4>. QED
        BY <4>1
    <3>. QED
      BY <3>5, <3>6, <3>7
  <2>. QED
    BY <2>2, <2>3
<1>7. [g \in DOMAIN rows |-> SumOver(rows[g], Prices)] =
      [g \in G |-> Worth[n][groups[g].kind] * Len(groups[g].ids)]
  <2>. HIDE DEF rows
  <2>. QED
    BY <1>5, <1>6
<1>8. SumOverAll(rows, Prices) = Total([g \in DOMAIN rows |-> SumOver(rows[g], Prices)])
  BY DEF SumOverAll
<1>9. Owed(n, groups) = Total([g \in G |-> Worth[n][groups[g].kind] * Len(groups[g].ids)])
  BY DEF Owed
<1>. HIDE DEF rows, G
<1>. QED
  BY <1>4, <1>7, <1>8, <1>9

(* An error for all that was in a call: to an endpoint, or to a processor, of events. *)
LEMMA OwedWhereOne ==
    ASSUME NEW n \in Nodes, NEW groups \in Seq(Groups),
           \A g \in DOMAIN groups : Worth[n][groups[g].kind] = 1
    PROVE  Owed(n, groups) = Count(groups)
<1> DEFINE G == DOMAIN groups
<1>1. \A g \in G : Len(groups[g].ids) \in Nat
  <2>1. \A g \in G : groups[g] \in Groups
    BY LenProperties, ElementOfSeq
  <2>. QED
    BY <2>1, LenProperties DEF Groups
<1>2. \A g \in G : Worth[n][groups[g].kind] * Len(groups[g].ids) = Len(groups[g].ids)
  <2> TAKE g \in G
  <2> DEFINE l == Len(groups[g].ids)
  <2>1. l \in Nat /\ Worth[n][groups[g].kind] = 1
    BY <1>1
  <2>. HIDE DEF l
  <2>2. 1 * l = l
    BY <2>1
  <2>. QED
    BY <2>1, <2>2 DEF l
<1>3. [g \in G |-> Worth[n][groups[g].kind] * Len(groups[g].ids)] = [g \in G |-> Len(groups[g].ids)]
  BY <1>2
<1>. QED
  BY <1>3 DEF Owed, Count

(* A sequence with an element more. *)
LEMMA AppendFacts ==
    ASSUME NEW S, NEW s \in Seq(S), NEW x \in S
    PROVE  /\ Append(s, x) \in Seq(S) /\ Len(Append(s, x)) = Len(s) + 1 /\ Len(s) \in Nat
           /\ DOMAIN Append(s, x) = 1 .. Len(s) + 1
           /\ \A k \in 1 .. Len(s) : Append(s, x)[k] = s[k]
           /\ Append(s, x)[Len(s) + 1] = x
<1> DEFINE t == Append(s, x)
<1>1. /\ t \in Seq(S) /\ Len(t) = Len(s) + 1
      /\ \A k \in 1 .. Len(s) : t[k] = s[k]
      /\ t[Len(s) + 1] = x
  BY SMT
<1>. HIDE DEF t
<1>2. DOMAIN t = 1 .. Len(t)
  BY <1>1, LenProperties
<1>. QED
  BY <1>1, <1>2, LenProperties DEF t

(* A sequence with another last element. *)
LEMMA FrontAppended ==
    ASSUME NEW S, NEW s \in Seq(S), s # << >>, NEW x \in S
    PROVE  /\ Append(Front(s), x) \in Seq(S) /\ Len(Append(Front(s), x)) = Len(s)
           /\ Len(s) \in Nat \ {0} /\ DOMAIN Append(Front(s), x) = 1 .. Len(s)
           /\ \A k \in 1 .. Len(s) - 1 : Append(Front(s), x)[k] = s[k]
           /\ Append(Front(s), x)[Len(s)] = x
<1> DEFINE f == Front(s)
           t == Append(f, x)
<1>1. /\ Len(s) \in Nat \ {0} /\ f \in Seq(S) /\ Len(f) = Len(s) - 1
      /\ \A k \in 1 .. Len(s) - 1 : f[k] = s[k]
  BY FrontLast
<1>. HIDE DEF f
<1>2. /\ t \in Seq(S) /\ Len(t) = Len(f) + 1 /\ DOMAIN t = 1 .. Len(f) + 1
      /\ \A k \in 1 .. Len(f) : t[k] = f[k]
      /\ t[Len(f) + 1] = x
  BY <1>1, AppendFacts
<1>. HIDE DEF t
<1>. QED
  BY <1>1, <1>2 DEF t, f

(* Sums over sequences are numbers. *)
LEMMA SumOverType ==
    ASSUME NEW S, NEW s \in Seq(S), NEW w, w \in Counts(S)
    PROVE  SumOver(s, w) \in Nat
<1> DEFINE f == [j \in DOMAIN s |-> w[s[j]]]
<1>1. DOMAIN s = 1 .. Len(s) /\ Len(s) \in Nat /\ \A j \in DOMAIN s : s[j] \in S
  BY LenProperties, ElementOfSeq
<1>2. IsFiniteSet(1 .. Len(s))
  BY <1>1, FS_Interval
<1>3. f \in [1 .. Len(s) -> Nat]
  BY <1>1 DEF Counts
<1>. HIDE DEF f
<1>4. Total(f) \in Nat
  BY <1>2, <1>3, PairsFinite
<1>. QED
  BY <1>4 DEF SumOver, f

(* There is nothing to sum over the empty sequence. *)
LEMMA SumOverNone ==
    ASSUME NEW w
    PROVE  SumOver(<< >>, w) = 0
<1> DEFINE f == [j \in DOMAIN << >> |-> w[<< >>[j]]]
<1>1. DOMAIN f = {}
  OBVIOUS
<1>. HIDE DEF f
<1>2. Total(f) = 0
  BY <1>1, TotalOfNone
<1>. QED
  BY <1>2 DEF SumOver, f

(* What a frame that counts has counted, and will have. *)
Balance(fr) == fr.failed + fr.succeeded + fr.held + SumOver(fr.todo, Prices)

(* What a result adds to the counts. *)
Amount(e, r) == IF r.error THEN Weight(e) ELSE r.failed + r.succeeded + r.held

(* The balance of a frame is a number. *)
LEMMA BalanceType ==
    ASSUME NEW fr \in Frames
    PROVE  /\ fr.failed \in Nat /\ fr.succeeded \in Nat /\ fr.held \in Nat /\ SumOver(fr.todo, Prices) \in Nat
           /\ Balance(fr) \in Nat /\ fr.node \in Nodes /\ fr.todo \in Seq(Entries)
<1>1. /\ fr.failed \in Nat /\ fr.succeeded \in Nat /\ fr.held \in Nat /\ fr.node \in Nodes /\ fr.todo \in Seq(Entries)
  BY DEF Frames
<1>2. SumOver(fr.todo, Prices) \in Nat
  BY <1>1, PricesType, SumOverType
<1>. QED
  BY <1>1, <1>2 DEF Balance

(* A result that is worth its entry keeps the balance. *)
LEMMA TookBalance ==
    ASSUME NEW fr \in Frames, fr.item = None, fr.todo # << >>, NEW r \in Results
    PROVE  LET e == Head(fr.todo)
           IN  /\ Took(fr, r).failed + Took(fr, r).succeeded + Took(fr, r).held = fr.failed + fr.succeeded + fr.held + Amount(e, r)
               /\ Took(fr, r).succeeded = fr.succeeded + (IF r.error THEN 0 ELSE r.succeeded)
               /\ Took(fr, r).held = fr.held + (IF r.error THEN 0 ELSE r.held)
               /\ Amount(e, r) = Prices[e] => Balance(Took(fr, r)) = Balance(fr)
<1> DEFINE e == Head(fr.todo)
           w == Weight(e)
           more == SumOver(Tail(fr.todo), Prices)
           all == SumOver(fr.todo, Prices)
<1>1. /\ fr.failed \in Nat /\ fr.succeeded \in Nat /\ fr.held \in Nat /\ fr.todo \in Seq(Entries) /\ e \in Entries
  <2>1. fr.failed \in Nat /\ fr.succeeded \in Nat /\ fr.held \in Nat /\ fr.todo \in Seq(Entries)
    BY BalanceType
  <2>. QED
    BY <2>1, HeadTailProperties
<1>2. r.error \in BOOLEAN /\ r.failed \in Nat /\ r.succeeded \in Nat /\ r.held \in Nat /\ w \in Nat
  BY <1>1, WeightType DEF Results
<1>3. /\ Took(fr, r).todo = Tail(fr.todo)
      /\ Took(fr, r).failed = fr.failed + (IF r.error THEN w ELSE r.failed)
      /\ Took(fr, r).succeeded = fr.succeeded + (IF r.error THEN 0 ELSE r.succeeded)
      /\ Took(fr, r).held = fr.held + (IF r.error THEN 0 ELSE r.held)
  BY DEF Took, Frames
<1>4. more \in Nat /\ all = Prices[e] + more
  BY <1>1, PricesType, TotalHeadTail
<1>5. Prices[e] \in Nat
  BY <1>1, PricesType DEF Counts
<1>6. Amount(e, r) = IF r.error THEN w ELSE r.failed + r.succeeded + r.held
  BY DEF Amount
<1>7. Balance(Took(fr, r)) = Took(fr, r).failed + Took(fr, r).succeeded + Took(fr, r).held + more
  BY <1>3 DEF Balance
<1>8. Balance(fr) = fr.failed + fr.succeeded + fr.held + all
  BY DEF Balance
<1>. HIDE DEF e, w, more, all
<1>9. Took(fr, r).failed + Took(fr, r).succeeded + Took(fr, r).held = fr.failed + fr.succeeded + fr.held + Amount(e, r)
  BY <1>1, <1>2, <1>3, <1>6
<1>10. Amount(e, r) = Prices[e] => Balance(Took(fr, r)) = Balance(fr)
  <2> DEFINE before == fr.failed + fr.succeeded + fr.held
             after == Took(fr, r).failed + Took(fr, r).succeeded + Took(fr, r).held
  <2>1. before \in Nat
    BY <1>1
  <2>2. after = before + Amount(e, r) /\ Balance(Took(fr, r)) = after + more /\ Balance(fr) = before + all
    BY <1>7, <1>8, <1>9
  <2>. HIDE DEF before, after
  <2>3. ASSUME Amount(e, r) = Prices[e] PROVE after \in Nat /\ after + more = before + all
    BY <1>4, <1>5, <2>1, <2>2, <2>3
  <2>. QED
    BY <2>2, <2>3
<1>. QED
  BY <1>3, <1>9, <1>10 DEF e

-----------------------------------------------------------------------------
(* The books of a stack.  A call under way that counts will have counted, in the end, what the *)
(* one that made it is to be answered; a proxy has no agenda to be measured by: its output may *)
(* change between two calls.                                                                   *)
Balanced(below, above) ==
    above.item = None => Balance(above) = Owed(above.node, Head(below.todo).groups)

Chain(st) ==
    /\ \A k \in DOMAIN st : /\ Role[st[k].node] \in {"proxy", "splitter", "processor"}
                            /\ k # 1 => Role[st[k].node] # "proxy"
    /\ \A k \in 1 .. Len(st) - 1 : Balanced(st[k], st[k + 1])

Base(st) ==
    IF Role[st[1].node] = "proxy"
    THEN st[1].failed + st[1].succeeded + st[1].held +
         (IF Len(st) = 1 THEN 0 ELSE Owed(st[2].node, Head(st[1].todo).groups))
    ELSE Balance(st[1])

(* A call keeps the books. *)
LEMMA ChainPushed ==
    ASSUME NEW st \in Seq(Frames), st # << >>, Chain(st), NEW fr \in Frames,
           Role[fr.node] \in {"splitter", "processor"}, Balanced(Last(st), fr)
    PROVE  /\ Chain(Append(st, fr))
           /\ IF Role[Last(st).node] = "proxy"
              THEN Base(Append(st, fr)) = Base(st) + Owed(fr.node, Head(Last(st).todo).groups)
              ELSE Base(Append(st, fr)) = Base(st)
<1> DEFINE N == Len(st)
           t == Append(st, fr)
           owed == Owed(fr.node, Head(Last(st).todo).groups)
<1>1. /\ N \in Nat \ {0} /\ DOMAIN st = 1 .. N /\ Last(st) = st[N]
      /\ t \in Seq(Frames) /\ Len(t) = N + 1 /\ DOMAIN t = 1 .. N + 1
      /\ \A k \in 1 .. N : t[k] = st[k]
      /\ t[N + 1] = fr
  <2>1. N \in Nat \ {0} /\ DOMAIN st = 1 .. N /\ Last(st) = st[N]
    BY FrontLast
  <2>2. /\ t \in Seq(Frames) /\ Len(t) = N + 1 /\ DOMAIN t = 1 .. N + 1
        /\ \A k \in 1 .. N : t[k] = st[k]
        /\ t[N + 1] = fr
    BY AppendFacts
  <2>. QED
    BY <2>1, <2>2
<1>. HIDE DEF N, t, owed
<1>2. st[1] \in Frames
  BY <1>1, ElementOfSeq
<1>3. Chain(t)
  <2>1. ASSUME NEW k \in DOMAIN t
        PROVE  /\ Role[t[k].node] \in {"proxy", "splitter", "processor"}
               /\ k # 1 => Role[t[k].node] # "proxy"
    <3>1. CASE k \in 1 .. N
      BY <1>1, <3>1 DEF Chain
    <3>2. CASE k = N + 1
      BY <1>1, <3>2
    <3>. QED
      BY <1>1, <3>1, <3>2
  <2>2. ASSUME NEW k \in 1 .. Len(t) - 1 PROVE Balanced(t[k], t[k + 1])
    <3>1. CASE k \in 1 .. N - 1
      <4>1. t[k] = st[k] /\ t[k + 1] = st[k + 1]
        BY <1>1, <3>1
      <4>. QED
        BY <3>1, <4>1 DEF Chain, N
    <3>2. CASE k = N
      <4>1. t[k] = Last(st) /\ t[k + 1] = fr
        BY <1>1, <3>2
      <4>. QED
        BY <4>1
    <3>. QED
      BY <1>1, <3>1, <3>2
  <2>. QED
    BY <2>1, <2>2 DEF Chain
<1>4. CASE Role[Last(st).node] = "proxy"
  <2>1. N = 1
    BY <1>1, <1>4 DEF Chain
  <2>2. Base(st) = st[1].failed + st[1].succeeded + st[1].held + 0
    BY <1>1, <1>4, <2>1 DEF Base, N
  <2>3. Base(t) = st[1].failed + st[1].succeeded + st[1].held + owed
    BY <1>1, <1>4, <2>1 DEF Base, N, owed
  <2>4. st[1].failed \in Nat /\ st[1].succeeded \in Nat /\ st[1].held \in Nat
    BY <1>2, BalanceType
  <2>5. st[1].failed + st[1].succeeded + st[1].held + 0 = st[1].failed + st[1].succeeded + st[1].held
    BY <2>4
  <2>. QED
    BY <1>3, <1>4, <2>2, <2>3, <2>5 DEF t, owed
<1>5. CASE Role[Last(st).node] # "proxy"
  <2>1. t[1] = st[1] /\ Len(t) # 1
    BY <1>1
  <2>2. CASE Role[st[1].node] = "proxy"
    <3>1. N # 1
      BY <1>1, <1>5, <2>2
    <3>2. t[2] = st[2]
      BY <1>1, <3>1
    <3>. QED
      BY <1>3, <1>5, <2>1, <2>2, <3>1, <3>2 DEF Base, t, N
  <2>3. CASE Role[st[1].node] # "proxy"
    BY <1>3, <1>5, <2>1, <2>3 DEF Base, t
  <2>. QED
    BY <2>2, <2>3
<1>. QED
  BY <1>4, <1>5

(* A change of the frame on top that keeps its balance keeps the books. *)
LEMMA ChainReplaced ==
    ASSUME NEW st \in Seq(Frames), st # << >>, Chain(st), st[1].item = None, NEW fr \in Frames,
           fr.node = Last(st).node, fr.item = Last(st).item,
           fr.item = None /\ Role[fr.node] # "proxy" => Balance(fr) = Balance(Last(st))
    PROVE  /\ Chain(Append(Front(st), fr))
           /\ IF Role[fr.node] = "proxy"
              THEN /\ Base(Append(Front(st), fr)) = fr.failed + fr.succeeded + fr.held
                   /\ Base(st) = Last(st).failed + Last(st).succeeded + Last(st).held
              ELSE Base(Append(Front(st), fr)) = Base(st)
<1> DEFINE N == Len(st)
           t == Append(Front(st), fr)
<1>1. /\ N \in Nat \ {0} /\ DOMAIN st = 1 .. N /\ Last(st) = st[N]
      /\ t \in Seq(Frames) /\ Len(t) = N /\ DOMAIN t = 1 .. N
      /\ \A k \in 1 .. N - 1 : t[k] = st[k]
      /\ t[N] = fr
  BY FrontLast, FrontAppended
<1>. HIDE DEF N, t
<1>2. st[1] \in Frames /\ Last(st) \in Frames
  BY <1>1, ElementOfSeq
<1>3. \A k \in 1 .. N : t[k].node = st[k].node /\ t[k].item = st[k].item
  BY <1>1
<1>4. Chain(t)
  <2>1. ASSUME NEW k \in DOMAIN t
        PROVE  /\ Role[t[k].node] \in {"proxy", "splitter", "processor"}
               /\ k # 1 => Role[t[k].node] # "proxy"
    BY <1>1, <1>3 DEF Chain
  <2>2. ASSUME NEW k \in 1 .. Len(t) - 1 PROVE Balanced(t[k], t[k + 1])
    <3>1. Balanced(st[k], st[k + 1]) /\ t[k] = st[k] /\ k + 1 \in 1 .. N /\ k + 1 # 1
      BY <1>1 DEF Chain, N
    <3>2. CASE k \in 1 .. N - 2
      <4>1. t[k + 1] = st[k + 1]
        BY <1>1, <3>2
      <4>. QED
        BY <3>1, <4>1
    <3>3. CASE k = N - 1
      <4>1. t[k + 1] = fr /\ st[k + 1] = Last(st) /\ Role[Last(st).node] # "proxy"
        BY <1>1, <3>1, <3>3 DEF Chain
      <4>. QED
        BY <3>1, <4>1 DEF Balanced
    <3>. QED
      BY <1>1, <3>2, <3>3
  <2>. QED
    BY <2>1, <2>2 DEF Chain
<1>5. CASE Role[fr.node] = "proxy"
  <2>1. N = 1 /\ st[1] = Last(st) /\ t[1] = fr
    BY <1>1, <1>5 DEF Chain
  <2>2. /\ Base(st) = Last(st).failed + Last(st).succeeded + Last(st).held + 0
        /\ Base(t) = fr.failed + fr.succeeded + fr.held + 0
    BY <1>1, <1>5, <2>1 DEF Base, N
  <2>3. /\ fr.failed \in Nat /\ fr.succeeded \in Nat /\ fr.held \in Nat
        /\ Last(st).failed \in Nat /\ Last(st).succeeded \in Nat /\ Last(st).held \in Nat
    BY <1>2, BalanceType
  <2>. QED
    BY <1>4, <1>5, <2>2, <2>3 DEF t
<1>6. CASE Role[fr.node] # "proxy"
  <2>1. CASE N = 1
    <3>1. st[1] = Last(st) /\ t[1] = fr
      BY <1>1, <2>1
    <3>. QED
      BY <1>4, <1>6, <3>1 DEF Base, t
  <2>2. CASE N # 1
    <3>1. t[1] = st[1] /\ t[2].node = st[2].node /\ Len(t) = Len(st)
      BY <1>1, <1>3, <2>2 DEF N
    <3>. QED
      BY <1>4, <1>6, <3>1 DEF Base, t
  <2>. QED
    BY <2>1, <2>2
<1>. QED
  BY <1>5, <1>6

(* The books without the call on top. *)
LEMMA ChainPopped ==
    ASSUME NEW st \in Seq(Frames), st # << >>, Chain(st), Len(st) # 1
    PROVE  /\ Chain(Front(st)) /\ Balanced(Last(Front(st)), Last(st))
           /\ Role[Last(st).node] \in {"splitter", "processor"}
           /\ IF Role[Last(Front(st)).node] = "proxy"
              THEN Base(st) = Base(Front(st)) + Owed(Last(st).node, Head(Last(Front(st)).todo).groups)
              ELSE Base(st) = Base(Front(st))
<1> DEFINE N == Len(st)
           t == Front(st)
<1>1. /\ N \in Nat \ {0} /\ DOMAIN st = 1 .. N /\ Last(st) = st[N]
      /\ t \in Seq(Frames) /\ Len(t) = N - 1 /\ DOMAIN t = 1 .. N - 1
      /\ \A k \in 1 .. N - 1 : t[k] = st[k]
  BY FrontLast, LenProperties
<1>. HIDE DEF N, t
<1>2. N >= 2
  BY <1>1 DEF N
<1>3. Last(t) = st[N - 1]
  <2>1. t # << >>
    BY <1>1, <1>2
  <2>2. Last(t) = t[Len(t)]
    BY <1>1, <2>1, FrontLast
  <2>. QED
    BY <1>1, <1>2, <2>2
<1>4. Balanced(Last(t), Last(st)) /\ Role[Last(st).node] \in {"splitter", "processor"}
  <2>1. Balanced(st[N - 1], st[N - 1 + 1]) /\ N - 1 + 1 = N
    BY <1>1, <1>2 DEF Chain, N
  <2>2. Role[st[N].node] \in {"splitter", "processor"}
    BY <1>1, <1>2 DEF Chain
  <2>. QED
    BY <1>1, <1>3, <2>1, <2>2
<1>5. Chain(t)
  <2>1. ASSUME NEW k \in DOMAIN t
        PROVE  /\ Role[t[k].node] \in {"proxy", "splitter", "processor"}
               /\ k # 1 => Role[t[k].node] # "proxy"
    BY <1>1 DEF Chain
  <2>2. ASSUME NEW k \in 1 .. Len(t) - 1 PROVE Balanced(t[k], t[k + 1])
    <3>1. Balanced(st[k], st[k + 1]) /\ t[k] = st[k] /\ t[k + 1] = st[k + 1]
      BY <1>1 DEF Chain, N
    <3>. QED
      BY <3>1
  <2>. QED
    BY <2>1, <2>2 DEF Chain
<1>6. CASE Role[Last(t).node] = "proxy"
  <2>1. N = 2
    BY <1>1, <1>2, <1>3, <1>6 DEF Chain
  <2>2. t[1] = st[1] /\ Last(t) = st[1] /\ Last(st) = st[2] /\ st[1] \in Frames
    BY <1>1, <1>3, <2>1, ElementOfSeq
  <2>3. /\ Base(st) = st[1].failed + st[1].succeeded + st[1].held + Owed(st[2].node, Head(st[1].todo).groups)
        /\ Base(t) = st[1].failed + st[1].succeeded + st[1].held + 0
    BY <1>1, <1>6, <2>1, <2>2 DEF Base, N
  <2>4. st[1].failed \in Nat /\ st[1].succeeded \in Nat /\ st[1].held \in Nat
    BY <2>2, BalanceType
  <2>5. st[1].failed + st[1].succeeded + st[1].held + 0 = st[1].failed + st[1].succeeded + st[1].held
    BY <2>4
  <2>. QED
    BY <1>4, <1>5, <1>6, <2>2, <2>3, <2>5 DEF t
<1>7. CASE Role[Last(t).node] # "proxy"
  <2>1. t[1] = st[1]
    BY <1>1, <1>2
  <2>2. CASE Role[st[1].node] = "proxy"
    <3>1. N # 2
      BY <1>1, <1>3, <1>7, <2>2
    <3>2. t[2] = st[2] /\ Len(t) # 1 /\ Len(st) # 1
      BY <1>1, <1>2, <3>1 DEF N
    <3>. QED
      BY <1>4, <1>5, <1>7, <2>1, <2>2, <3>2 DEF Base, t
  <2>3. CASE Role[st[1].node] # "proxy"
    BY <1>4, <1>5, <1>7, <2>1, <2>3 DEF Base, t
  <2>. QED
    BY <2>2, <2>3
<1>. QED
  BY <1>6, <1>7

(* A result is taken: what is left to do and what it brings are worth the same. *)
LEMMA ChainDelivered ==
    ASSUME NEW h, IsHeap(h), NEW n, NEW st, StackOK(h, n, st), st # << >>, Chain(st),
           Last(st).todo # << >>, NEW r \in Results,
           Last(st).item = None /\ Role[Last(st).node] # "proxy" =>
               Amount(Head(Last(st).todo), r) = Prices[Head(Last(st).todo)]
    PROVE  /\ Chain(Deliver(st, r))
           /\ IF Role[Last(st).node] = "proxy"
              THEN Base(Deliver(st, r)) = Base(st) + Amount(Head(Last(st).todo), r)
              ELSE Base(Deliver(st, r)) = Base(st)
<1> DEFINE top == Last(st)
           fr == Took(top, r)
<1>1. st \in Seq(Frames) /\ st[1].item = None /\ top \in Frames /\ FrameOK(h, top)
  <2>1. st \in Seq(Frames) /\ st[1].item = None /\ \A k \in DOMAIN st : FrameOK(h, st[k])
    BY DEF StackOK
  <2>2. top = st[Len(st)] /\ Len(st) \in DOMAIN st /\ top \in Frames
    BY <2>1, FrontLast
  <2>. QED
    BY <2>1, <2>2
<1>2. fr \in Frames /\ fr.node = top.node /\ fr.item = top.item
  BY <1>1, TookFrame, FrameType
<1>3. top.item = None =>
         /\ fr.failed + fr.succeeded + fr.held = top.failed + top.succeeded + top.held + Amount(Head(top.todo), r)
         /\ Amount(Head(top.todo), r) = Prices[Head(top.todo)] => Balance(fr) = Balance(top)
  BY <1>1, TookBalance
<1>4. Role[top.node] = "proxy" => top.item = None
  BY <1>1 DEF FrameOK, ItemOf
<1>5. Deliver(st, r) = Append(Front(st), fr)
  BY DEF Deliver
<1>. HIDE DEF fr
<1>6. /\ Chain(Append(Front(st), fr))
      /\ IF Role[fr.node] = "proxy"
         THEN /\ Base(Append(Front(st), fr)) = fr.failed + fr.succeeded + fr.held
              /\ Base(st) = Last(st).failed + Last(st).succeeded + Last(st).held
         ELSE Base(Append(Front(st), fr)) = Base(st)
  BY <1>1, <1>2, <1>3, ChainReplaced
<1>. QED
  BY <1>2, <1>3, <1>4, <1>5, <1>6

(* The last element of a sequence is in the set of its elements. *)
LEMMA AppendedIn ==
    ASSUME NEW S, NEW s \in Seq(S), NEW x, Append(s, x) \in Seq(S)
    PROVE  x \in S
<1> DEFINE U == S \cup {x}
           t == Append(s, x)
<1>1. s \in Seq(U) /\ x \in U
  BY SeqMonotonic
<1>2. /\ Len(t) = Len(s) + 1 /\ Len(s) \in Nat /\ t[Len(s) + 1] = x
  <2>. HIDE DEF U
  <2>. QED
    BY <1>1, AppendFacts
<1>3. t \in Seq(S)
  OBVIOUS
<1>. HIDE DEF t
<1>4. Len(s) + 1 \in 1 .. Len(t)
  BY <1>2
<1>. QED
  BY <1>2, <1>3, <1>4, ElementOfSeq

(* What processors do with an item leaves everything to the frames of items. *)
LEMMA ItemSteps ==
    ASSUME TypeInv, TakeItem \/ ApplyRule \/ FailAction \/ Signal \/ Change \/ Create
    PROVE  /\ pc = "serve" /\ UNCHANGED <<pc, request, answer, due, offers>> /\ begun \subseteq begun'
           /\ Role[Top.node] = "processor"
           /\ \E fr \in Frames :
                 /\ fr.node = Top.node /\ fr.item # None
                 /\ \/ /\ stack' = Append(stack, fr) /\ <<fr.node, fr.item>> \in begun'
                       /\ fr.succeeded = 0 /\ fr.failed = 0 /\ fr.held = 0
                    \/ /\ stack' = ReplaceTop(fr) /\ fr.item = Top.item
                       /\ fr.succeeded = Top.succeeded /\ fr.failed = Top.failed /\ fr.held = Top.held
                       /\ fr.error = TRUE \/ fr.error = Top.error
<1>1. /\ pc = "serve" /\ UNCHANGED <<pc, request, answer, due, offers>> /\ begun \subseteq begun'
  BY DEF TakeItem, ApplyRule, FailAction, Signal, Change, Create, Doing, Acting, ProcessItem, history
<1>2. TypeInv'
  BY StepKeepsType DEF Next, Serve
<1>3. /\ stack \in Seq(Frames) /\ stack' \in Seq(Frames) /\ stack # << >>
      /\ Front(stack) \in Seq(Frames) /\ Top \in Frames /\ IsHeap(heap) /\ FrameOK(heap, Top)
  <2>1. stack \in Seq(Frames) /\ stack # << >> /\ stack' \in Seq(Frames) /\ IsHeap(heap) /\ FrameOK(heap, Top)
    BY <1>1, <1>2, ServeFacts DEF TypeInv, TypeOK
  <2>. QED
    BY <2>1, FrontLast, FrameType
<1>4. CASE TakeItem \/ Create
  <2>1. PICK i : /\ stack' = Append(stack, Frame(Top.node, i, ItemAgenda(Top.node, i, heap'[i].kind)))
                 /\ begun' = begun \cup {<<Top.node, i>>}
                 /\ Role[Top.node] = "processor" /\ i \in Nat \ {0}
    <3>1. CASE TakeItem
      <4>1. /\ Entry = Head(Top.todo) /\ heap' = heap
            /\ stack' = Append(stack, Frame(Top.node, Entry.item,
                                            ItemAgenda(Top.node, Entry.item, heap[Entry.item].kind)))
            /\ begun' = begun \cup {<<Top.node, Entry.item>>}
            /\ Top.todo # << >> /\ Head(Top.todo).do = "process"
        BY <3>1 DEF TakeItem, ProcessItem, Entry, Doing
      <4>2. Role[Top.node] = "processor" /\ Entry.item \in OfKinds(heap, RuleKinds)
        BY <1>3, <4>1, ProcessFacts
      <4>3. Entry.item \in Nat \ {0}
        BY <1>3, <4>2, HeapFacts DEF OfKinds
      <4>. QED
        BY <4>1, <4>2, <4>3
    <3>2. CASE Create
      <4>1. /\ Doing("action")
            /\ stack' = Append(stack, Frame(Top.node, Len(heap) + 1,
                                            ItemAgenda(Top.node, Len(heap) + 1, heap'[Len(heap) + 1].kind)))
            /\ begun' = begun \cup {<<Top.node, Len(heap) + 1>>}
        BY <3>2 DEF Create, ProcessItem, Acting
      <4>2. Role[Top.node] = "processor" /\ Len(heap) + 1 \in Nat \ {0}
        BY <1>3, <4>1, RuleSteps, HeapFacts
      <4>. QED
        BY <4>1, <4>2
    <3>. QED
      BY <1>4, <3>1, <3>2
  <2> DEFINE fr == Frame(Top.node, i, ItemAgenda(Top.node, i, heap'[i].kind))
  <2>2. /\ fr.node = Top.node /\ fr.item = i /\ fr.item # None /\ fr.succeeded = 0 /\ fr.failed = 0 /\ fr.held = 0
    BY <2>1 DEF Frame, None
  <2>3. stack' = Append(stack, fr) /\ <<fr.node, fr.item>> \in begun'
    BY <2>1, <2>2
  <2>. HIDE DEF fr
  <2>4. fr \in Frames
    BY <1>3, <2>3, AppendedIn
  <2>. QED
    BY <1>1, <2>1, <2>2, <2>3, <2>4
<1>5. CASE ApplyRule \/ FailAction \/ Signal \/ Change
  <2>1. Doing("rule") \/ Doing("action")
    BY <1>5 DEF ApplyRule, FailAction, Signal, Change, Acting
  <2>2. Role[Top.node] = "processor" /\ Top.item # None
    BY <2>1, RuleSteps DEF None
  <2>3. \E todo : \E error \in BOOLEAN :
           /\ stack' = ReplaceTop([Top EXCEPT !.todo = todo, !.error = error])
           /\ error = TRUE \/ error = Top.error
    <3>1. Top.error \in BOOLEAN /\ \A todo : [Top EXCEPT !.todo = todo, !.error = Top.error] =
                                              [Top EXCEPT !.todo = todo]
      BY <1>3 DEF Frames
    <3>2. CASE FailAction
      <4>1. stack' = ReplaceTop([Top EXCEPT !.todo = << >>, !.error = TRUE])
        BY <3>2 DEF FailAction
      <4>. QED
        BY <4>1
    <3>3. CASE ApplyRule \/ Signal \/ Change
      <4>1. PICK todo : stack' = ReplaceTop([Top EXCEPT !.todo = todo])
        BY <3>3 DEF ApplyRule, Signal, Change, Proceed
      <4>2. stack' = ReplaceTop([Top EXCEPT !.todo = todo, !.error = Top.error])
        BY <3>1, <4>1
      <4>. QED
        BY <3>1, <4>2
    <3>. QED
      BY <1>5, <3>2, <3>3
  <2>. PICK todo : \E error \in BOOLEAN :
           /\ stack' = ReplaceTop([Top EXCEPT !.todo = todo, !.error = error])
           /\ error = TRUE \/ error = Top.error
    BY <2>3
  <2>. PICK error \in BOOLEAN :
           /\ stack' = ReplaceTop([Top EXCEPT !.todo = todo, !.error = error])
           /\ error = TRUE \/ error = Top.error
    OBVIOUS
  <2> DEFINE fr == [Top EXCEPT !.todo = todo, !.error = error]
  <2>4. /\ fr.node = Top.node /\ fr.item = Top.item /\ fr.succeeded = Top.succeeded
        /\ fr.failed = Top.failed /\ fr.held = Top.held /\ fr.error = error
    BY <1>3 DEF Frames
  <2>5. stack' = ReplaceTop(fr)
    OBVIOUS
  <2>. HIDE DEF fr
  <2>6. fr \in Frames
    BY <1>3, <2>5, AppendedIn DEF ReplaceTop
  <2>. QED
    BY <1>1, <2>2, <2>4, <2>5, <2>6
<1>. QED
  BY <1>4, <1>5

-----------------------------------------------------------------------------

(* A call that has just begun is worth what is owed for its message. *)
LEMMA EnterBalance ==
    ASSUME NEW h, IsHeap(h), NEW n, NEW groups, Acceptable(h, n, groups),
           Role[n] \in {"splitter", "processor"}
    PROVE  Balance(Enter(n, groups)) = Owed(n, groups)
<1>1. n \in Nodes /\ groups \in Seq(Sendable(h)) /\ ~Unimplemented(n, groups)
  BY DEF Acceptable
<1>2. Owed(n, groups) \in Nat
  <2>1. groups \in Seq(Groups)
    BY <1>1, SendableType, SeqMonotonic
  <2>. QED
    BY <1>1, <2>1, OwedType
<1>3. CASE Role[n] = "splitter"
  <2>1. Enter(n, groups) = Frame(n, None, SplitterAgenda(n, groups))
    BY <1>3 DEF Enter
  <2>2. SumOver(SplitterAgenda(n, groups), Prices) = Owed(n, groups)
    BY <1>1, <1>3, SplitterOwes
  <2>. QED
    BY <1>2, <2>1, <2>2 DEF Balance, Frame
<1>4. CASE Role[n] = "processor"
  <2>1. Enter(n, groups) = Frame(n, None, ProcessorAgenda(n, groups))
    BY <1>4 DEF Enter
  <2>2. SumOver(ProcessorAgenda(n, groups), Prices) = Owed(n, groups)
    BY <1>1, <1>4, ProcessorOwes
  <2>. QED
    BY <1>2, <2>1, <2>2 DEF Balance, Frame
<1>. QED
  BY <1>3, <1>4

(* What the calls under way have counted and will count is what the answer must account for. *)
DueInv ==
    /\ pc \in {"check", "lookUp"} => due = 0
    /\ pc = "serve" /\ Role[request.node] # "writer" => Chain(stack) /\ Base(stack) = due
    /\ Counted => answer.failed + answer.succeeded + answer.held = due

(* A call of one frame. *)
LEMMA ChainOfOne ==
    ASSUME NEW fr \in Frames, Role[fr.node] \in {"proxy", "splitter", "processor"}
    PROVE  /\ Chain(<<fr>>)
           /\ Base(<<fr>>) = IF Role[fr.node] = "proxy" THEN fr.failed + fr.succeeded + fr.held ELSE Balance(fr)
<1>1. Len(<<fr>>) = 1 /\ DOMAIN <<fr>> = {1} /\ <<fr>>[1] = fr
  OBVIOUS
<1>2. fr.failed \in Nat /\ fr.succeeded \in Nat /\ fr.held \in Nat
  BY BalanceType
<1>3. fr.failed + fr.succeeded + fr.held + 0 = fr.failed + fr.succeeded + fr.held
  BY <1>2
<1>. QED
  BY <1>1, <1>3 DEF Chain, Base

(* A request that comes opens the books. *)
LEMMA ReceiveDue ==
    ASSUME TypeInv, NEW q \in Requests, Receive(q)
    PROVE  DueInv'
<1> DEFINE refused == Unimplemented(q.node, q.groups)
           proxied == Role[q.node] = "proxy"
<1>1. /\ request' = q
      /\ pc' = IF refused THEN "idle" ELSE IF proxied THEN "check" ELSE "serve"
      /\ stack' = IF refused \/ proxied THEN << >> ELSE <<Enter(q.node, q.groups)>>
      /\ answer' = IF refused THEN Error ELSE Pending
      /\ due' = IF refused \/ proxied THEN 0 ELSE Owed(q.node, q.groups)
  BY DEF Receive
<1>2. ~Counted'
  BY <1>1 DEF Counted, Answered, Error, Result
<1>3. ASSUME pc' = "serve", Role[q.node] # "writer" PROVE Chain(stack') /\ Base(stack') = due'
  <2>1. ~refused /\ ~proxied
    BY <1>1, <1>3
  <2>2. /\ Acceptable(q.items, q.node, q.groups) /\ IsHeap(q.items)
        /\ Role[q.node] \in {"splitter", "processor"}
    BY <1>3, <2>1, RequestFacts
  <2> DEFINE fr == Enter(q.node, q.groups)
  <2>3. fr \in Frames /\ fr.node = q.node
    BY <2>2, Entered, FrameType
  <2>4. Balance(fr) = Owed(q.node, q.groups)
    BY <2>2, EnterBalance
  <2>5. stack' = <<fr>> /\ due' = Balance(fr)
    BY <1>1, <2>1, <2>4
  <2>. HIDE DEF fr
  <2>. QED
    BY <2>1, <2>2, <2>3, <2>5, ChainOfOne
<1>. QED
  BY <1>1, <1>2, <1>3 DEF DueInv

(* A proxy that admits a request owes nothing yet. *)
LEMMA KeysDue ==
    ASSUME TypeInv, DueInv, CheckAPIKey \/ LookUpAPIKey
    PROVE  DueInv'
<1>1. /\ pc \in {"check", "lookUp"} /\ UNCHANGED <<request, due>> /\ due = 0 /\ answer' \in {answer, Error}
      /\ \/ pc' = "serve" /\ stack' = <<Enter(request.node, request.groups)>>
         \/ pc' = "idle" /\ answer' = Error
         \/ pc' = "lookUp"
  BY DEF CheckAPIKey, LookUpAPIKey, Admit, Refuse, history, DueInv
<1>2. Role[request.node] = "proxy" /\ Acceptable(heap, request.node, request.groups) /\ IsHeap(heap)
  BY <1>1 DEF TypeInv, Shape
<1> DEFINE fr == Enter(request.node, request.groups)
<1>3. fr \in Frames /\ fr.node = request.node
  BY <1>2, Entered, FrameType
<1>4. fr.failed = 0 /\ fr.succeeded = 0 /\ fr.held = 0
  BY <1>2 DEF Enter, Frame
<1>. HIDE DEF fr
<1>5. Chain(<<fr>>) /\ Base(<<fr>>) = 0
  BY <1>2, <1>3, <1>4, ChainOfOne
<1>. QED
  BY <1>1, <1>5 DEF DueInv, Counted, Answered, Error, Result, fr

(* A call that is answered at once. *)
LEMMA AnsweredDue ==
    ASSUME TypeInv, DueInv, Doing("call"), Role[request.node] # "writer", NEW r \in Results,
           Amount(Entry, r) = Owed(Target, Entry.groups)
    PROVE  Chain(Deliver(stack, r)) /\ Base(Deliver(stack, r)) = Due
<1>1. /\ pc = "serve" /\ Top.todo # << >> /\ Entry = Head(Top.todo) /\ Entry.do = "call"
      /\ Top = Last(stack)
  BY DEF Doing, Entry, Top
<1>2. IsHeap(heap) /\ StackOK(heap, request.node, stack) /\ stack # << >> /\ Entry \in Entries
  BY <1>1, ServeFacts
<1>3. Chain(stack) /\ Base(stack) = due
  BY <1>1 DEF DueInv
<1>4. Role[Top.node] # "proxy" => Target = Entry.to
  BY DEF Target
<1>5. Prices[Entry] = Owed(Entry.to, Entry.groups)
  BY <1>1, <1>2 DEF Prices
<1>6. /\ Chain(Deliver(stack, r))
      /\ IF Role[Top.node] = "proxy"
         THEN Base(Deliver(stack, r)) = Base(stack) + Amount(Entry, r)
         ELSE Base(Deliver(stack, r)) = Base(stack)
  BY <1>1, <1>2, <1>3, <1>4, <1>5, ChainDelivered
<1>. QED
  BY <1>3, <1>6 DEF Due

(* An endpoint is worth one, and so is a processor for events. *)
LEMMA AnsweredAmount ==
    ASSUME TypeInv, Doing("call"), Role[request.node] # "writer",
           Role[Target] = "endpoint" \/ Unimplemented(Target, Entry.groups),
           Role[Top.node] \notin {"writer", "zenoss"}
    PROVE  Owed(Target, Entry.groups) = Count(Entry.groups) /\ Weight(Entry) = Count(Entry.groups)
<1>1. /\ Target \in Nodes /\ Entry.groups \in Seq(Groups) /\ Target \in Receivers
      /\ Entry.groups = <<Entry.groups[1]>> /\ Len(Entry.groups) = 1 /\ Entry.do = "call"
  BY CallFacts DEF Doing
<1>2. DOMAIN Entry.groups = {1} /\ Entry.groups[1].kind \in ItemKinds
  <2>1. DOMAIN Entry.groups = {1} /\ 1 \in 1 .. Len(Entry.groups)
    BY <1>1, LenProperties
  <2>2. Entry.groups[1] \in Groups
    BY <1>1, <2>1, ElementOfSeq
  <2>. QED
    BY <2>1, <2>2 DEF Groups
<1>3. Worth[Target][Entry.groups[1].kind] = 1
  <2>1. CASE Role[Target] = "endpoint"
    BY <1>1, <1>2, <2>1, WorthFacts
  <2>2. CASE Unimplemented(Target, Entry.groups)
    <3>1. Role[Target] = "processor" /\ Entry.groups[1].kind = "event"
      BY <1>1, <1>2, <2>2 DEF Unimplemented, Receivers
    <3>. QED
      BY <1>1, <1>2, <3>1, WorthFacts
  <2>. QED
    BY <2>1, <2>2
<1>4. Owed(Target, Entry.groups) = Count(Entry.groups)
  BY <1>1, <1>2, <1>3, OwedWhereOne
<1>. QED
  BY <1>1, <1>4 DEF Weight

(* Calls keep the books. *)
LEMMA CallsDue ==
    ASSUME TypeInv, DueInv, Role[request.node] # "writer", CallOutput \/ CallUnimplemented \/ CallEndpoint
    PROVE  Chain(stack') /\ Base(stack') = due'
<1>1. /\ Doing("call") /\ pc = "serve" /\ due' = Due /\ Top.todo # << >> /\ Entry = Head(Top.todo)
      /\ Top = Last(stack)
  BY DEF CallOutput, CallUnimplemented, CallEndpoint, Doing, Entry, Top
<1>2. /\ Chain(stack) /\ Base(stack) = due /\ stack \in Seq(Frames) /\ stack # << >>
      /\ Role[Top.node] \in {"proxy", "splitter", "processor"}
  BY <1>1, ServeFacts DEF DueInv, Chain
<1>3. Target \in Nodes /\ Target \in Receivers
  BY <1>1, <1>2, CallFacts
<1>4. CASE CallOutput
  <2> DEFINE fr == Enter(Target, Entry.groups)
             h  == EnterHeap(Target, Entry.groups)
  <2>1. /\ Role[Target] # "endpoint" /\ ~Unimplemented(Target, Entry.groups)
        /\ stack' = Append(stack, fr)
    BY <1>4 DEF CallOutput
  <2>2. Role[Target] \in {"splitter", "processor"} /\ Acceptable(heap, Target, Entry.groups) /\ IsHeap(heap)
    BY <1>1, <1>3, <2>1, CallFacts, ServeFacts DEF Receivers
  <2>3. fr \in Frames /\ fr.node = Target
    BY <2>2, Entered, FrameType
  <2>4. Balance(fr) = Owed(Target, Entry.groups)
    BY <2>2, EnterBalance
  <2>. HIDE DEF fr
  <2>5. Balanced(Last(stack), fr)
    BY <1>1, <2>3, <2>4 DEF Balanced
  <2>6. /\ Chain(Append(stack, fr))
        /\ IF Role[Top.node] = "proxy"
           THEN Base(Append(stack, fr)) = Base(stack) + Owed(Target, Entry.groups)
           ELSE Base(Append(stack, fr)) = Base(stack)
    BY <1>1, <1>2, <2>2, <2>3, <2>5, ChainPushed
  <2>. QED
    BY <1>1, <1>2, <2>1, <2>6 DEF Due
<1>5. CASE CallUnimplemented
  <2>1. Unimplemented(Target, Entry.groups) /\ stack' = Deliver(stack, Error) /\ Error \in Results
    BY <1>5 DEF CallUnimplemented, Error, Result, Results
  <2>2. Amount(Entry, Error) = Owed(Target, Entry.groups)
    BY <1>1, <1>2, <2>1, AnsweredAmount DEF Amount, Error, Result
  <2>. QED
    BY <1>1, <2>1, <2>2, AnsweredDue
<1>6. CASE CallEndpoint
  <2> DEFINE n == Count(Entry.groups)
  <2>1. Role[Target] = "endpoint" /\ n \in Nat
    BY <1>6, EndpointSteps
  <2>2. PICK r \in Results : /\ stack' = Deliver(stack, r)
                             /\ r = Error \/ \E k, h \in Nat : k + h <= n /\ r = Result(FALSE, n - k - h, k, h)
    BY <1>6, EndpointSteps
  <2>3. Owed(Target, Entry.groups) = n /\ Weight(Entry) = n
    BY <1>1, <1>2, <2>1, AnsweredAmount
  <2>. HIDE DEF n
  <2>4. Amount(Entry, r) = n
    BY <2>1, <2>2, <2>3 DEF Amount, Error, Result
  <2>. QED
    BY <1>1, <2>2, <2>3, <2>4, AnsweredDue
<1>. QED
  BY <1>4, <1>5, <1>6

(* What a call that returns brings its caller. *)
LEMMA ReturnedAmount ==
    ASSUME TypeInv, Return, Len(stack) # 1, Chain(stack)
    PROVE  LET r == IF Top.item = None THEN Result(FALSE, Top.failed, Top.succeeded, Top.held)
                                       ELSE Result(Top.error, 0, 1, 0)
               caller == Last(Front(stack))
               e == Head(caller.todo)
           IN  /\ e \in Entries /\ caller.todo # << >> /\ stack' = Deliver(Front(stack), r)
               /\ Role[caller.node] = "proxy" => Amount(e, r) = Owed(Top.node, e.groups)
               /\ Role[caller.node] # "proxy" => Amount(e, r) = Prices[e]
               /\ r \in Results /\ (Top.item = None \/ e.do \in {"process", "action"})
<1> DEFINE r == IF Top.item = None THEN Result(FALSE, Top.failed, Top.succeeded, Top.held)
                                   ELSE Result(Top.error, 0, 1, 0)
           caller == Last(Front(stack))
           e == Head(caller.todo)
<1>1. /\ pc = "serve" /\ Top.todo = << >> /\ r \in Results /\ stack' = Deliver(Front(stack), r)
      /\ FrameOK(heap, caller) /\ Linked(caller, Top)
  BY ReturnFacts
<1>2. IsHeap(heap) /\ stack \in Seq(Frames) /\ stack # << >> /\ Top = Last(stack) /\ FrameOK(heap, Top)
  BY <1>1, ServeFacts DEF Top
<1>3. Balanced(caller, Top) /\ Role[Top.node] \in {"splitter", "processor"}
  BY <1>2, ChainPopped
<1>4. caller.todo # << >> /\ e \in Entries /\ caller.node \in Nodes /\ Top \in Frames
  BY <1>1, <1>2, TaskFacts, FrameType DEF Linked
<1>5. CASE Top.item = None
  <2>1. e.do = "call" /\ (Top.node = e.to \/ Role[caller.node] = "proxy")
    BY <1>1, <1>5 DEF Linked
  <2>2. Balance(Top) = Owed(Top.node, e.groups)
    BY <1>3, <1>5 DEF Balanced
  <2>3. r = Result(FALSE, Top.failed, Top.succeeded, Top.held)
    BY <1>5
  <2>4. Amount(e, r) = Top.failed + Top.succeeded + Top.held
    BY <2>3 DEF Amount, Result
  <2>5. Balance(Top) = Top.failed + Top.succeeded + Top.held + 0
    BY <1>1, SumOverNone DEF Balance
  <2>6. Top.failed \in Nat /\ Top.succeeded \in Nat /\ Top.held \in Nat
    BY <1>4, BalanceType
  <2>7. Amount(e, r) = Owed(Top.node, e.groups)
    <3>. HIDE DEF e, r, caller
    <3>. QED
      BY <2>2, <2>4, <2>5, <2>6
  <2>8. Prices[e] = Owed(e.to, e.groups)
    BY <1>4, <2>1 DEF Prices
  <2>. HIDE DEF e, r, caller
  <2>. QED
    BY <1>1, <1>4, <1>5, <2>1, <2>7, <2>8 DEF e, r, caller
<1>6. CASE Top.item # None
  <2>1. e.do \in {"process", "action"}
    BY <1>1, <1>3, <1>6 DEF Linked
  <2>2. r = Result(Top.error, 0, 1, 0) /\ Top.error \in BOOLEAN
    BY <1>2, <1>6 DEF FrameOK
  <2>3. Amount(e, r) = 1
    BY <2>1, <2>2 DEF Amount, Result, Weight
  <2>4. Prices[e] = 1
    BY <1>4, <2>1 DEF Prices
  <2>5. Role[caller.node] = "processor"
    BY <1>1, <1>2, <1>4, <2>1, ProcessFacts, RuleFacts
  <2>. HIDE DEF e, r, caller
  <2>. QED
    BY <1>1, <1>4, <2>1, <2>3, <2>4, <2>5 DEF e, r, caller
<1>. QED
  BY <1>5, <1>6

(* Returns keep the books, and the last one answers what is due. *)
LEMMA ReturnDue ==
    ASSUME TypeInv, DueInv, Return
    PROVE  DueInv'
<1> DEFINE r == IF Top.item = None THEN Result(FALSE, Top.failed, Top.succeeded, Top.held)
                                   ELSE Result(Top.error, 0, 1, 0)
           caller == Last(Front(stack))
           e == Head(caller.todo)
<1>1. /\ pc = "serve" /\ Top.todo = << >> /\ UNCHANGED <<request, due>>
      /\ IF Len(stack) = 1 THEN pc' = "idle" /\ answer' = r ELSE pc' = "serve"
  BY ReturnFacts
<1>2. /\ IsHeap(heap) /\ stack \in Seq(Frames) /\ stack # << >> /\ Top = Last(stack)
      /\ FrameOK(heap, Top) /\ StackOK(heap, request.node, stack)
  BY <1>1, ServeFacts DEF Top
<1>3. CASE Role[request.node] = "writer"
  BY <1>1, <1>3 DEF DueInv, Counted
<1>4. CASE Role[request.node] # "writer"
  <2>1. Chain(stack) /\ Base(stack) = due
    BY <1>1, <1>4 DEF DueInv
  <2>2. CASE Len(stack) = 1
    <3>1. Top = stack[1] /\ Top.item = None /\ Top \in Frames
      BY <1>2, <2>2, FrontLast DEF StackOK
    <3>2. Top.failed \in Nat /\ Top.succeeded \in Nat /\ Top.held \in Nat
      BY <3>1, BalanceType
    <3>3. Base(stack) = Top.failed + Top.succeeded + Top.held + 0
      BY <1>1, <2>2, <3>1, SumOverNone DEF Base, Balance
    <3>4. answer' = Result(FALSE, Top.failed, Top.succeeded, Top.held)
      BY <1>1, <2>2, <3>1
    <3>5. answer'.failed + answer'.succeeded + answer'.held = due'
      BY <1>1, <2>1, <3>2, <3>3, <3>4 DEF Result
    <3>. QED
      BY <1>1, <2>2, <3>5 DEF DueInv
  <2>3. CASE Len(stack) # 1
    <3>1. /\ e \in Entries /\ caller.todo # << >> /\ stack' = Deliver(Front(stack), r) /\ r \in Results
          /\ Role[caller.node] = "proxy" => Amount(e, r) = Owed(Top.node, e.groups)
          /\ Role[caller.node] # "proxy" => Amount(e, r) = Prices[e]
      BY <2>1, <2>3, ReturnedAmount
    <3>2. /\ Chain(Front(stack))
          /\ IF Role[caller.node] = "proxy"
             THEN Base(stack) = Base(Front(stack)) + Owed(Top.node, e.groups)
             ELSE Base(stack) = Base(Front(stack))
      BY <1>2, <2>1, <2>3, ChainPopped
    <3>3. StackOK(heap, request.node, Front(stack)) /\ Front(stack) # << >>
      BY <1>2, <2>3, StackPopped
    <3>. HIDE DEF r
    <3>4. /\ Chain(Deliver(Front(stack), r))
          /\ IF Role[caller.node] = "proxy"
             THEN Base(Deliver(Front(stack), r)) = Base(Front(stack)) + Amount(e, r)
             ELSE Base(Deliver(Front(stack), r)) = Base(Front(stack))
      BY <1>2, <3>1, <3>2, <3>3, ChainDelivered
    <3>. HIDE DEF caller, e
    <3>5. Chain(stack') /\ Base(stack') = due'
      BY <1>1, <2>1, <3>1, <3>2, <3>4
    <3>. QED
      BY <1>1, <2>3, <3>5 DEF DueInv, Counted, Answered
  <2>. QED
    BY <2>2, <2>3
<1>. QED
  BY <1>3, <1>4

(* Every step keeps the books. *)
LEMMA StepDue ==
    TypeInv /\ DueInv /\ [Next]_vars => DueInv'
<1> SUFFICES ASSUME TypeInv, DueInv, [Next]_vars PROVE DueInv'
  OBVIOUS
<1>1. CASE SetConfig \/ \E w \in setting : SetAllowed(w) \/ SetOutput(w)
  <2>1. UNCHANGED <<request, pc, stack, answer, due>>
    BY <1>1 DEF SetConfig, SetAllowed, SetOutput, history
  <2>. QED
    BY <2>1 DEF DueInv, Counted, Answered
<1>2. CASE \E q \in Requests : Receive(q)
  BY <1>2, ReceiveDue
<1>3. CASE CheckAPIKey \/ LookUpAPIKey
  BY <1>3, KeysDue
<1>4. CASE CallOutput \/ CallUnimplemented \/ CallEndpoint
  <2>1. pc = "serve" /\ UNCHANGED <<pc, request>>
    BY <1>4 DEF CallOutput, CallUnimplemented, CallEndpoint, Doing
  <2>. QED
    BY <1>4, <2>1, CallsDue DEF DueInv, Counted, Answered
<1>5. CASE Return
  BY <1>5, ReturnDue
<1>6. CASE TakeItem \/ ApplyRule \/ FailAction \/ Signal \/ Change \/ Create
  <2>1. pc = "serve" /\ UNCHANGED <<pc, request, due>> /\ Role[Top.node] = "processor"
    BY <1>6, ItemSteps
  <2>2. PICK fr \in Frames : /\ fr.node = Top.node /\ fr.item # None
                             /\ \/ stack' = Append(stack, fr)
                                \/ stack' = ReplaceTop(fr) /\ fr.item = Top.item
    BY <1>6, ItemSteps
  <2>3. stack \in Seq(Frames) /\ stack # << >> /\ Top = Last(stack) /\ stack[1].item = None
    BY <2>1, ServeFacts DEF Top, StackOK
  <2>4. Chain(stack) => Chain(stack') /\ Base(stack') = Base(stack)
    <3>1. SUFFICES ASSUME Chain(stack) PROVE Chain(stack') /\ Base(stack') = Base(stack)
      OBVIOUS
    <3>2. CASE stack' = Append(stack, fr)
      <4>1. Balanced(Last(stack), fr)
        BY <2>2 DEF Balanced
      <4>. QED
        BY <2>1, <2>2, <2>3, <3>1, <3>2, <4>1, ChainPushed
    <3>3. CASE stack' = ReplaceTop(fr) /\ fr.item = Top.item
      BY <2>1, <2>2, <2>3, <3>1, <3>3, ChainReplaced DEF ReplaceTop
    <3>. QED
      BY <2>2, <3>2, <3>3
  <2>. QED
    BY <2>1, <2>4 DEF DueInv, Counted, Answered
<1>7. CASE ConvertMetrics
  <2>1. /\ pc = "serve" /\ UNCHANGED <<pc, request>> /\ Top.todo # << >>
        /\ Head(Top.todo).do = "convert"
    BY <1>7 DEF ConvertMetrics, Doing, Entry
  <2>2. /\ Role[Top.node] = "zenoss" /\ Top = stack[Len(stack)] /\ Len(stack) \in DOMAIN stack
    BY <2>1, ServeFacts, ConvertFacts
  <2>3. ~Chain(stack)
    BY <2>2 DEF Chain
  <2>. QED
    BY <2>1, <2>3 DEF DueInv, Counted, Answered
<1>8. CASE UNCHANGED vars
  BY <1>8 DEF vars, history, DueInv, Counted, Answered
<1>9. CASE Panic
  BY <1>9, PanicFacts DEF DueInv, Counted, Answered
<1>. QED
  BY <1>1, <1>2, <1>3, <1>4, <1>5, <1>6, <1>7, <1>8, <1>9 DEF Next, Serve

-----------------------------------------------------------------------------
(* What endpoints have taken. *)

(* A frame of a processor's item is of one it has begun to process. *)
BegunIn(st, items) ==
    \A k \in DOMAIN st :
        Role[st[k].node] = "processor" /\ st[k].item # None => <<st[k].node, st[k].item>> \in items

(* A frame more, of an item the processor has begun with. *)
LEMMA BegunPushed ==
    ASSUME NEW st \in Seq(Frames), NEW fr \in Frames, NEW b, BegunIn(st, b), NEW c, b \subseteq c,
           Role[fr.node] = "processor" /\ fr.item # None => <<fr.node, fr.item>> \in c
    PROVE  BegunIn(Append(st, fr), c)
<1> DEFINE t == Append(st, fr)
<1>1. /\ Len(st) \in Nat /\ DOMAIN t = 1 .. Len(st) + 1 /\ t[Len(st) + 1] = fr /\ DOMAIN st = 1 .. Len(st)
      /\ \A k \in 1 .. Len(st) : t[k] = st[k]
  BY AppendFacts, LenProperties
<1>. HIDE DEF t
<1>2. \A k \in DOMAIN t : t[k] = fr \/ (k \in DOMAIN st /\ t[k] = st[k])
  BY <1>1
<1>. QED
  BY <1>2 DEF BegunIn, t

(* A frame less. *)
LEMMA BegunFront ==
    ASSUME NEW st \in Seq(Frames), st # << >>, NEW b, BegunIn(st, b)
    PROVE  BegunIn(Front(st), b)
<1>1. \A k \in DOMAIN Front(st) : k \in DOMAIN st /\ Front(st)[k] = st[k]
  <2>1. /\ Len(st) \in Nat \ {0} /\ DOMAIN st = 1 .. Len(st)
        /\ Front(st) \in Seq(Frames) /\ Len(Front(st)) = Len(st) - 1
        /\ \A k \in 1 .. Len(st) - 1 : Front(st)[k] = st[k]
    BY FrontLast
  <2>2. DOMAIN Front(st) = 1 .. Len(st) - 1
    BY <2>1, LenProperties
  <2>. QED
    BY <2>1, <2>2
<1>. QED
  BY <1>1 DEF BegunIn

(* A frame of the same item in place of the one on top. *)
LEMMA BegunReplaced ==
    ASSUME NEW st \in Seq(Frames), st # << >>, NEW fr \in Frames, NEW b, BegunIn(st, b),
           NEW c, b \subseteq c, fr.node = Last(st).node, fr.item = Last(st).item
    PROVE  BegunIn(Append(Front(st), fr), c)
<1>1. BegunIn(Front(st), b) /\ Front(st) \in Seq(Frames)
  BY BegunFront, FrontLast
<1>2. Last(st) = st[Len(st)] /\ Len(st) \in DOMAIN st
  <2> DEFINE N == Len(st)
  <2>1. Last(st) = st[N] /\ DOMAIN st = 1 .. N /\ N \in Nat \ {0}
    BY FrontLast
  <2>. HIDE DEF N
  <2>2. N \in 1 .. N
    BY <2>1
  <2>. QED
    BY <2>1, <2>2 DEF N
<1>3. Role[fr.node] = "processor" /\ fr.item # None => <<fr.node, fr.item>> \in c
  BY <1>2 DEF BegunIn
<1>. QED
  BY <1>1, <1>3, BegunPushed

(* How a step of a call changes the stack. *)
LEMMA StackSteps ==
    ASSUME TypeInv, CallStep
    PROVE  /\ stack \in Seq(Frames) /\ stack # << >> /\ Top = Last(stack) /\ begun \subseteq begun'
           /\ \/ \E fr \in Frames :
                    /\ stack' = Append(stack, fr)
                    /\ \/ /\ CallOutput /\ fr = Enter(Target, Entry.groups) /\ fr.node = Target
                          /\ fr.item = None \/ Role[Target] = "zenoss"
                          /\ fr.succeeded = 0 /\ ~fr.error
                       \/ /\ TakeItem \/ Create
                          /\ fr.node = Top.node /\ <<fr.node, fr.item>> \in begun'
              \/ \E fr \in Frames :
                    stack' = ReplaceTop(fr) /\ fr.node = Top.node /\ fr.item = Top.item
              \/ Return /\ Len(stack) = 1 /\ pc' = "idle" /\ stack' = << >>
              \/ /\ Return /\ Len(stack) # 1
                 /\ Front(stack) \in Seq(Frames) /\ Front(stack) # << >>
                 /\ \E fr \in Frames :
                       /\ stack' = Append(Front(Front(stack)), fr)
                       /\ fr.node = Last(Front(stack)).node /\ fr.item = Last(Front(stack)).item
<1>1. pc = "serve"
  BY CallSteps
<1>2. /\ stack \in Seq(Frames) /\ stack # << >> /\ Top = Last(stack) /\ Front(stack) \in Seq(Frames)
      /\ IsHeap(heap) /\ FrameOK(heap, Top) /\ StackOK(heap, request.node, stack)
  BY <1>1, ServeFacts, FrontLast DEF Top
<1>3. begun \subseteq begun'
  BY DEF CallStep, CallOutput, CallUnimplemented, CallEndpoint, Return, TakeItem, ApplyRule, FailAction,
         Signal, Change, Create, ConvertMetrics, ProcessItem, history
<1>4. CASE CallOutput
  <2> DEFINE fr == Enter(Target, Entry.groups)
  <2>1. /\ Doing("call") /\ Role[Target] # "endpoint" /\ ~Unimplemented(Target, Entry.groups)
        /\ stack' = Append(stack, fr)
    BY <1>4 DEF CallOutput
  <2>2. Acceptable(heap, Target, Entry.groups) /\ Target \in Nodes
    BY <2>1, CallFacts
  <2>3. fr \in Frames /\ fr.node = Target
    <3> DEFINE h == EnterHeap(Target, Entry.groups)
    <3>1. IsHeap(h) /\ FrameOK(h, fr) /\ fr.node = Target
      BY <2>1, EnteredCall
    <3>. HIDE DEF h, fr
    <3>. QED
      BY <3>1, FrameType
  <2>4. /\ fr.item = None \/ Role[Target] = "zenoss"
        /\ fr.succeeded = 0 /\ ~fr.error
    <3>1. Role[Target] \in Roles \ {"endpoint"}
      BY <2>1, <2>2, NetworkAssumption
    <3>2. \/ Role[Target] \in {"proxy", "splitter", "processor", "writer", "log"}
          \/ Role[Target] = "zenoss"
      BY <3>1 DEF Roles
    <3>. QED
      BY <3>2 DEF Enter, Frame
  <2>. HIDE DEF fr
  <2>. QED
    BY <1>2, <1>3, <1>4, <2>1, <2>3, <2>4 DEF fr
<1>5. CASE CallUnimplemented \/ CallEndpoint
  <2>1. PICK r \in Results : stack' = Deliver(stack, r)
    <3>1. CASE CallUnimplemented
      BY <3>1 DEF CallUnimplemented, Error, Result, Results
    <3>2. CASE CallEndpoint
      BY <3>2, EndpointSteps
    <3>. QED
      BY <1>5, <3>1, <3>2
  <2>2. Top.todo # << >>
    BY <1>5 DEF CallUnimplemented, CallEndpoint, Doing
  <2>3. /\ Took(Top, r) \in Frames /\ Took(Top, r).node = Top.node /\ Took(Top, r).item = Top.item
    BY <1>2, <2>2, TookFrame, FrameType
  <2>4. stack' = ReplaceTop(Took(Top, r))
    BY <2>1 DEF Deliver, ReplaceTop, Top
  <2>. QED
    BY <1>2, <1>3, <2>3, <2>4
<1>6. CASE Return
  <2>1. CASE Len(stack) = 1
    BY <1>2, <1>3, <1>6, <2>1, ReturnFacts
  <2>2. CASE Len(stack) # 1
    <3> DEFINE r == IF Top.item = None THEN Result(FALSE, Top.failed, Top.succeeded, Top.held)
                                       ELSE Result(Top.error, 0, 1, 0)
               caller == Last(Front(stack))
    <3>1. /\ r \in Results /\ stack' = Deliver(Front(stack), r) /\ Front(stack) # << >>
          /\ FrameOK(heap, caller) /\ Linked(caller, Top)
      BY <1>6, <2>2, ReturnFacts
    <3>2. caller.todo # << >>
      BY <3>1 DEF Linked
    <3>. HIDE DEF r
    <3>3. /\ Took(caller, r) \in Frames /\ Took(caller, r).node = caller.node
          /\ Took(caller, r).item = caller.item
      BY <1>2, <3>1, <3>2, TookFrame, FrameType
    <3>4. stack' = Append(Front(Front(stack)), Took(caller, r))
      BY <3>1 DEF Deliver
    <3>. QED
      BY <1>2, <1>3, <1>6, <2>2, <3>1, <3>3, <3>4
  <2>. QED
    BY <2>1, <2>2
<1>7. CASE TakeItem \/ ApplyRule \/ FailAction \/ Signal \/ Change \/ Create
  <2>1. PICK fr \in Frames :
                 /\ fr.node = Top.node /\ fr.item # None
                 /\ \/ stack' = Append(stack, fr) /\ <<fr.node, fr.item>> \in begun'
                    \/ stack' = ReplaceTop(fr) /\ fr.item = Top.item
    BY <1>7, ItemSteps
  <2>2. CASE TakeItem \/ Create
    <3>1. CASE stack' = Append(stack, fr) /\ <<fr.node, fr.item>> \in begun'
      BY <1>2, <1>3, <2>1, <2>2, <3>1
    <3>2. CASE stack' = ReplaceTop(fr) /\ fr.item = Top.item
      BY <1>2, <1>3, <2>1, <3>2
    <3>. QED
      BY <2>1, <3>1, <3>2
  <2>3. CASE ApplyRule \/ FailAction \/ Signal \/ Change
    <3>1. CASE stack' = ReplaceTop(fr) /\ fr.item = Top.item
      BY <1>2, <1>3, <2>1, <3>1
    <3>2. CASE stack' = Append(stack, fr)
      <4>1. PICK x : stack' = ReplaceTop(x)
        BY <2>3 DEF ApplyRule, FailAction, Signal, Change, Proceed
      <4>2. stack' \in Seq(Frames)
        BY <1>7, StepKeepsType DEF Next, Serve, TypeInv, TypeOK
      <4>3. x \in Frames
        BY <1>2, <4>1, <4>2, AppendedIn DEF ReplaceTop
      <4>4. Len(stack') = Len(stack) /\ Len(stack') = Len(stack) + 1 /\ Len(stack) \in Nat
        <5>1. Len(stack') = Len(stack)
          BY <1>2, <4>1, <4>3, FrontAppended DEF ReplaceTop
        <5>2. Len(stack') = Len(stack) + 1 /\ Len(stack) \in Nat
          BY <1>2, <3>2, AppendFacts
        <5>. QED
          BY <5>1, <5>2
      <4>. QED
        BY <4>4
    <3>. QED
      BY <2>1, <3>1, <3>2
  <2>. QED
    BY <1>7, <2>2, <2>3
<1>8. CASE ConvertMetrics
  <2>1. PICK todo : stack' = ReplaceTop([Top EXCEPT !.todo = todo])
    BY <1>8 DEF ConvertMetrics, Proceed
  <2> DEFINE fr == [Top EXCEPT !.todo = todo]
  <2>2. fr.node = Top.node /\ fr.item = Top.item
    BY <1>2 DEF FrameOK
  <2>3. stack' = ReplaceTop(fr)
    BY <2>1
  <2>. HIDE DEF fr
  <2>4. stack' \in Seq(Frames)
    BY <1>8, StepKeepsType DEF Next, Serve, TypeInv, TypeOK
  <2>5. fr \in Frames
    BY <1>2, <2>3, <2>4, AppendedIn DEF ReplaceTop
  <2>. QED
    BY <1>2, <1>3, <2>2, <2>3, <2>5
<1>. QED
  BY <1>4, <1>5, <1>6, <1>7, <1>8 DEF CallStep

BegunInv == pc = "serve" => BegunIn(stack, begun)

(* Every step keeps it. *)
LEMMA StepBegun ==
    TypeInv /\ BegunInv /\ [Next]_vars => BegunInv'
<1> SUFFICES ASSUME TypeInv, BegunInv, [Next]_vars PROVE BegunInv'
  OBVIOUS
<1>1. CASE SetConfig \/ \E w \in setting : SetAllowed(w) \/ SetOutput(w)
  BY <1>1 DEF SetConfig, SetAllowed, SetOutput, history, BegunInv
<1>2. ASSUME NEW n, NEW groups, NEW h, Acceptable(h, n, groups), Role[n] # "zenoss"
      PROVE  BegunIn(<<Enter(n, groups)>>, {})
  <2>1. Enter(n, groups).item = None
    BY <1>2, Entered
  <2> DEFINE fr == Enter(n, groups)
  <2>. HIDE DEF fr
  <2>2. DOMAIN <<fr>> = {1} /\ <<fr>>[1] = fr
    OBVIOUS
  <2>3. fr.item = None
    BY <2>1 DEF fr
  <2>4. BegunIn(<<fr>>, {})
    BY <2>2, <2>3 DEF BegunIn
  <2>. QED
    BY <2>4 DEF fr
<1>3. \A st, b : BegunIn(st, {}) => BegunIn(st, b)
  BY DEF BegunIn
<1>4. ASSUME NEW q \in Requests, Receive(q) PROVE BegunInv'
  <2>1. SUFFICES ASSUME pc' = "serve" PROVE BegunIn(stack', begun')
    BY DEF BegunInv
  <2>2. ~Unimplemented(q.node, q.groups) /\ stack' = <<Enter(q.node, q.groups)>>
    BY <1>4, <2>1 DEF Receive
  <2>3. Acceptable(q.items, q.node, q.groups) /\ Role[q.node] # "zenoss"
    BY <2>2, RequestFacts
  <2>. QED
    BY <1>2, <1>3, <2>2, <2>3
<1>5. CASE CheckAPIKey \/ LookUpAPIKey
  <2>1. SUFFICES ASSUME pc' = "serve" PROVE BegunIn(stack', begun')
    BY DEF BegunInv
  <2>2. stack' = <<Enter(request.node, request.groups)>> /\ pc \in {"check", "lookUp"}
    BY <1>5, <2>1 DEF CheckAPIKey, LookUpAPIKey, Admit, Refuse
  <2>3. Acceptable(heap, request.node, request.groups) /\ Role[request.node] # "zenoss"
    BY <2>2 DEF TypeInv, Shape
  <2>. QED
    BY <1>2, <1>3, <2>2, <2>3
<1>6. CASE CallStep
  <2>1. pc = "serve" /\ BegunIn(stack, begun)
    BY <1>6, CallSteps DEF BegunInv
  <2>2. stack \in Seq(Frames) /\ stack # << >> /\ Top = Last(stack) /\ begun \subseteq begun'
    BY <1>6, StackSteps
  <2>3. \/ \E fr \in Frames :
              /\ stack' = Append(stack, fr)
              /\ Role[fr.node] = "processor" /\ fr.item # None => <<fr.node, fr.item>> \in begun'
        \/ \E fr \in Frames : stack' = ReplaceTop(fr) /\ fr.node = Top.node /\ fr.item = Top.item
        \/ pc' = "idle"
        \/ /\ Front(stack) \in Seq(Frames) /\ Front(stack) # << >>
           /\ \E fr \in Frames :
                       /\ stack' = Append(Front(Front(stack)), fr)
                       /\ fr.node = Last(Front(stack)).node /\ fr.item = Last(Front(stack)).item
    BY <1>6, StackSteps
  <2>4. CASE \E fr \in Frames :
              /\ stack' = Append(stack, fr)
              /\ Role[fr.node] = "processor" /\ fr.item # None => <<fr.node, fr.item>> \in begun'
    BY <2>1, <2>2, <2>4, BegunPushed DEF BegunInv
  <2>5. CASE \E fr \in Frames : stack' = ReplaceTop(fr) /\ fr.node = Top.node /\ fr.item = Top.item
    BY <2>1, <2>2, <2>5, BegunReplaced DEF BegunInv, ReplaceTop
  <2>6. CASE pc' = "idle"
    BY <2>6 DEF BegunInv
  <2>7. CASE /\ Front(stack) \in Seq(Frames) /\ Front(stack) # << >>
             /\ \E fr \in Frames :
                       /\ stack' = Append(Front(Front(stack)), fr)
                       /\ fr.node = Last(Front(stack)).node /\ fr.item = Last(Front(stack)).item
    <3>1. BegunIn(Front(stack), begun)
      BY <2>1, <2>2, BegunFront
    <3>. QED
      BY <2>2, <2>7, <3>1, BegunReplaced DEF BegunInv
  <2>. QED
    BY <2>3, <2>4, <2>5, <2>6, <2>7
<1>7. CASE UNCHANGED vars
  BY <1>7 DEF vars, history, BegunInv
<1>8. CASE Panic
  BY <1>8, PanicFacts DEF BegunInv
<1>. QED
  BY <1>1, <1>4, <1>5, <1>6, <1>7, <1>8 DEF Next, Serve, CallStep

(* What counts, of a call or a result, say endpoints have taken; or have held back. *)
Parts == {"taken", "held"}

Part(counts, fate) == IF fate = "taken" THEN counts.succeeded ELSE counts.held

(* A part is a number. *)
LEMMA PartType ==
    ASSUME NEW fr \in Frames \cup Results, NEW fate \in Parts
    PROVE  Part(fr, fate) \in Nat
BY DEF Part, Frames, Results

(* What the calls under way say of it. *)
Taken(st, fate) == Total([k \in DOMAIN st |-> Part(st[k], fate)])

(* What is taken, by a frame more. *)
LEMMA TakenMore ==
    ASSUME NEW fate \in Parts, NEW s \in Seq(Frames), NEW t \in Seq(Frames), Len(t) = Len(s) + 1,
           \A k \in 1 .. Len(s) : t[k] = s[k]
    PROVE  Taken(t, fate) = Taken(s, fate) + Part(t[Len(t)], fate) /\ Taken(s, fate) \in Nat
<1> DEFINE N == Len(s)
           h == [k \in DOMAIN t |-> Part(t[k], fate)]
           g == [k \in DOMAIN s |-> Part(s[k], fate)]
           rest == [k \in (1 .. N + 1) \ {N + 1} |-> h[k]]
<1>1. /\ N \in Nat /\ DOMAIN s = 1 .. N /\ DOMAIN t = 1 .. N + 1 /\ Len(t) = N + 1
      /\ \A k \in DOMAIN t : t[k] \in Frames
      /\ \A k \in DOMAIN s : s[k] \in Frames
  BY LenProperties, ElementOfSeq
<1>2. /\ h \in [1 .. N + 1 -> Nat] /\ g \in [1 .. N -> Nat]
  BY <1>1, PartType
<1>3. IsFiniteSet(1 .. N + 1) /\ IsFiniteSet(1 .. N)
  <2>. HIDE DEF N
  <2>. QED
    BY <1>1, FS_Interval
<1>4. h[N + 1] = Part(t[Len(t)], fate)
  BY <1>1
<1>5. rest = g
  <2>1. (1 .. N + 1) \ {N + 1} = 1 .. N
    <3>. HIDE DEF N
    <3>. QED
      BY <1>1
  <2>2. \A k \in 1 .. N : h[k] = g[k]
    BY <1>1
  <2>. HIDE DEF N, h
  <2>. QED
    BY <1>1, <2>1, <2>2
<1>6. Taken(t, fate) = Total(h) /\ Taken(s, fate) = Total(g)
  BY DEF Taken
<1>. HIDE DEF h, g, N
<1>7. Total(h) = Total(rest) + h[N + 1]
  <2>1. N + 1 \in 1 .. N + 1
    BY <1>1
  <2>. QED
    BY <1>2, <1>3, <2>1, TotalSplit
<1>8. Total(g) \in Nat
  BY <1>2, <1>3, PairsFinite
<1>. QED
  BY <1>4, <1>5, <1>6, <1>7, <1>8

(* What is taken changes with the frame on top. *)
LEMMA TakenFacts ==
    ASSUME NEW fate \in Parts, NEW st \in Seq(Frames)
    PROVE  /\ Taken(st, fate) \in Nat
           /\ \A fr \in Frames : Taken(Append(st, fr), fate) = Taken(st, fate) + Part(fr, fate)
           /\ st # << >> => Taken(st, fate) = Taken(Front(st), fate) + Part(Last(st), fate)
           /\ Len(st) = 1 => Taken(st, fate) = Part(st[1], fate)
<1>1. ASSUME NEW fr \in Frames PROVE Taken(Append(st, fr), fate) = Taken(st, fate) + Part(fr, fate) /\ Taken(st, fate) \in Nat
  <2> DEFINE t == Append(st, fr)
  <2>1. /\ t \in Seq(Frames) /\ Len(t) = Len(st) + 1 /\ t[Len(st) + 1] = fr
        /\ \A k \in 1 .. Len(st) : t[k] = st[k]
    BY AppendFacts
  <2>. HIDE DEF t
  <2>2. Taken(t, fate) = Taken(st, fate) + Part(t[Len(t)], fate) /\ Taken(st, fate) \in Nat
    BY <2>1, TakenMore
  <2>. QED
    BY <2>1, <2>2 DEF t
<1>2. Taken(st, fate) \in Nat
  <2> DEFINE h == [k \in DOMAIN st |-> Part(st[k], fate)]
  <2>1. DOMAIN st = 1 .. Len(st) /\ Len(st) \in Nat /\ \A k \in DOMAIN st : st[k] \in Frames
    BY LenProperties, ElementOfSeq
  <2>2. h \in [1 .. Len(st) -> Nat]
    BY <2>1, PartType
  <2>3. IsFiniteSet(1 .. Len(st))
    BY <2>1, FS_Interval
  <2>. HIDE DEF h
  <2>4. Total(h) \in Nat
    BY <2>2, <2>3, PairsFinite
  <2>. QED
    BY <2>4 DEF Taken, h
<1>3. ASSUME st # << >> PROVE Taken(st, fate) = Taken(Front(st), fate) + Part(Last(st), fate) /\ Taken(Front(st), fate) \in Nat
  <2> DEFINE f == Front(st)  N == Len(st)
  <2>1. /\ N \in Nat \ {0} /\ f \in Seq(Frames) /\ Len(f) = N - 1
        /\ \A k \in 1 .. N - 1 : f[k] = st[k]
        /\ Last(st) = st[N]
    BY <1>3, FrontLast
  <2>. HIDE DEF f, N
  <2>2. N = Len(f) + 1 /\ \A k \in 1 .. Len(f) : st[k] = f[k]
    BY <2>1
  <2>3. Taken(st, fate) = Taken(f, fate) + Part(st[N], fate) /\ Taken(f, fate) \in Nat
    BY <2>1, <2>2, TakenMore DEF N
  <2>4. Part(Last(st), fate) = Part(st[N], fate)
    BY <2>1
  <2>. QED
    BY <2>3, <2>4 DEF f
<1>4. ASSUME Len(st) = 1 PROVE Taken(st, fate) = Part(st[1], fate)
  <2>1. st # << >> /\ Last(st) = st[1] /\ Len(Front(st)) = 0 /\ Front(st) \in Seq(Frames)
    <3>1. st # << >>
      BY <1>4, EmptySeq
    <3>2. Last(st) = st[Len(st)] /\ Front(st) \in Seq(Frames) /\ Len(Front(st)) = Len(st) - 1
      BY <3>1, FrontLast
    <3>. QED
      BY <1>4, <3>1, <3>2
  <2>2. Front(st) = << >>
    BY <2>1, EmptySeq
  <2>3. Taken(<< >>, fate) = 0
    <3> DEFINE h == [k \in DOMAIN << >> |-> Part(<< >>[k], fate)]
    <3>1. DOMAIN h = {}
      OBVIOUS
    <3>. HIDE DEF h
    <3>2. Total(h) = 0
      BY <3>1, TotalOfNone
    <3>. QED
      BY <3>2 DEF Taken, h
  <2>4. Taken(st, fate) = 0 + Part(st[1], fate)
    BY <1>3, <2>1, <2>2, <2>3
  <2>5. Part(st[1], fate) \in Nat
    <3>1. st[1] \in Frames
      <4>1. 1 \in 1 .. Len(st)
        BY <1>4
      <4>. QED
        BY <4>1, ElementOfSeq
    <3>. QED
      BY <3>1, PartType
  <2>. QED
    BY <2>4, <2>5
<1>. QED
  BY <1>1, <1>2, <1>3, <1>4

(* The offers of a fate. *)
TakenOf(os, fate) == {j \in DOMAIN os : os[j].fate = fate}

(* Offers of which k, from the one after the first a, have it. *)
LEMMA TakenOffers ==
    ASSUME NEW fate, NEW os \in Seq(Offers), NEW g \in Seq(Offers), NEW a \in Nat, NEW k \in Nat,
           a + k <= Len(g), \A j \in DOMAIN g : g[j].fate = fate <=> a < j /\ j <= a + k
    PROVE  Cardinality(TakenOf(os \o g, fate)) = Cardinality(TakenOf(os, fate)) + k
<1> DEFINE N == Len(os)
           M == Len(g)
           all == os \o g
           A == TakenOf(os, fate)
           B == N + a + 1 .. N + a + k
<1>1. /\ N \in Nat /\ DOMAIN os = 1 .. N /\ M \in Nat /\ DOMAIN g = 1 .. M
      /\ DOMAIN all = 1 .. N + M /\ a + k <= M
      /\ \A j \in 1 .. N + M : all[j] = IF j <= N THEN os[j] ELSE g[j - N]
  <2>1. all \in Seq(Offers) /\ Len(all) = N + M /\ N \in Nat /\ M \in Nat
        /\ \A j \in 1 .. N + M : all[j] = IF j <= N THEN os[j] ELSE g[j - N]
    BY ConcatProperties, LenProperties
  <2>. QED
    BY <2>1, LenProperties
<1>. HIDE DEF N, M, all
<1>2. TakenOf(all, fate) = A \cup B
  <2>1. \A j \in TakenOf(all, fate) : j \in A \cup B
    <3> TAKE j \in TakenOf(all, fate)
    <3>1. j \in 1 .. N + M /\ all[j].fate = fate
      BY <1>1 DEF TakenOf
    <3>2. CASE j <= N
      BY <1>1, <3>1, <3>2 DEF TakenOf
    <3>3. CASE ~(j <= N)
      <4>1. j - N \in 1 .. M /\ all[j] = g[j - N]
        BY <1>1, <3>1, <3>3
      <4>2. a < j - N /\ j - N <= a + k
        BY <1>1, <3>1, <4>1
      <4>. QED
        BY <1>1, <3>1, <3>3, <4>2
    <3>. QED
      BY <3>2, <3>3
  <2>2. \A j \in A : j \in TakenOf(all, fate)
    BY <1>1 DEF TakenOf
  <2>3. \A j \in B : j \in TakenOf(all, fate)
    <3> TAKE j \in B
    <3>1. j \in 1 .. N + M /\ ~(j <= N) /\ j - N \in 1 .. M /\ a < j - N /\ j - N <= a + k
      BY <1>1
    <3>2. all[j].fate = fate
      BY <1>1, <3>1
    <3>. QED
      BY <1>1, <3>1, <3>2 DEF TakenOf
  <2>. QED
    BY <2>1, <2>2, <2>3
<1>3. IsFiniteSet(A) /\ A \cap B = {}
  <2>1. A \subseteq 1 .. N
    BY <1>1 DEF TakenOf
  <2>2. N \in Int
    BY <1>1
  <2>3. IsFiniteSet(1 .. N)
    BY <2>2, FS_Interval
  <2>. QED
    BY <1>1, <2>1, <2>3, FS_Subset
<1>4. IsFiniteSet(B) /\ Cardinality(B) = k
  <2> DEFINE x == N + a + 1  y == N + a + k
  <2>1. x \in Int /\ y \in Int
    BY <1>1
  <2>2. (IF x > y THEN 0 ELSE y - x + 1) = k
    BY <1>1
  <2>3. B = x .. y
    OBVIOUS
  <2>. HIDE DEF x, y, B
  <2>4. IsFiniteSet(x .. y) /\ Cardinality(x .. y) = IF x > y THEN 0 ELSE y - x + 1
    BY <2>1, FS_Interval
  <2>. QED
    BY <2>2, <2>3, <2>4
<1>5. Cardinality(A) \in Nat
  BY <1>3, FS_CardinalityType
<1>. HIDE DEF A, B
<1>6. Cardinality(A \cup B) = Cardinality(A) + k
  <2>1. Cardinality(A \cup B) = Cardinality(A) + Cardinality(B) - Cardinality(A \cap B)
    BY <1>3, <1>4, FS_Union
  <2>2. Cardinality({}) = 0
    BY FS_EmptySet
  <2>3. Cardinality(A \cap B) = 0
    BY <1>3, <2>2
  <2> DEFINE x == Cardinality(A)  y == Cardinality(B)  c == Cardinality(A \cap B)
             d == Cardinality(A \cup B)
  <2>4. d = x + y - c /\ c = 0 /\ x \in Nat /\ y = k /\ k \in Nat
    BY <1>1, <1>4, <1>5, <2>1, <2>3
  <2>. HIDE DEF x, y, c, d
  <2>5. d = x + k
    BY <2>4
  <2>. QED
    BY <2>5 DEF x, d
<1>. QED
  BY <1>2, <1>6 DEF A, all

(* A result adds what was taken to the frame that takes it. *)
LEMMA DeliverTaken ==
    ASSUME NEW fate \in Parts, NEW h, IsHeap(h), NEW n, NEW st, StackOK(h, n, st), st # << >>,
           Last(st).todo # << >>, Last(st).item = None, NEW r \in Results
    PROVE  Taken(Deliver(st, r), fate) = Taken(st, fate) + (IF r.error THEN 0 ELSE Part(r, fate))
<1> DEFINE top == Last(st)
           fr == Took(top, r)
           more == IF r.error THEN 0 ELSE Part(r, fate)
<1>1. st \in Seq(Frames) /\ top \in Frames /\ FrameOK(h, top)
  <2>1. st \in Seq(Frames) /\ \A k \in DOMAIN st : FrameOK(h, st[k])
    BY DEF StackOK
  <2>2. top = st[Len(st)] /\ Len(st) \in DOMAIN st /\ top \in Frames
    BY <2>1, FrontLast
  <2>. QED
    BY <2>1, <2>2
<1>2. fr \in Frames
  BY <1>1, TookFrame, FrameType
<1>3. Part(fr, fate) = Part(top, fate) + more
  BY <1>1, TookBalance DEF Part
<1>4. Part(top, fate) \in Nat /\ more \in Nat
  BY <1>1, PartType
<1>5. /\ Front(st) \in Seq(Frames)
      /\ Taken(st, fate) = Taken(Front(st), fate) + Part(top, fate)
  BY <1>1, FrontLast, TakenFacts
<1>6. /\ Taken(Front(st), fate) \in Nat
      /\ Taken(Append(Front(st), fr), fate) = Taken(Front(st), fate) + Part(fr, fate)
  BY <1>2, <1>5, TakenFacts
<1>7. Deliver(st, r) = Append(Front(st), fr)
  BY DEF Deliver
<1>. HIDE DEF top, fr, more
<1>8. Taken(Deliver(st, r), fate) = Taken(st, fate) + more
  BY <1>3, <1>4, <1>5, <1>6, <1>7
<1>. QED
  BY <1>8 DEF more

(* Where no processor has begun with an item, the calls under way say that endpoints have      *)
(* taken what they have taken, and held back what they have held back.                         *)
TakenInv ==
    /\ pc \in {"check", "lookUp"} => offers = << >>
    /\ pc = "serve" /\ Role[request.node] # "writer" /\ begun = {} =>
          \A fate \in Parts : Taken(stack, fate) = Cardinality(TakenOf(offers, fate))
    /\ Counted /\ begun = {} =>
          \A fate \in Parts : Part(answer, fate) = Cardinality(TakenOf(offers, fate))

(* Of no offers none was taken. *)
LEMMA TakenOfNone ==
    ASSUME NEW fate
    PROVE  Cardinality(TakenOf(<< >>, fate)) = 0
<1>1. TakenOf(<< >>, fate) = {}
  BY DEF TakenOf
<1>. QED
  BY <1>1, FS_EmptySet

(* A call that has just begun has taken nothing. *)
LEMMA TakenOfOne ==
    ASSUME NEW fate \in Parts, NEW h, NEW n, NEW groups, Acceptable(h, n, groups), IsHeap(h), Role[n] # "zenoss"
    PROVE  Taken(<<Enter(n, groups)>>, fate) = 0
<1> DEFINE fr == Enter(n, groups)
<1>1. fr \in Frames
  BY Entered, FrameType
<1>2. Part(fr, fate) = 0
  <2>1. Role[n] \in Roles \ {"endpoint", "zenoss"}
    BY NetworkAssumption DEF Acceptable
  <2>. QED
    BY <2>1 DEF Enter, Frame, Roles, Part
<1>. HIDE DEF fr
<1>3. <<fr>> \in Seq(Frames) /\ Len(<<fr>>) = 1 /\ <<fr>>[1] = fr
  BY <1>1
<1>4. Taken(<<fr>>, fate) = 0
  BY <1>2, <1>3, TakenFacts
<1>. QED
  BY <1>4 DEF fr

(* Until a processor begins with an item no call under way is for one. *)
LEMMA NoneBegun ==
    ASSUME TypeInv, DueInv, BegunInv, pc = "serve", Role[request.node] # "writer", begun = {}
    PROVE  \A k \in DOMAIN stack : stack[k].item = None
<1>1. StackOK(heap, request.node, stack) /\ Chain(stack) /\ BegunIn(stack, {})
  BY ServeFacts DEF DueInv, BegunInv
<1>2. ASSUME NEW k \in DOMAIN stack PROVE stack[k].item = None
  <2>1. ItemOf(heap, stack[k].node, stack[k].item)
    BY <1>1 DEF StackOK, FrameOK
  <2>2. Role[stack[k].node] \in {"proxy", "splitter", "processor"}
    BY <1>1 DEF Chain
  <2>3. Role[stack[k].node] = "processor" => stack[k].item = None
    BY <1>1 DEF BegunIn
  <2>. QED
    BY <2>1, <2>2, <2>3 DEF ItemOf
<1>. QED
  BY <1>2

(* What an endpoint takes is added to the frame that called it. *)
LEMMA EndpointTaken ==
    ASSUME TypeInv, CallEndpoint, stack # << >>, Top.item = None, NEW fate \in Parts,
           Taken(stack, fate) = Cardinality(TakenOf(offers, fate))
    PROVE  Taken(stack', fate) = Cardinality(TakenOf(offers', fate))
<1> DEFINE n == Count(Entry.groups)
<1>1. /\ Doing("call") /\ Entry.groups \in Seq(Sendable(heap)) /\ n \in Nat
  BY EndpointSteps
<1>2. PICK fates \in [1 .. n -> Fates], r \in Results :
                 /\ offers' = offers \o Given(Target, Entry.groups, fates)
                 /\ stack' = Deliver(stack, r)
                 /\ \/ /\ fates = [j \in 1 .. n |-> "error"]
                       /\ r = Error
                    \/ \E k, h \in Nat :
                          /\ k + h <= n
                          /\ fates = [j \in 1 .. n |-> Fate(j, k, h)]
                          /\ r = Result(FALSE, n - k - h, k, h)
  BY EndpointSteps
<1> DEFINE given == Given(Target, Entry.groups, fates)
<1>3. /\ IsHeap(heap) /\ StackOK(heap, request.node, stack) /\ Top = Last(stack) /\ Top.todo # << >>
      /\ Target \in Nodes /\ offers \in Seq(Offers)
  BY <1>1, ServeFacts, CallFacts DEF Doing, Top, TypeInv, TypeOK
<1>4. given \in Seq(Offers) /\ Len(given) = n /\ \A j \in 1 .. n : given[j].fate = fates[j]
  BY <1>1, <1>3, GivenFacts
<1>. HIDE DEF given, n
<1>5. DOMAIN given = 1 .. n
  BY <1>4, LenProperties
<1>6. PICK a \in Nat, k \in Nat :
         /\ a + k <= n /\ \A j \in 1 .. n : fates[j] = fate <=> a < j /\ j <= a + k
         /\ k = IF r.error THEN 0 ELSE Part(r, fate)
  <2>1. ASSUME fates = [j \in 1 .. n |-> "error"], r = Error
        PROVE  \E a \in Nat, m \in Nat :
                  /\ a + m <= n /\ \A j \in 1 .. n : fates[j] = fate <=> a < j /\ j <= a + m
                  /\ m = IF r.error THEN 0 ELSE Part(r, fate)
    <3>1. \A j \in 1 .. n : fates[j] # fate
      BY <2>1 DEF Parts
    <3>2. \A j \in 1 .. n : fates[j] = fate <=> 0 < j /\ j <= 0 + 0
      BY <1>1, <3>1
    <3>3. 0 = (IF r.error THEN 0 ELSE Part(r, fate)) /\ 0 + 0 <= n
      BY <1>1, <2>1 DEF Error, Result
    <3>. QED
      BY <3>2, <3>3
  <2>2. ASSUME NEW k \in Nat, NEW h \in Nat, k + h <= n, fates = [j \in 1 .. n |-> Fate(j, k, h)],
               r = Result(FALSE, n - k - h, k, h)
        PROVE  \E a \in Nat, m \in Nat :
                  /\ a + m <= n /\ \A j \in 1 .. n : fates[j] = fate <=> a < j /\ j <= a + m
                  /\ m = IF r.error THEN 0 ELSE Part(r, fate)
    <3>1. \A j \in 1 .. n : fates[j] = Fate(j, k, h)
      BY <2>2
    <3>2. CASE fate = "taken"
      <4>1. \A j \in 1 .. n : fates[j] = fate <=> 0 < j /\ j <= 0 + k
        BY <1>1, <2>2, <3>1, <3>2 DEF Fate
      <4>2. k = (IF r.error THEN 0 ELSE Part(r, fate)) /\ 0 + k <= n
        BY <1>1, <2>2, <3>2 DEF Result, Part
      <4>. QED
        BY <4>1, <4>2
    <3>3. CASE fate = "held"
      <4>1. \A j \in 1 .. n : fates[j] = fate <=> k < j /\ j <= k + h
        BY <1>1, <2>2, <3>1, <3>3 DEF Fate
      <4>2. h = IF r.error THEN 0 ELSE Part(r, fate)
        BY <2>2, <3>3 DEF Result, Part
      <4>. QED
        BY <2>2, <4>1, <4>2
    <3>. QED
      BY <3>2, <3>3 DEF Parts
  <2>. QED
    BY <1>2, <2>1, <2>2
<1>7. Cardinality(TakenOf(offers \o given, fate)) = Cardinality(TakenOf(offers, fate)) + k
  <2>1. a + k <= Len(given) /\ \A j \in DOMAIN given : given[j].fate = fate <=> a < j /\ j <= a + k
    BY <1>4, <1>5, <1>6
  <2>. QED
    BY <1>3, <1>4, <2>1, TakenOffers
<1>8. Taken(Deliver(stack, r), fate) = Taken(stack, fate) + k
  BY <1>3, <1>6, DeliverTaken
<1>. QED
  BY <1>2, <1>7, <1>8 DEF given

(* Every step keeps it. *)
LEMMA StepTaken ==
    TypeInv /\ DueInv /\ BegunInv /\ TakenInv /\ [Next]_vars => TakenInv'
<1> SUFFICES ASSUME TypeInv, DueInv, BegunInv, TakenInv, [Next]_vars PROVE TakenInv'
  OBVIOUS
<1>1. CASE SetConfig \/ \E w \in setting : SetAllowed(w) \/ SetOutput(w)
  <2>1. UNCHANGED <<request, pc, stack, answer, offers, begun>>
    BY <1>1 DEF SetConfig, SetAllowed, SetOutput, history
  <2>. QED
    BY <2>1 DEF TakenInv, Counted, Answered
<1>2. ASSUME NEW q \in Requests, Receive(q) PROVE TakenInv'
  <2>1. /\ offers' = << >>
        /\ pc' = "idle" => answer' = Error
        /\ pc' = "serve" => ~Unimplemented(q.node, q.groups) /\ stack' = <<Enter(q.node, q.groups)>>
    BY <1>2 DEF Receive
  <2>2. ~Counted'
    BY <1>2 DEF Receive, Counted, Answered, Error, Result
  <2>3. pc' = "serve" => \A fate \in Parts : Taken(stack', fate) = 0
    <3>1. SUFFICES ASSUME pc' = "serve", NEW fate \in Parts
                   PROVE  Taken(<<Enter(q.node, q.groups)>>, fate) = 0
      BY <2>1
    <3>2. Acceptable(q.items, q.node, q.groups) /\ IsHeap(q.items) /\ Role[q.node] # "zenoss"
      BY <2>1, <3>1, RequestFacts
    <3>. QED
      BY <3>2, TakenOfOne
  <2>. QED
    BY <2>1, <2>2, <2>3, TakenOfNone DEF TakenInv
<1>3. CASE CheckAPIKey \/ LookUpAPIKey
  <2>1. /\ pc \in {"check", "lookUp"} /\ UNCHANGED <<offers, request, begun>> /\ offers = << >>
        /\ \/ pc' = "serve" /\ stack' = <<Enter(request.node, request.groups)>> /\ UNCHANGED answer
           \/ pc' = "idle" /\ answer' = Error
           \/ pc' = "lookUp"
    BY <1>3 DEF CheckAPIKey, LookUpAPIKey, Admit, Refuse, history, TakenInv
  <2>2. ~Counted'
    BY <2>1 DEF Counted, Answered, Error, Result
  <2>3. pc' = "serve" => \A fate \in Parts : Taken(stack', fate) = 0
    <3>1. Acceptable(heap, request.node, request.groups) /\ IsHeap(heap) /\ Role[request.node] # "zenoss"
      BY <2>1 DEF TypeInv, Shape
    <3>. QED
      BY <2>1, <3>1, TakenOfOne
  <2>. QED
    BY <2>1, <2>2, <2>3, TakenOfNone DEF TakenInv
<1>4. CASE CallStep
  <2>1. /\ pc = "serve" /\ UNCHANGED request
        /\ \/ pc' = "serve" /\ UNCHANGED answer
           \/ /\ Return /\ Len(stack) = 1 /\ Top.item = None /\ Top = stack[1]
              /\ pc' = "idle" /\ answer' = Result(FALSE, Top.failed, Top.succeeded, Top.held)
        /\ CallEndpoint \/ UNCHANGED offers
    BY <1>4, CallSteps
  <2>2. begun \subseteq begun' /\ stack \in Seq(Frames) /\ stack # << >> /\ Top = Last(stack)
    BY <1>4, StackSteps
  <2>3. SUFFICES ASSUME Role[request.node] # "writer", begun' = {}, NEW fate \in Parts
                 PROVE  /\ pc' = "serve" => Taken(stack', fate) = Cardinality(TakenOf(offers', fate))
                        /\ pc' = "idle" => Part(answer', fate) = Cardinality(TakenOf(offers', fate))
    BY <2>1 DEF TakenInv, Counted, Answered
  <2>4. begun = {} /\ Taken(stack, fate) = Cardinality(TakenOf(offers, fate)) /\ Chain(stack)
    BY <2>1, <2>2, <2>3 DEF TakenInv, DueInv
  <2>5. /\ \A k \in DOMAIN stack : stack[k].item = None
        /\ DOMAIN stack = 1 .. Len(stack) /\ Len(stack) \in Nat \ {0}
        /\ Top = stack[Len(stack)] /\ IsHeap(heap) /\ StackOK(heap, request.node, stack)
    BY <2>1, <2>3, <2>4, NoneBegun, ServeFacts
  <2>6. Top.item = None
    BY <2>5
  <2>7. CASE CallOutput
    <3>1. PICK fr \in Frames : stack' = Append(stack, fr) /\ fr = Enter(Target, Entry.groups)
      <4> DEFINE x == Enter(Target, Entry.groups)
      <4>1. stack' = Append(stack, x)
        BY <2>7 DEF CallOutput
      <4>2. stack' \in Seq(Frames)
        BY <1>4, StepKeepsType DEF CallStep, Next, Serve, TypeInv, TypeOK
      <4>. HIDE DEF x
      <4>3. x \in Frames
        BY <2>2, <4>1, <4>2, AppendedIn
      <4>. QED
        BY <4>1, <4>3 DEF x
    <3>2. Role[Target] # "endpoint" /\ Doing("call") /\ Role[Top.node] \in {"proxy", "splitter", "processor"}
      BY <2>4, <2>5, <2>7 DEF CallOutput, Chain
    <3>3. Target \in Receivers
      BY <3>2, CallFacts
    <3>4. Part(fr, fate) = 0
      BY <3>1, <3>2, <3>3 DEF Enter, Frame, Receivers, Part
    <3>5. Taken(stack', fate) = Taken(stack, fate) + 0 /\ Taken(stack, fate) \in Nat
      BY <2>2, <3>1, <3>4, TakenFacts
    <3>6. UNCHANGED <<pc, offers>>
      BY <2>7 DEF CallOutput
    <3>. QED
      BY <2>1, <2>4, <3>5, <3>6
  <2>8. CASE CallUnimplemented
    <3>1. /\ stack' = Deliver(stack, Error) /\ UNCHANGED <<pc, offers>> /\ Top.todo # << >>
          /\ Error \in Results /\ Error.error
      BY <2>8 DEF CallUnimplemented, Doing, Error, Result, Results
    <3>2. Taken(Deliver(stack, Error), fate) = Taken(stack, fate) + 0 /\ Taken(stack, fate) \in Nat
      <4>1. Taken(Deliver(stack, Error), fate) = Taken(stack, fate) + (IF Error.error THEN 0 ELSE Part(Error, fate))
        BY <2>2, <2>5, <2>6, <3>1, DeliverTaken
      <4>2. Taken(stack, fate) \in Nat
        BY <2>2, TakenFacts
      <4>. QED
        BY <3>1, <4>1, <4>2
    <3>. QED
      BY <2>1, <2>4, <3>1, <3>2
  <2>9. CASE CallEndpoint
    <3>1. UNCHANGED pc
      BY <2>9 DEF CallEndpoint
    <3>. QED
      BY <2>1, <2>2, <2>4, <2>6, <2>9, <3>1, EndpointTaken
  <2>10. CASE Return
    <3>1. UNCHANGED offers
      BY <2>10 DEF Return
    <3>2. CASE Len(stack) = 1
      <4>1. pc' = "idle" /\ answer' = Result(FALSE, Top.failed, Top.succeeded, Top.held) /\ Top = stack[1]
        BY <2>5, <2>6, <2>10, <3>2, ReturnFacts
      <4>2. Taken(stack, fate) = Part(Top, fate)
        BY <2>2, <3>2, <4>1, TakenFacts
      <4>3. Part(answer', fate) = Part(Top, fate)
        BY <4>1 DEF Result, Part
      <4>. QED
        BY <2>4, <3>1, <4>1, <4>2, <4>3
    <3>3. CASE Len(stack) # 1
      <4> DEFINE caller == Last(Front(stack))
                 r == Result(FALSE, Top.failed, Top.succeeded, Top.held)
                 front == Front(stack)
      <4>1. /\ r \in Results /\ UNCHANGED pc /\ stack' = Deliver(front, r)
            /\ caller = stack[Len(stack) - 1] /\ Len(stack) - 1 \in DOMAIN stack
            /\ Linked(caller, Top) /\ StackOK(heap, request.node, front) /\ front # << >>
        BY <2>6, <2>10, <3>3, ReturnFacts
      <4>2. caller.item = None /\ caller.todo # << >>
        BY <2>5, <4>1 DEF Linked
      <4>3. r.error = FALSE /\ Part(r, fate) = Part(Top, fate)
        BY DEF Result, Part
      <4>. HIDE DEF r, front
      <4>4. Taken(stack', fate) = Taken(front, fate) + (IF r.error THEN 0 ELSE Part(r, fate))
        BY <2>5, <4>1, <4>2, DeliverTaken DEF front
      <4>5. Taken(stack, fate) = Taken(front, fate) + Part(Top, fate)
        BY <2>2, TakenFacts DEF front
      <4>. QED
        BY <2>1, <2>4, <3>1, <4>1, <4>3, <4>4, <4>5
    <3>. QED
      BY <3>2, <3>3
  <2>11. CASE TakeItem \/ ApplyRule \/ FailAction \/ Signal \/ Change \/ Create
    BY <2>3, <2>6, <2>11, ItemSteps
  <2>12. CASE ConvertMetrics
    <3>1. Top.todo # << >> /\ Head(Top.todo).do = "convert"
      BY <2>12 DEF ConvertMetrics, Doing, Entry
    <3>2. Role[Top.node] = "zenoss"
      BY <2>1, <3>1, ServeFacts, ConvertFacts
    <3>. QED
      BY <2>4, <2>5, <3>2 DEF Chain
  <2>. QED
    BY <1>4, <2>7, <2>8, <2>9, <2>10, <2>11, <2>12 DEF CallStep
<1>5. CASE UNCHANGED vars
  BY <1>5 DEF vars, history, TakenInv, Counted, Answered
<1>6. CASE Panic
  BY <1>6, PanicFacts DEF TakenInv, Counted, Answered
<1>. QED
  BY <1>1, <1>2, <1>3, <1>4, <1>5, <1>6 DEF Next, Serve, CallStep

(* The counts of an answer add up to every item, once for every output it was for, but for    *)
(* the models held back; and where no rules are on the way "succeeded" is what endpoints have *)
(* taken and those models are what endpoints have held back, through any network of splitters *)
(* and processors.                                                                            *)
THEOREM ReceiversAnswerAccounts == Spec => []AnswerAccounts
<1>1. Init => DueInv /\ BegunInv /\ TakenInv
  BY DEF Init, DueInv, BegunInv, TakenInv, Counted, Answered
<1>2. DueInv /\ TakenInv => AnswerAccounts
  <2>1. Counted /\ TakenInv /\ begun = {} =>
           answer.succeeded = Cardinality(Fated("taken")) /\ answer.held = Cardinality(Fated("held"))
    <3>1. "taken" \in Parts /\ "held" \in Parts
      BY DEF Parts
    <3>. QED
      BY <3>1 DEF TakenInv, Part, Fated, TakenOf
  <2>. QED
    BY <2>1 DEF DueInv, AnswerAccounts
<1>. QED
  BY <1>1, <1>2, InitTyped, StepKeepsType, StepDue, StepBegun, StepTaken, PTL DEF Spec

-----------------------------------------------------------------------------
(* Where errors go. *)

(* A splitter or a processor calls its outputs. *)
LEMMA CallTo ==
    ASSUME NEW h, NEW fr, FrameOK(h, fr), Role[fr.node] \in {"splitter", "processor"},
           fr.todo # << >>, Head(fr.todo).do = "call"
    PROVE  fr.node \in Nodes /\ Head(fr.todo).to \in Range(Outputs[fr.node])
<1> DEFINE e == Head(fr.todo)
<1>1. fr.node \in Nodes /\ e \in Tasks(h, fr.node, fr.item)
  BY TaskFacts DEF FrameOK
<1>2. e \in Singles(h, Range(Outputs[fr.node]))
  BY <1>1 DEF Tasks, Process, Rule, Action
<1>. QED
  BY <1>1, <1>2 DEF Singles, Call

(* What is behind an output of a node is behind the node. *)
LEMMA BehindFacts ==
    ASSUME NEW n \in Nodes
    PROVE  /\ Behind[n] \subseteq Endpoints
           /\ \A o \in Range(Outputs[n]) : o \in Nodes => Behind[o] \subseteq Behind[n]
           /\ \A o \in Range(Outputs[n]) : o \in Endpoints => o \in Behind[n]
<1>1. \A m \in Nodes : Behind[m] = {e \in Endpoints : \A S \in SUBSET Nodes : m \in S /\ Closed(S) => e \in S}
  BY DEF Behind
<1>2. \A o \in Range(Outputs[n]) : \A S : n \in S /\ Closed(S) => o \in S
  BY DEF Closed
<1>. QED
  BY <1>1, <1>2

(* A call that is to answer an error, or a failure, and one an error of an endpoint comes by. *)
Failing(fr)  == IF fr.item = None THEN fr.failed > 0 ELSE fr.error
Before(n, e) == Role[n] = "proxy" \/ e \in Behind[n]

Held(st, e) == \E k \in DOMAIN st : Failing(st[k]) /\ Before(st[k].node, e)

(* A call more holds what was held, and an error of its own. *)
LEMMA HeldPushed ==
    ASSUME NEW st \in Seq(Frames), NEW fr \in Frames, NEW e,
           Held(st, e) \/ (Failing(fr) /\ Before(fr.node, e))
    PROVE  Held(Append(st, fr), e)
<1> DEFINE t == Append(st, fr)
<1>1. /\ Len(st) \in Nat /\ DOMAIN t = 1 .. Len(st) + 1 /\ t[Len(st) + 1] = fr /\ DOMAIN st = 1 .. Len(st)
      /\ \A k \in 1 .. Len(st) : t[k] = st[k]
  BY AppendFacts, LenProperties
<1>. HIDE DEF t
<1>2. Len(st) + 1 \in DOMAIN t /\ \A k \in DOMAIN st : k \in DOMAIN t /\ t[k] = st[k]
  BY <1>1
<1>. QED
  BY <1>1, <1>2 DEF Held, t

(* An error is held below the call on top or by it. *)
LEMMA HeldPopped ==
    ASSUME NEW st \in Seq(Frames), st # << >>, NEW e, Held(st, e)
    PROVE  Held(Front(st), e) \/ (Failing(Last(st)) /\ Before(Last(st).node, e))
<1>1. /\ Len(st) \in Nat \ {0} /\ DOMAIN st = 1 .. Len(st) /\ Last(st) = st[Len(st)]
      /\ Front(st) \in Seq(Frames) /\ Len(Front(st)) = Len(st) - 1
      /\ \A k \in 1 .. Len(st) - 1 : Front(st)[k] = st[k]
  BY FrontLast
<1>2. DOMAIN Front(st) = 1 .. Len(st) - 1
  BY <1>1, LenProperties
<1>3. \A k \in DOMAIN st : (k \in DOMAIN Front(st) /\ Front(st)[k] = st[k]) \/ st[k] = Last(st)
  BY <1>1, <1>2
<1>. QED
  BY <1>3 DEF Held

(* A frame that does not forget holds on to what is held. *)
LEMMA HeldReplaced ==
    ASSUME NEW st \in Seq(Frames), st # << >>, NEW fr \in Frames, NEW e, Held(st, e),
           fr.node = Last(st).node, Failing(Last(st)) => Failing(fr)
    PROVE  Held(Append(Front(st), fr), e)
BY FrontLast, HeldPopped, HeldPushed

(* A call that takes an error fails, and one that has failed does not forget it. *)
LEMMA TookFails ==
    ASSUME NEW h, IsHeap(h), NEW fr, FrameOK(h, fr), fr.todo # << >>, NEW r \in Results
    PROVE  /\ Failing(fr) => Failing(Took(fr, r))
           /\ r.error /\ Weight(Head(fr.todo)) > 0 => Failing(Took(fr, r))
           /\ fr.item = None /\ r.failed > 0 /\ ~r.error => Failing(Took(fr, r))
<1> DEFINE w == Weight(Head(fr.todo))
           t == Took(fr, r)
<1>1. w \in Nat /\ ~fr.error /\ fr.failed \in Nat /\ r.failed \in Nat /\ r.error \in BOOLEAN
  BY TaskFacts, WeightType DEF FrameOK, Results
<1>2. t.item = fr.item
  BY TookFrame
<1>3. CASE fr.item = None
  <2>1. t.failed = fr.failed + (IF r.error THEN w ELSE r.failed)
    BY <1>3 DEF Took, FrameOK
  <2>. HIDE DEF w, t
  <2>2. /\ fr.failed > 0 => t.failed > 0
        /\ r.error /\ w > 0 => t.failed > 0
        /\ r.failed > 0 /\ ~r.error => t.failed > 0
    BY <1>1, <2>1
  <2>. QED
    BY <1>2, <1>3, <2>2 DEF Failing, w, t
<1>4. CASE fr.item # None
  <2>1. t.error = r.error
    BY <1>4 DEF Took, FrameOK
  <2>. QED
    BY <1>1, <1>2, <1>4, <2>1 DEF Failing
<1>. QED
  BY <1>3, <1>4

(* So does one that takes a result. *)
LEMMA HeldDelivered ==
    ASSUME NEW h, IsHeap(h), NEW n, NEW st, StackOK(h, n, st), st # << >>, Last(st).todo # << >>,
           NEW r \in Results, NEW e,
           \/ Held(st, e)
           \/ Before(Last(st).node, e) /\ Failing(Took(Last(st), r))
    PROVE  Held(Deliver(st, r), e)
<1> DEFINE top == Last(st)
           fr == Took(top, r)
<1>1. st \in Seq(Frames) /\ top \in Frames /\ FrameOK(h, top)
  <2>1. st \in Seq(Frames) /\ \A k \in DOMAIN st : FrameOK(h, st[k])
    BY DEF StackOK
  <2>2. top = st[Len(st)] /\ Len(st) \in DOMAIN st /\ top \in Frames
    BY <2>1, FrontLast
  <2>. QED
    BY <2>1, <2>2
<1>2. fr \in Frames /\ fr.node = top.node
  BY <1>1, TookFrame, FrameType
<1>3. Failing(top) => Failing(fr)
  BY <1>1, TookFails
<1>4. Deliver(st, r) = Append(Front(st), fr)
  BY DEF Deliver
<1>. HIDE DEF fr
<1>5. CASE Held(st, e)
  BY <1>1, <1>2, <1>3, <1>4, <1>5, HeldReplaced
<1>6. CASE Before(Last(st).node, e) /\ Failing(Took(Last(st), r))
  <2>1. Failing(fr) /\ Before(fr.node, e) /\ Front(st) \in Seq(Frames)
    BY <1>1, <1>2, <1>6, FrontLast DEF fr
  <2>. QED
    BY <1>2, <1>4, <2>1, HeldPushed
<1>. QED
  BY <1>5, <1>6

(* Whether the processors that have begun with items have nothing but this endpoint as output, *)
(* if it is behind them.                                                                       *)
Direct(items, e) == \A s \in items : e \in Behind[s[1]] => Outputs[s[1]][1] = e

(* An error of an endpoint is with some call on the way to it. *)
ErrorsInv ==
    /\ pc \in {"check", "lookUp"} => offers = << >>
    /\ pc = "serve" /\ Role[request.node] # "writer" =>
          \A j \in Fated("error") : Direct(begun, offers[j].at) => Held(stack, offers[j].at)
    /\ ErrorsReachCaller

(* An error of an endpoint is held by the call that it answers. *)
LEMMA EndpointErrors ==
    ASSUME TypeInv, DueInv, ErrorsInv, CallEndpoint, Role[request.node] # "writer"
    PROVE  \A j \in Fated("error")' : Direct(begun, offers'[j].at) => Held(stack', offers'[j].at)
<1> DEFINE n == Count(Entry.groups)
<1>1. /\ Doing("call") /\ Entry.groups \in Seq(Sendable(heap)) /\ n \in Nat /\ Role[Target] = "endpoint"
  BY EndpointSteps
<1>2. PICK fates \in [1 .. n -> Fates], r \in Results :
                 /\ offers' = offers \o Given(Target, Entry.groups, fates)
                 /\ stack' = Deliver(stack, r)
                 /\ \/ r = Error
                    \/ \E k, h \in Nat : fates = [j \in 1 .. n |-> Fate(j, k, h)]
  BY EndpointSteps
<1> DEFINE given == Given(Target, Entry.groups, fates)
<1>3. /\ IsHeap(heap) /\ StackOK(heap, request.node, stack) /\ Top = Last(stack) /\ stack # << >>
      /\ Top.todo # << >> /\ FrameOK(heap, Top) /\ Entry = Head(Top.todo) /\ Entry.do = "call"
      /\ Target \in Nodes /\ offers \in Seq(Offers) /\ pc = "serve"
      /\ Target = Head(Top.todo).to \/ Role[Top.node] = "proxy"
  BY <1>1, ServeFacts, CallFacts DEF Doing, Top, Entry, TypeInv, TypeOK
<1>4. /\ given \in Seq(Offers) /\ Len(given) = n
      /\ \A j \in DOMAIN given : given[j].fate = fates[j] /\ given[j].at = Target
  BY <1>1, <1>3, GivenFacts
<1>5. Before(Top.node, Target)
  <2>1. CASE Role[Top.node] = "proxy"
    BY <2>1 DEF Before
  <2>2. CASE Role[Top.node] # "proxy"
    <3>1. Role[Top.node] \in {"splitter", "processor"}
      <4>1. Chain(stack)
        BY <1>3 DEF DueInv
      <4>2. Top = stack[Len(stack)] /\ Len(stack) \in DOMAIN stack
        BY <1>3, ServeFacts
      <4>. QED
        BY <2>2, <4>1, <4>2 DEF Chain
    <3>2. Top.node \in Nodes /\ Target \in Range(Outputs[Top.node])
      BY <1>3, <2>2, <3>1, CallTo
    <3>. QED
      BY <1>1, <1>3, <3>2, BehindFacts DEF Before, Endpoints
  <2>. QED
    BY <2>1, <2>2
<1>6. n = Weight(Head(Top.todo))
  BY <1>3 DEF Weight
<1>. HIDE DEF given, n
<1>7. /\ DOMAIN offers = 1 .. Len(offers) /\ Len(offers) \in Nat
      /\ DOMAIN given = 1 .. Len(given) /\ Len(given) \in Nat
      /\ DOMAIN (offers \o given) = 1 .. (Len(offers) + Len(given))
      /\ \A j \in 1 .. (Len(offers) + Len(given)) :
            (offers \o given)[j] = IF j <= Len(offers) THEN offers[j] ELSE given[j - Len(offers)]
  BY <1>3, <1>4, ConcatProperties, LenProperties
<1>8. \A j \in DOMAIN (offers \o given) :
         \/ j \in DOMAIN offers /\ (offers \o given)[j] = offers[j]
         \/ j - Len(offers) \in DOMAIN given /\ (offers \o given)[j] = given[j - Len(offers)]
  BY <1>7
<1>9. ASSUME NEW j \in DOMAIN (offers \o given), (offers \o given)[j].fate = "error",
             Direct(begun, (offers \o given)[j].at)
      PROVE  Held(Deliver(stack, r), (offers \o given)[j].at)
  <2>1. CASE j \in DOMAIN offers /\ (offers \o given)[j] = offers[j]
    <3>1. Held(stack, offers[j].at)
      BY <1>3, <1>9, <2>1 DEF ErrorsInv, Fated
    <3>. QED
      BY <1>3, <2>1, <3>1, HeldDelivered
  <2>2. CASE j - Len(offers) \in DOMAIN given /\ (offers \o given)[j] = given[j - Len(offers)]
    <3> DEFINE i == j - Len(offers)
    <3>1. i \in 1 .. n /\ fates[i] = "error" /\ (offers \o given)[j].at = Target
      BY <1>4, <1>7, <1>9, <2>2
    <3>. HIDE DEF i
    <3>2. n > 0 /\ r = Error
      BY <1>1, <1>2, <3>1 DEF Fate
    <3>3. Failing(Took(Top, r))
      BY <1>3, <1>6, <3>2, TookFails DEF Error, Result
    <3>. QED
      BY <1>3, <1>5, <3>1, <3>3, HeldDelivered
  <2>. QED
    BY <1>8, <2>1, <2>2
<1>. QED
  BY <1>2, <1>9 DEF Fated, given

(* A call that returns gives its caller what it holds, but to an item of a processor whose     *)
(* output is not the endpoint.                                                                 *)
LEMMA ReturnErrors ==
    ASSUME TypeInv, DueInv, BegunInv, Return, Len(stack) # 1, Role[request.node] # "writer",
           NEW e, Direct(begun, e), Held(stack, e)
    PROVE  Held(stack', e)
<1> DEFINE r == IF Top.item = None THEN Result(FALSE, Top.failed, Top.succeeded, Top.held)
                                   ELSE Result(Top.error, 0, 1, 0)
           caller == Last(Front(stack))
           n == Len(stack) - 1
<1>1. /\ pc = "serve" /\ Top.todo = << >> /\ r \in Results
      /\ stack' = Deliver(Front(stack), r)
      /\ caller = stack[n] /\ n \in DOMAIN stack
      /\ FrameOK(heap, caller) /\ Linked(caller, Top)
      /\ StackOK(heap, request.node, Front(stack)) /\ Front(stack) # << >>
  BY ReturnFacts
<1>2. /\ IsHeap(heap) /\ stack \in Seq(Frames) /\ stack # << >> /\ Top = Last(stack) /\ FrameOK(heap, Top)
      /\ Chain(stack) /\ BegunIn(stack, begun) /\ caller.todo # << >>
  BY <1>1, ServeFacts DEF Top, DueInv, BegunInv, Linked
<1>. HIDE DEF n
<1>3. /\ Role[Top.node] \in {"splitter", "processor"}
      /\ Role[caller.node] \in {"proxy", "splitter", "processor"}
      /\ Role[caller.node] = "processor" /\ caller.item # None => <<caller.node, caller.item>> \in begun
  <2>1. Role[Top.node] \in {"splitter", "processor"}
    BY <1>1, <1>2, ChainPopped
  <2>. QED
    BY <1>1, <1>2, <2>1 DEF Chain, BegunIn
<1>4. Held(Front(stack), e) \/ (Failing(Top) /\ Before(Top.node, e))
  BY <1>2, HeldPopped
<1>5. CASE Held(Front(stack), e)
  BY <1>1, <1>2, <1>5, HeldDelivered
<1>6. CASE Failing(Top) /\ Before(Top.node, e)
  <2>1. e \in Behind[Top.node]
    BY <1>3, <1>6 DEF Before
  <2>2. SUFFICES Before(caller.node, e) /\ Failing(Took(caller, r))
    <3>. HIDE DEF r, caller
    <3>. QED
      BY <1>1, <1>2, HeldDelivered DEF caller
  <2>3. CASE Top.item = None
    <3>1. Head(caller.todo).do = "call" /\ (Top.node = Head(caller.todo).to \/ Role[caller.node] = "proxy")
      BY <1>1, <2>3 DEF Linked
    <3>2. Role[caller.node] # "proxy" =>
             caller.node \in Nodes /\ Top.node \in Range(Outputs[caller.node])
      BY <1>1, <1>2, <1>3, <3>1, CallTo
    <3>3. Before(caller.node, e)
      <4>1. CASE Role[caller.node] = "proxy"
        BY <4>1 DEF Before
      <4>2. CASE Role[caller.node] # "proxy"
        <5>1. Top.node \in Nodes
          BY <1>2 DEF FrameOK
        <5>. QED
          BY <2>1, <3>2, <4>2, <5>1, BehindFacts DEF Before
      <4>. QED
        BY <4>1, <4>2
    <3>4. caller.item = None
      <4>1. SUFFICES ASSUME caller.item # None PROVE FALSE
        OBVIOUS
      <4>2. Role[caller.node] = "processor"
        BY <1>1, <1>3, <4>1 DEF FrameOK, ItemOf
      <4>3. Outputs[caller.node][1] = e
        BY <1>3, <3>3, <4>1, <4>2 DEF Direct, Before
      <4>4. Range(Outputs[caller.node]) = {e}
        <5>1. Len(Outputs[caller.node]) = 1 /\ DOMAIN Outputs[caller.node] = 1 .. Len(Outputs[caller.node])
          BY <3>2, <4>2, OutputFacts, NetworkAssumption
        <5>. QED
          BY <4>3, <5>1 DEF Range
      <4>5. Top.node = e /\ e \in Endpoints
        BY <1>2, <2>1, <3>2, <4>2, <4>4, BehindFacts DEF FrameOK
      <4>. QED
        BY <1>3, <4>5 DEF Endpoints
    <3>5. r = Result(FALSE, Top.failed, Top.succeeded, Top.held) /\ Top.failed > 0
      BY <1>6, <2>3 DEF Failing
    <3>6. ~r.error /\ r.failed > 0
      BY <3>5 DEF Result
    <3>7. Failing(Took(caller, r))
      <4>. HIDE DEF r, caller
      <4>. QED
        BY <1>1, <1>2, <3>4, <3>6, TookFails
    <3>. QED
      BY <3>3, <3>7
  <2>4. CASE Top.item # None
    <3>1. Head(caller.todo).do \in {"process", "action"} /\ Top.node = caller.node
      BY <1>1, <1>3, <2>4 DEF Linked
    <3>2. r = Result(Top.error, 0, 1, 0) /\ Top.error
      BY <1>6, <2>4 DEF Failing
    <3>3. r.error /\ Weight(Head(caller.todo)) > 0
      BY <3>1, <3>2 DEF Result, Weight
    <3>4. Failing(Took(caller, r))
      <4>. HIDE DEF r, caller
      <4>. QED
        BY <1>1, <1>2, <3>3, TookFails
    <3>. QED
      BY <2>1, <3>1, <3>4 DEF Before
  <2>. QED
    BY <2>3, <2>4
<1>. QED
  BY <1>4, <1>5, <1>6

(* Every step keeps it. *)
LEMMA StepErrors ==
    TypeInv /\ DueInv /\ BegunInv /\ ErrorsInv /\ [Next]_vars => ErrorsInv'
<1> SUFFICES ASSUME TypeInv, DueInv, BegunInv, ErrorsInv, [Next]_vars PROVE ErrorsInv'
  OBVIOUS
<1>1. CASE SetConfig \/ \E w \in setting : SetAllowed(w) \/ SetOutput(w)
  <2>1. UNCHANGED <<request, pc, stack, answer, offers, begun>>
    BY <1>1 DEF SetConfig, SetAllowed, SetOutput, history
  <2>. QED
    BY <2>1 DEF ErrorsInv, ErrorsReachCaller, Answered, Fated
<1>2. ASSUME NEW q \in Requests, Receive(q) PROVE ErrorsInv'
  <2>1. offers' = << >>
    BY <1>2 DEF Receive
  <2>. QED
    BY <2>1 DEF ErrorsInv, ErrorsReachCaller, Fated
<1>3. CASE CheckAPIKey \/ LookUpAPIKey
  <2>1. UNCHANGED offers /\ offers = << >>
    BY <1>3 DEF CheckAPIKey, LookUpAPIKey, history, ErrorsInv
  <2>. QED
    BY <2>1 DEF ErrorsInv, ErrorsReachCaller, Fated
<1>4. CASE CallStep
  <2>1. /\ pc = "serve" /\ UNCHANGED request
        /\ \/ pc' = "serve" /\ UNCHANGED answer
           \/ /\ Return /\ Len(stack) = 1 /\ Top.item = None /\ Top = stack[1]
              /\ pc' = "idle" /\ answer' = Result(FALSE, Top.failed, Top.succeeded, Top.held)
        /\ CallEndpoint \/ UNCHANGED offers
    BY <1>4, CallSteps
  <2>2. /\ begun \subseteq begun' /\ stack \in Seq(Frames) /\ stack # << >> /\ Top = Last(stack)
        /\ IsHeap(heap) /\ StackOK(heap, request.node, stack)
    BY <1>4, <2>1, StackSteps, ServeFacts
  <2>3. SUFFICES ASSUME Role[request.node] # "writer", NEW j \in Fated("error")', Direct(begun', offers'[j].at)
                 PROVE  IF pc' = "serve" THEN Held(stack', offers'[j].at)
                                         ELSE answer'.failed > 0
    <3>1. (Answered => pc = "idle")'
      BY DEF Answered
    <3>2. (pc' = "serve" \/ pc' = "idle") /\ Role[request'.node] = Role[request.node]
      BY <2>1
    <3>. QED
      BY <3>1, <3>2 DEF ErrorsInv, ErrorsReachCaller, Direct
  <2>4. Direct(begun, offers'[j].at)
    BY <2>2, <2>3 DEF Direct
  <2>5. CASE CallEndpoint
    <3>1. UNCHANGED pc
      BY <2>5 DEF CallEndpoint
    <3>. QED
      BY <2>1, <2>3, <2>4, <2>5, <3>1, EndpointErrors
  <2>6. CASE ~CallEndpoint
    <3> DEFINE e == offers[j].at
    <3>1. Held(stack, e) /\ offers'[j].at = e /\ Direct(begun, e) /\ Chain(stack)
      BY <2>1, <2>3, <2>4, <2>6 DEF ErrorsInv, DueInv, Fated
    <3>. HIDE DEF e
    <3>2. CASE CallOutput
      <4>1. UNCHANGED pc
        BY <3>2 DEF CallOutput
      <4>2. PICK fr : stack' = Append(stack, fr)
        BY <3>2 DEF CallOutput
      <4>3. fr \in Frames
        <5>1. stack' \in Seq(Frames)
          BY <1>4, StepKeepsType DEF CallStep, Next, Serve, TypeInv, TypeOK
        <5>. QED
          BY <2>2, <4>2, <5>1, AppendedIn
      <4>. QED
        BY <2>1, <2>2, <3>1, <4>1, <4>2, <4>3, HeldPushed
    <3>3. CASE CallUnimplemented
      <4>1. /\ stack' = Deliver(stack, Error) /\ UNCHANGED pc /\ Top.todo # << >> /\ Error \in Results
        BY <3>3 DEF CallUnimplemented, Doing, Error, Result, Results
      <4>. QED
        BY <2>1, <2>2, <3>1, <4>1, HeldDelivered
    <3>4. CASE Return
      <4>1. CASE Len(stack) = 1
        <5>1. Top.item = None /\ Top = stack[1] /\ pc' = "idle"
              /\ answer' = Result(FALSE, Top.failed, Top.succeeded, Top.held)
          BY <2>1, <3>4, <4>1, ReturnFacts
        <5>2. DOMAIN stack = {1}
          BY <2>2, <4>1, LenProperties
        <5>3. Top.failed > 0
          BY <3>1, <5>1, <5>2 DEF Held, Failing
        <5>. QED
          BY <5>1, <5>3 DEF Result
      <4>2. CASE Len(stack) # 1
        <5>1. UNCHANGED pc
          BY <3>4, <4>2, ReturnFacts
        <5>. QED
          BY <2>1, <2>3, <3>1, <3>4, <4>2, <5>1, ReturnErrors
      <4>. QED
        BY <4>1, <4>2
    <3>5. CASE TakeItem \/ ApplyRule \/ FailAction \/ Signal \/ Change \/ Create
      <4>1. UNCHANGED pc /\ Top \in Frames
        BY <2>2, <3>5, ItemSteps, FrontLast
      <4>2. PICK fr \in Frames :
                 /\ fr.node = Top.node /\ fr.item # None
                 /\ \/ stack' = Append(stack, fr)
                    \/ /\ stack' = ReplaceTop(fr) /\ fr.item = Top.item
                       /\ fr.error = TRUE \/ fr.error = Top.error
        BY <3>5, ItemSteps
      <4>3. CASE stack' = Append(stack, fr)
        BY <2>1, <2>2, <3>1, <4>1, <4>3, HeldPushed
      <4>4. CASE /\ stack' = ReplaceTop(fr) /\ fr.item = Top.item
                 /\ fr.error = TRUE \/ fr.error = Top.error
        <5>1. Failing(Last(stack)) => Failing(fr)
          BY <2>2, <4>2, <4>4 DEF Failing
        <5>. QED
          BY <2>1, <2>2, <3>1, <4>1, <4>2, <4>4, <5>1, HeldReplaced DEF ReplaceTop
      <4>. QED
        BY <4>2, <4>3, <4>4
    <3>6. CASE ConvertMetrics
      <4>1. Top.todo # << >> /\ Head(Top.todo).do = "convert"
        BY <3>6 DEF ConvertMetrics, Doing, Entry
      <4>2. Role[Top.node] = "zenoss" /\ Top = stack[Len(stack)] /\ Len(stack) \in DOMAIN stack
        BY <2>1, <4>1, ServeFacts, ConvertFacts
      <4>. QED
        BY <3>1, <4>2 DEF Chain
    <3>. QED
      BY <1>4, <2>6, <3>2, <3>3, <3>4, <3>5, <3>6 DEF CallStep
  <2>. QED
    BY <2>5, <2>6
<1>5. CASE UNCHANGED vars
  BY <1>5 DEF vars, history, ErrorsInv, ErrorsReachCaller, Answered, Fated
<1>6. CASE Panic
  BY <1>6, PanicFacts DEF ErrorsInv, ErrorsReachCaller, Answered
<1>. QED
  BY <1>1, <1>2, <1>3, <1>4, <1>5, <1>6 DEF Next, Serve, CallStep

(* An error of an endpoint comes back as an error or a failure, through any network, but for  *)
(* the processors that ignore the counts of another receiver.                                 *)
THEOREM ReceiversErrorsReachCaller == Spec => []ErrorsReachCaller
<1>1. Init => DueInv /\ BegunInv /\ ErrorsInv
  BY DEF Init, DueInv, BegunInv, ErrorsInv, ErrorsReachCaller, Counted, Answered
<1>2. ErrorsInv => ErrorsReachCaller
  BY DEF ErrorsInv
<1>. QED
  BY <1>1, <1>2, InitTyped, StepKeepsType, StepDue, StepBegun, StepErrors, PTL DEF Spec
=============================================================================
