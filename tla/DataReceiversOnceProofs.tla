---------------------- MODULE DataReceiversOnceProofs ----------------------
(***************************************************************************)
(* Proofs about DataReceivers that nothing is done twice, and nothing left *)
(* out: where every item ends, and what a report of the health framework   *)
(* becomes.                                                                *)
(*                                                                         *)
(* OnceInv says of an item at which places it is on its way to an          *)
(* endpoint; ReportInv what the destinations the health writer is through  *)
(* with have been given.                                                   *)
(***************************************************************************)
EXTENDS DataReceiversProofs

-----------------------------------------------------------------------------
(* Where items are on their way. *)

(* An endpoint is behind itself only; what is behind another node is behind one of its outputs. *)
LEMMA BehindEndpoint ==
    ASSUME NEW e \in Endpoints
    PROVE  e \in Nodes /\ Behind[e] = {e}
<1>1. e \in Nodes /\ Outputs[e] = << >> /\ Role[e] = "endpoint"
  BY NetworkAssumption DEF Endpoints
<1>2. Behind[e] = {x \in Endpoints : \A S \in SUBSET Nodes : e \in S /\ Closed(S) => x \in S}
  BY <1>1 DEF Behind
<1>3. Closed({e}) /\ {e} \in SUBSET Nodes
  <2>1. Range(Outputs[e]) = {}
    BY <1>1 DEF Range
  <2>. QED
    BY <1>1, <2>1 DEF Closed
<1>. QED
  BY <1>1, <1>2, <1>3

(* An endpoint behind a node is behind one of its outputs. *)
LEMMA BehindOutput ==
    ASSUME NEW n \in Nodes, Role[n] # "endpoint", NEW e \in Behind[n]
    PROVE  \E o \in DOMAIN Outputs[n] : e \in Behind[Outputs[n][o]]
<1>1. \A m \in Nodes : Behind[m] = {x \in Endpoints : \A S \in SUBSET Nodes : m \in S /\ Closed(S) => x \in S}
  BY DEF Behind
<1>2. e \in Endpoints /\ e \in Nodes /\ e # n /\ e \in Behind[e]
  BY <1>1, BehindEndpoint DEF Endpoints
<1>3. SUFFICES ASSUME \A o \in DOMAIN Outputs[n] : e \notin Behind[Outputs[n][o]] PROVE FALSE
  OBVIOUS
<1> DEFINE S == {m \in Nodes : e \notin Behind[m]} \cup {n}
<1>4. S \in SUBSET Nodes /\ n \in S /\ e \notin S
  BY <1>2
<1>5. ASSUME NEW m \in S PROVE Range(Outputs[m]) \subseteq S
  <2>1. m \in Nodes /\ Range(Outputs[m]) \subseteq Nodes
    BY OutputFacts
  <2>2. CASE m = n
    <3>1. \A o \in Range(Outputs[n]) : e \notin Behind[o]
      BY <1>3 DEF Range
    <3>. QED
      BY <2>1, <2>2, <3>1
  <2>3. CASE e \notin Behind[m]
    <3>1. \A o \in Range(Outputs[m]) : e \notin Behind[o]
      BY <2>1, <2>3, BehindFacts
    <3>. QED
      BY <2>1, <3>1
  <2>. QED
    BY <2>2, <2>3
<1>. HIDE DEF S
<1>6. Closed(S)
  BY <1>5 DEF Closed
<1>7. \A T \in SUBSET Nodes : n \in T /\ Closed(T) => e \in T
  BY <1>1
<1>. QED
  BY <1>4, <1>6, <1>7

(* What is behind a node with one output is what is behind the output. *)
LEMMA BehindSingle ==
    ASSUME NEW n \in Nodes, Role[n] \in {"processor", "zenoss"}
    PROVE  Outputs[n][1] \in Nodes /\ Behind[n] = Behind[Outputs[n][1]]
<1>1. /\ DOMAIN Outputs[n] = {1} /\ Outputs[n][1] \in Range(Outputs[n]) /\ Outputs[n][1] \in Nodes
  <2>1. Len(Outputs[n]) = 1
    BY NetworkAssumption
  <2>. QED
    BY <2>1, OutputFacts
<1>2. Behind[Outputs[n][1]] \subseteq Behind[n]
  BY <1>1, BehindFacts
<1>3. \A e \in Behind[n] : e \in Behind[Outputs[n][1]]
  BY <1>1, BehindOutput
<1>. QED
  BY <1>1, <1>2, <1>3

(* The items an entry is about, and the endpoints it brings them to unless they are stopped:   *)
(* those behind where it sends them, all of them when the proxy has yet to choose.             *)
Carried(entry) ==
    CASE entry.do = "call"    -> UNION {Range(entry.groups[g].ids) : g \in DOMAIN entry.groups}
      [] entry.do = "process" -> {entry.item}
      [] entry.do = "convert" -> Range(entry.ids)
      [] OTHER                -> {}

Reached(n) ==
    IF Role[n] = "proxy" THEN Endpoints
    ELSE IF Role[n] \in {"splitter", "processor", "endpoint"} THEN Behind[n] ELSE {}

Aimed(n, entry) ==
    CASE entry.do = "call"                  -> Reached(entry.to)
      [] entry.do \in {"process", "convert"} -> Behind[n]
      [] OTHER                              -> {}

Brings(n, entry, e, i) == e \in Aimed(n, entry) /\ i \in Carried(entry)

(* An entry of a frame by how many come after it: that stays as the entries before are done.   *)
Leads(fr, b, e, i) ==
    b \in 0 .. Len(fr.todo) - 1 /\ Brings(fr.node, fr.todo[Len(fr.todo) - b], e, i)

Led(fr, e, i) == {b \in 0 .. Len(fr.todo) - 1 : Leads(fr, b, e, i)}

(* What a frame has left: all of it on top of the stack, below that all but what is under way. *)
Left(st, k) == IF k = Len(st) THEN Len(st[k].todo) ELSE Len(st[k].todo) - 1

(* Where an item is on its way to an endpoint: the entries that will bring it there; and, as   *)
(* of frame 0, the offers of it.                                                               *)
Ahead(st, e, i) ==
    UNION {{k} \X {b \in Led(st[k], e, i) : b < Left(st, k)} : k \in DOMAIN st}

Offered(os, e, i) == {j \in DOMAIN os : os[j].at = e /\ os[j].item = i}

Spots(st, os, e, i) == ({0} \X Offered(os, e, i)) \cup Ahead(st, e, i)

(* The entry under way. *)
Tip(st) == <<Len(st), Len(Last(st).todo) - 1>>

(* The places there are. *)
LEMMA AheadElements ==
    ASSUME NEW st \in Seq(Frames), NEW e, NEW i, NEW p
    PROVE  p \in Ahead(st, e, i) <=>
               /\ p = <<p[1], p[2]>> /\ p[1] \in DOMAIN st
               /\ p[2] \in Led(st[p[1]], e, i) /\ p[2] < Left(st, p[1])
BY DEF Ahead

(* A frame above: the entry under way is its own affair now. *)
LEMMA AheadPushed ==
    ASSUME NEW st \in Seq(Frames), st # << >>, Last(st).todo # << >>, NEW fr \in Frames, NEW e, NEW i
    PROVE  Ahead(Append(st, fr), e, i) =
               (Ahead(st, e, i) \ {Tip(st)}) \cup ({Len(st) + 1} \X Led(fr, e, i))
<1> DEFINE t == Append(st, fr)
           n == Len(st)
<1>1. /\ t \in Seq(Frames) /\ n \in Nat \ {0} /\ DOMAIN t = 1 .. n + 1 /\ DOMAIN st = 1 .. n
      /\ t[n + 1] = fr /\ Len(t) = n + 1
      /\ Last(st) = st[n] /\ \A k \in 1 .. n : t[k] = st[k] /\ st[k] \in Frames
  <2>1. n \in Nat \ {0} /\ DOMAIN st = 1 .. n /\ Last(st) = st[n] /\ \A k \in 1 .. n : st[k] \in Frames
    BY FrontLast, ElementOfSeq
  <2>2. /\ t \in Seq(Frames) /\ DOMAIN t = 1 .. n + 1 /\ t[n + 1] = fr /\ Len(t) = n + 1
        /\ \A k \in 1 .. n : t[k] = st[k]
    BY AppendFacts
  <2>. QED
    BY <2>1, <2>2
<1>2. \A k \in 1 .. n : Len(st[k].todo) \in Nat
  BY <1>1, LenProperties DEF Frames
<1>3. Len(fr.todo) \in Nat
  BY LenProperties DEF Frames
<1>. HIDE DEF t, n
<1>4. /\ \A b \in Led(fr, e, i) : b < Left(t, n + 1)
      /\ \A k \in 1 .. n : \A b \in Led(st[k], e, i) :
             b \in Nat /\ (b < Left(t, k) <=> b < Left(st, k) /\ <<k, b>> # <<n, Len(st[n].todo) - 1>>)
  <2>1. \A b \in Led(fr, e, i) : b < Left(t, n + 1)
    BY <1>1, <1>3 DEF Left, Led
  <2>2. ASSUME NEW k \in 1 .. n, NEW b \in Led(st[k], e, i)
        PROVE  b \in Nat /\ (b < Left(t, k) <=> b < Left(st, k) /\ <<k, b>> # <<n, Len(st[n].todo) - 1>>)
    <3>1. b \in 0 .. Len(st[k].todo) - 1 /\ Left(t, k) = Len(st[k].todo) - 1
      BY <1>1 DEF Left, Led
    <3>2. Left(st, k) = IF k = n THEN Len(st[k].todo) ELSE Len(st[k].todo) - 1
      BY DEF Left, n
    <3>. QED
      BY <1>2, <3>1, <3>2
  <2>. QED
    BY <2>1, <2>2
<1>5. ASSUME NEW p
      PROVE  p \in Ahead(t, e, i) <=> p \in (Ahead(st, e, i) \ {Tip(st)}) \cup ({n + 1} \X Led(fr, e, i))
  <2>1. p \in Ahead(t, e, i) <=>
           p = <<p[1], p[2]>> /\ p[1] \in 1 .. n + 1 /\ p[2] \in Led(t[p[1]], e, i) /\ p[2] < Left(t, p[1])
    BY <1>1, AheadElements
  <2>2. p \in Ahead(st, e, i) <=>
           p = <<p[1], p[2]>> /\ p[1] \in 1 .. n /\ p[2] \in Led(st[p[1]], e, i) /\ p[2] < Left(st, p[1])
    BY <1>1, AheadElements
  <2>3. Tip(st) = <<n, Len(st[n].todo) - 1>>
    BY <1>1 DEF Tip, n
  <2>4. p[1] \in 1 .. n + 1 <=> p[1] \in 1 .. n \/ p[1] = n + 1
    BY <1>1
  <2>5. n + 1 \notin 1 .. n
    BY <1>1
  <2>. QED
    BY <1>1, <1>4, <2>1, <2>2, <2>3, <2>4, <2>5
<1>. QED
  BY <1>5 DEF t, n

(* Another frame on top. *)
LEMMA AheadReplaced ==
    ASSUME NEW st \in Seq(Frames), st # << >>, NEW fr \in Frames, NEW e, NEW i
    PROVE  Ahead(Append(Front(st), fr), e, i) =
               {p \in Ahead(st, e, i) : p[1] # Len(st)} \cup ({Len(st)} \X Led(fr, e, i))
<1> DEFINE t == Append(Front(st), fr)
           n == Len(st)
<1>1. /\ t \in Seq(Frames) /\ n \in Nat \ {0} /\ DOMAIN t = 1 .. n /\ DOMAIN st = 1 .. n
      /\ t[n] = fr /\ Len(t) = n /\ \A k \in 1 .. n - 1 : t[k] = st[k]
  BY FrontAppended, LenProperties
<1>2. Len(fr.todo) \in Nat
  BY LenProperties DEF Frames
<1>. HIDE DEF t, n
<1>3. \A b \in Led(fr, e, i) : b < Left(t, n)
  BY <1>1, <1>2 DEF Left, Led
<1>4. \A k \in 1 .. n - 1 : Left(t, k) = Left(st, k)
  BY <1>1 DEF Left, n
<1>5. ASSUME NEW p
      PROVE  p \in Ahead(t, e, i) <=> p \in {q \in Ahead(st, e, i) : q[1] # n} \cup ({n} \X Led(fr, e, i))
  <2>1. p \in Ahead(t, e, i) <=>
           p = <<p[1], p[2]>> /\ p[1] \in 1 .. n /\ p[2] \in Led(t[p[1]], e, i) /\ p[2] < Left(t, p[1])
    BY <1>1, AheadElements
  <2>2. p \in Ahead(st, e, i) <=>
           p = <<p[1], p[2]>> /\ p[1] \in 1 .. n /\ p[2] \in Led(st[p[1]], e, i) /\ p[2] < Left(st, p[1])
    BY <1>1, AheadElements
  <2>3. p[1] \in 1 .. n <=> p[1] \in 1 .. n - 1 \/ p[1] = n
    BY <1>1
  <2>4. n \notin 1 .. n - 1
    BY <1>1
  <2>. QED
    BY <1>1, <1>3, <1>4, <2>1, <2>2, <2>3, <2>4
<1>. QED
  BY <1>5 DEF t, n

(* A frame that has nothing left to do, and the one below, with an entry under way. *)
LEMMA AheadPopped ==
    ASSUME NEW st \in Seq(Frames), st # << >>, Front(st) # << >>, Last(st).todo = << >>,
           Last(Front(st)).todo # << >>, NEW e, NEW i
    PROVE  Ahead(st, e, i) = Ahead(Front(st), e, i) \ {Tip(Front(st))}
<1> DEFINE f == Front(st)
<1>1. f \in Seq(Frames) /\ Last(st) \in Frames
  BY FrontLast
<1>2. st = Append(f, Last(st))
  BY FrontAppended, FrontLast, SeqEqual
<1>3. Led(Last(st), e, i) = {}
  BY DEF Led
<1>. HIDE DEF f
<1>4. Ahead(Append(f, Last(st)), e, i) = (Ahead(f, e, i) \ {Tip(f)}) \cup ({Len(f) + 1} \X {})
  BY <1>1, <1>3, AheadPushed DEF f
<1>. QED
  BY <1>2, <1>4 DEF f

(* A frame whose first entry is done. *)
LEMMA LedTail ==
    ASSUME NEW fr \in Frames, fr.todo # << >>, NEW t \in Frames, t.node = fr.node,
           t.todo = Tail(fr.todo), NEW e, NEW i
    PROVE  Led(t, e, i) = Led(fr, e, i) \ {Len(fr.todo) - 1}
<1>1. /\ Len(fr.todo) \in Nat \ {0} /\ Len(t.todo) = Len(fr.todo) - 1
      /\ \A k \in 1 .. Len(fr.todo) - 1 : t.todo[k] = fr.todo[k + 1]
  BY HeadTailProperties, LenProperties, EmptySeq DEF Frames
<1> DEFINE n == Len(fr.todo)
<1>. HIDE DEF n
<1>2. \A b \in 0 .. n - 2 : t.todo[n - 1 - b] = fr.todo[n - b]
  BY <1>1 DEF n
<1>3. ASSUME NEW b
      PROVE  b \in Led(t, e, i) <=> b \in Led(fr, e, i) \ {n - 1}
  <2>1. b \in Led(t, e, i) <=> b \in 0 .. n - 2 /\ Brings(fr.node, t.todo[n - 1 - b], e, i)
    BY <1>1 DEF Led, Leads, n
  <2>2. b \in Led(fr, e, i) <=> b \in 0 .. n - 1 /\ Brings(fr.node, fr.todo[n - b], e, i)
    BY <1>1 DEF Led, Leads, n
  <2>3. b \in 0 .. n - 2 <=> b \in 0 .. n - 1 /\ b # n - 1
    BY <1>1 DEF n
  <2>. QED
    BY <1>2, <2>1, <2>2, <2>3
<1>. QED
  BY <1>3 DEF n

(* The entry under way leads to what it brings. *)
LEMMA TipLeads ==
    ASSUME NEW st \in Seq(Frames), st # << >>, Last(st).todo # << >>, NEW e, NEW i
    PROVE  /\ Tip(st) \in Ahead(st, e, i) <=> Brings(Last(st).node, Head(Last(st).todo), e, i)
           /\ Tip(st)[1] = Len(st) /\ Len(st) \in Nat \ {0}
<1> DEFINE todo == Last(st).todo
<1>1. Len(st) \in Nat \ {0} /\ DOMAIN st = 1 .. Len(st) /\ Last(st) = st[Len(st)] /\ Last(st) \in Frames
  BY FrontLast
<1>2. Len(todo) \in Nat \ {0} /\ Head(todo) = todo[1]
  BY <1>1, LenProperties, EmptySeq, HeadTailProperties DEF Frames
<1>3. Left(st, Len(st)) = Len(todo)
  BY <1>1 DEF Left
<1>4. Len(todo) - 1 \in Led(Last(st), e, i) <=> Brings(Last(st).node, Head(todo), e, i)
  <2>1. Len(todo) - (Len(todo) - 1) = 1 /\ Len(todo) - 1 \in 0 .. Len(todo) - 1
    BY <1>2
  <2>. QED
    BY <1>2, <2>1 DEF Led, Leads
<1>. QED
  BY <1>1, <1>2, <1>3, <1>4, AheadElements DEF Tip

(* The items in groups. *)
Items(groups) == UNION {Range(groups[g].ids) : g \in DOMAIN groups}

(* Where a frame leads, by the entries as they come. *)
LEMMA LedAt ==
    ASSUME NEW fr \in Frames, NEW e, NEW i
    PROVE  /\ \A b \in Led(fr, e, i) :
                 Len(fr.todo) - b \in DOMAIN fr.todo /\ Brings(fr.node, fr.todo[Len(fr.todo) - b], e, i)
           /\ \A k \in DOMAIN fr.todo :
                 Brings(fr.node, fr.todo[k], e, i) => Len(fr.todo) - k \in Led(fr, e, i)
           /\ (\A k, m \in DOMAIN fr.todo :
                  Brings(fr.node, fr.todo[k], e, i) /\ Brings(fr.node, fr.todo[m], e, i) => k = m)
              => \A b, c \in Led(fr, e, i) : b = c
<1> DEFINE n == Len(fr.todo)
<1>1. n \in Nat /\ DOMAIN fr.todo = 1 .. n
  BY LenProperties DEF Frames
<1>2. \A b : b \in Led(fr, e, i) <=> b \in 0 .. n - 1 /\ Brings(fr.node, fr.todo[n - b], e, i)
  BY DEF Led, Leads
<1>. HIDE DEF n
<1>3. /\ \A b \in 0 .. n - 1 : n - b \in 1 .. n
      /\ \A k \in 1 .. n : n - k \in 0 .. n - 1 /\ n - (n - k) = k
      /\ \A b, c \in 0 .. n - 1 : n - b = n - c => b = c
  BY <1>1
<1>4. \A b \in Led(fr, e, i) : n - b \in DOMAIN fr.todo /\ Brings(fr.node, fr.todo[n - b], e, i)
  BY <1>1, <1>2, <1>3
<1>5. ASSUME NEW k \in DOMAIN fr.todo, Brings(fr.node, fr.todo[k], e, i) PROVE n - k \in Led(fr, e, i)
  BY <1>1, <1>2, <1>3, <1>5
<1>6. ASSUME \A k, m \in DOMAIN fr.todo :
                Brings(fr.node, fr.todo[k], e, i) /\ Brings(fr.node, fr.todo[m], e, i) => k = m
      PROVE  \A b, c \in Led(fr, e, i) : b = c
  <2>1. SUFFICES ASSUME NEW b \in Led(fr, e, i), NEW c \in Led(fr, e, i) PROVE b = c
    OBVIOUS
  <2>2. b \in 0 .. n - 1 /\ c \in 0 .. n - 1 /\ n - b = n - c
    BY <1>1, <1>2, <1>4, <1>6, <2>1
  <2>. QED
    BY <1>3, <2>2
<1>. QED
  BY <1>4, <1>5, <1>6 DEF n

(* What is brought by a call with one of the groups. *)
LEMMA SingleBrings ==
    ASSUME NEW to, NEW group, NEW n, NEW e, NEW i
    PROVE  /\ Brings(n, Call(to, <<group>>), e, i) <=> e \in Reached(to) /\ i \in Range(group.ids)
           /\ Call(to, <<group>>).do = "call" /\ Call(to, <<group>>).groups = <<group>>
BY DEF Brings, Aimed, Carried, Call

(* Distinct groups have distinct items each, and no item in common. *)
LEMMA DistinctGroups ==
    ASSUME NEW groups, Distinct(groups)
    PROVE  /\ \A g \in DOMAIN groups : Distinct(<<groups[g]>>)
           /\ \A g, h \in DOMAIN groups : \A i \in Range(groups[g].ids) \cap Range(groups[h].ids) : g = h
           /\ \A g \in DOMAIN groups : \A i : i \in Range(groups[g].ids) => i \in Items(groups)
           /\ \A i \in Items(groups) : \E g \in DOMAIN groups : i \in Range(groups[g].ids)
BY DEF Distinct, Range, Items

(* Entries do not list an item twice. *)
Plain(entry) ==
    /\ entry.do = "call" => Distinct(entry.groups)
    /\ entry.do = "convert" => Distinct(<<Group("metric", entry.ids)>>)

(* A call with one kind only lists no item twice if the kind does not. *)
LEMMA SinglePlain ==
    ASSUME NEW to, NEW group, Distinct(<<group>>)
    PROVE  Plain(Call(to, <<group>>))
BY DEF Plain, Call

(* What is known of an agenda: an item is led to an endpoint once, if at all, and only an item *)
(* of the groups; by a splitter or processor, every one of them to all that is behind it.      *)
Leading(n, groups, todo, e, i) ==
    /\ \A k, m \in DOMAIN todo : Brings(n, todo[k], e, i) /\ Brings(n, todo[m], e, i) => k = m
    /\ \A k \in DOMAIN todo : Brings(n, todo[k], e, i) => e \in Reached(n) /\ i \in Items(groups)
    /\ Role[n] # "proxy" /\ e \in Reached(n) /\ i \in Items(groups) =>
          \E k \in DOMAIN todo : Brings(n, todo[k], e, i)

(* What a proxy, a splitter and a processor have to do leads each item they are given once to  *)
(* each endpoint behind them.                                                                  *)
LEMMA ProxyLeads ==
    ASSUME NEW h, NEW n \in Nodes, Role[n] = "proxy", NEW groups \in Seq(Sendable(h)),
           Distinct(groups), NEW e, NEW i
    PROVE  /\ Leading(n, groups, ProxyAgenda(n, groups), e, i)
           /\ \A k \in DOMAIN ProxyAgenda(n, groups) : Plain(ProxyAgenda(n, groups)[k])
<1> DEFINE todo == ProxyAgenda(n, groups)
<1>1. DOMAIN todo = DOMAIN groups /\ \A g \in DOMAIN groups : todo[g] = Call(n, <<groups[g]>>)
  BY DEF ProxyAgenda
<1>. HIDE DEF todo
<1>2. \A g \in DOMAIN groups : Brings(n, todo[g], e, i) <=> e \in Reached(n) /\ i \in Range(groups[g].ids)
  <2>1. ASSUME NEW g \in DOMAIN groups
        PROVE  Brings(n, Call(n, <<groups[g]>>), e, i) <=> e \in Reached(n) /\ i \in Range(groups[g].ids)
    BY SingleBrings
  <2>. QED
    BY <1>1, <2>1
<1>3. /\ \A g \in DOMAIN groups :
            Distinct(<<groups[g]>>) /\ (i \in Range(groups[g].ids) => i \in Items(groups))
      /\ \A g, m \in DOMAIN groups : i \in Range(groups[g].ids) /\ i \in Range(groups[m].ids) => g = m
  BY DistinctGroups
<1>4. \A g \in DOMAIN groups : Plain(todo[g])
  <2>1. \A g \in DOMAIN groups : Plain(Call(n, <<groups[g]>>))
    BY <1>3, SinglePlain
  <2>. QED
    BY <1>1, <2>1
<1>. QED
  BY <1>1, <1>2, <1>3, <1>4 DEF Leading, todo

(* For a splitter, that is because no two outputs have an endpoint in common. *)
LEMMA SplitterLeads ==
    ASSUME OnePath, NEW h, NEW n \in Nodes, Role[n] = "splitter", NEW groups \in Seq(Sendable(h)),
           Distinct(groups), NEW e, NEW i
    PROVE  /\ Leading(n, groups, SplitterAgenda(n, groups), e, i)
           /\ \A k \in DOMAIN SplitterAgenda(n, groups) : Plain(SplitterAgenda(n, groups)[k])
<1> DEFINE todo == SplitterAgenda(n, groups)
           rows == SplitterRows(n, groups)
           outs == Outputs[n]
<1>1. /\ DOMAIN rows = DOMAIN outs /\ \A o \in DOMAIN outs : DOMAIN rows[o] = DOMAIN groups
      /\ \A o \in DOMAIN outs : \A g \in DOMAIN groups : rows[o][g] = Call(outs[o], <<groups[g]>>)
  BY DEF SplitterRows
<1>2. PICK f \in Bijection(DOMAIN todo, Places(rows, Len(rows))) :
          \A k \in DOMAIN todo : todo[k] = rows[f[k][1]][f[k][2]]
  <2>1. \E S : rows \in Seq(Seq(S))
    BY SplitterAgendaType
  <2>2. todo = FlattenSeq(rows)
    BY DEF SplitterAgenda, SplitterRows
  <2>. HIDE DEF rows, todo
  <2>3. Flattens(todo, rows, Len(rows))
    BY <2>1, <2>2, FlattenProperties
  <2>. QED
    BY <2>3 DEF Flattens
<1>3. DOMAIN outs = 1 .. Len(rows)
  BY <1>1, SplitterAgendaType, LenProperties
<1>4. /\ \A p \in Places(rows, Len(rows)) : p = <<p[1], p[2]>> /\ p[1] \in DOMAIN outs /\ p[2] \in DOMAIN groups
      /\ \A o \in DOMAIN outs : \A g \in DOMAIN groups : <<o, g>> \in Places(rows, Len(rows))
  BY <1>1, <1>3 DEF Places
<1>5. \A o \in DOMAIN outs : outs[o] \in Nodes /\ Reached(outs[o]) = Behind[outs[o]]
  BY OutputFacts DEF Reached, Receivers
<1>6. /\ \A o \in DOMAIN outs : Behind[outs[o]] \subseteq Behind[n]
      /\ \A x \in Behind[n] : \E o \in DOMAIN outs : x \in Behind[outs[o]]
      /\ Reached(n) = Behind[n]
  BY <1>5, OutputFacts, BehindFacts, BehindOutput DEF Reached
<1>14. /\ \A g \in DOMAIN groups :
             Distinct(<<groups[g]>>) /\ (i \in Range(groups[g].ids) => i \in Items(groups))
       /\ \A g, m \in DOMAIN groups : i \in Range(groups[g].ids) /\ i \in Range(groups[m].ids) => g = m
       /\ i \in Items(groups) => \E g \in DOMAIN groups : i \in Range(groups[g].ids)
  BY DistinctGroups
<1>. HIDE DEF todo, rows, outs
<1>7. \A o \in DOMAIN outs : \A g \in DOMAIN groups :
         /\ Brings(n, rows[o][g], e, i) <=> e \in Behind[outs[o]] /\ i \in Range(groups[g].ids)
         /\ Plain(rows[o][g])
  <2>1. ASSUME NEW o \in DOMAIN outs, NEW g \in DOMAIN groups
        PROVE  /\ Brings(n, Call(outs[o], <<groups[g]>>), e, i) <=> e \in Behind[outs[o]] /\ i \in Range(groups[g].ids)
               /\ Plain(Call(outs[o], <<groups[g]>>))
    BY <1>5, <1>14, SingleBrings, SinglePlain
  <2>. QED
    BY <1>1, <2>1
<1>8. \A k \in DOMAIN todo : f[k] = <<f[k][1], f[k][2]>> /\ f[k][1] \in DOMAIN outs /\ f[k][2] \in DOMAIN groups
  BY <1>2, <1>4 DEF Bijection, Injection, Surjection
<1>9. \A o, p \in DOMAIN outs : e \in Behind[outs[o]] /\ e \in Behind[outs[p]] => o = p
  BY DEF OnePath, outs
<1>10. ASSUME NEW k \in DOMAIN todo, NEW m \in DOMAIN todo, Brings(n, todo[k], e, i), Brings(n, todo[m], e, i)
       PROVE  k = m
  <2>1. f[k][1] = f[m][1]
    BY <1>2, <1>7, <1>8, <1>9, <1>10
  <2>2. f[k][2] = f[m][2]
    BY <1>2, <1>7, <1>8, <1>10, <1>14
  <2>3. f[k] = f[m]
    BY <1>8, <2>1, <2>2
  <2>. QED
    BY <1>2, <2>3 DEF Bijection, Injection, IsInjective
<1>11. ASSUME e \in Reached(n), i \in Items(groups)
       PROVE  \E k \in DOMAIN todo : Brings(n, todo[k], e, i)
  <2>1. PICK o \in DOMAIN outs, g \in DOMAIN groups : e \in Behind[outs[o]] /\ i \in Range(groups[g].ids)
    BY <1>6, <1>11, <1>14
  <2>2. PICK k \in DOMAIN todo : f[k] = <<o, g>>
    BY <1>2, <1>4 DEF Bijection, Surjection
  <2>. QED
    BY <1>2, <1>7, <2>1, <2>2
<1>12. ASSUME NEW k \in DOMAIN todo, Brings(n, todo[k], e, i)
       PROVE  e \in Reached(n) /\ i \in Items(groups)
  <2>1. e \in Behind[outs[f[k][1]]] /\ i \in Range(groups[f[k][2]].ids) /\ f[k][1] \in DOMAIN outs
        /\ f[k][2] \in DOMAIN groups
    BY <1>2, <1>7, <1>8, <1>12
  <2>. QED
    BY <1>6, <1>14, <2>1
<1>13. \A k \in DOMAIN todo : Plain(todo[k])
  BY <1>2, <1>7, <1>8
<1>. QED
  BY <1>10, <1>11, <1>12, <1>13 DEF Leading, todo

(* For a processor, because it sends compact metrics at once and all else one by one. *)
LEMMA ProcessorLeads ==
    ASSUME NEW h, NEW n \in Nodes, Role[n] = "processor", NEW groups \in Seq(Sendable(h)),
           ~Unimplemented(n, groups), Distinct(groups), NEW e, NEW i
    PROVE  /\ Leading(n, groups, ProcessorAgenda(n, groups), e, i)
           /\ \A k \in DOMAIN ProcessorAgenda(n, groups) : Plain(ProcessorAgenda(n, groups)[k])
<1> DEFINE todo == ProcessorAgenda(n, groups)
           rows == ProcessorRows(n, groups)
           out  == Outputs[n][1]
<1>1. /\ DOMAIN rows = DOMAIN groups
      /\ \A g \in DOMAIN groups : rows[g] = IF groups[g].kind = "compact" THEN <<Call(out, <<groups[g]>>)>>
                                  ELSE [j \in DOMAIN groups[g].ids |-> Process(groups[g].ids[j])]
  BY DEF ProcessorRows
<1>2. PICK f \in Bijection(DOMAIN todo, Places(rows, Len(rows))) :
          \A k \in DOMAIN todo : todo[k] = rows[f[k][1]][f[k][2]]
  <2>1. \E S : rows \in Seq(Seq(S))
    BY ProcessorAgendaType
  <2>2. todo = FlattenSeq(rows)
    BY DEF ProcessorAgenda, ProcessorRows
  <2>. HIDE DEF rows, todo
  <2>3. Flattens(todo, rows, Len(rows))
    BY <2>1, <2>2, FlattenProperties
  <2>. QED
    BY <2>3 DEF Flattens
<1>3. DOMAIN groups = 1 .. Len(rows)
  BY <1>1, ProcessorAgendaType, LenProperties
<1>4. /\ \A p \in Places(rows, Len(rows)) : p = <<p[1], p[2]>> /\ p[1] \in DOMAIN groups /\ p[2] \in DOMAIN rows[p[1]]
      /\ \A g \in DOMAIN groups : \A j \in DOMAIN rows[g] : <<g, j>> \in Places(rows, Len(rows))
  BY <1>1, <1>3 DEF Places
<1>5. Reached(out) = Behind[n] /\ Reached(n) = Behind[n]
  <2>1. out \in Receivers /\ Behind[out] = Behind[n]
    BY OutputFacts, BehindSingle
  <2>. QED
    BY <2>1 DEF Reached, Receivers
<1>11. /\ \A g \in DOMAIN groups :
             Distinct(<<groups[g]>>) /\ (i \in Range(groups[g].ids) => i \in Items(groups))
       /\ \A g, m \in DOMAIN groups : i \in Range(groups[g].ids) /\ i \in Range(groups[m].ids) => g = m
       /\ i \in Items(groups) => \E g \in DOMAIN groups : i \in Range(groups[g].ids)
  BY DistinctGroups
<1>. HIDE DEF todo, rows, out
<1>6. \A k \in DOMAIN todo : f[k] = <<f[k][1], f[k][2]>> /\ f[k][1] \in DOMAIN groups /\ f[k][2] \in DOMAIN rows[f[k][1]]
  BY <1>2, <1>4 DEF Bijection, Injection, Surjection
<1>7. ASSUME NEW g \in DOMAIN groups
      PROVE  /\ \A j \in DOMAIN rows[g] :
                   /\ Brings(n, rows[g][j], e, i) => e \in Behind[n] /\ i \in Range(groups[g].ids)
                   /\ Plain(rows[g][j])
             /\ \A j, k \in DOMAIN rows[g] : Brings(n, rows[g][j], e, i) /\ Brings(n, rows[g][k], e, i) => j = k
             /\ e \in Behind[n] /\ i \in Range(groups[g].ids) => \E j \in DOMAIN rows[g] : Brings(n, rows[g][j], e, i)
  <2>1. CASE groups[g].kind = "compact"
    <3>1. rows[g] = <<Call(out, <<groups[g]>>)>>
      BY <1>1, <2>1
    <3>2. DOMAIN rows[g] = {1} /\ rows[g][1] = Call(out, <<groups[g]>>)
      BY <3>1
    <3>3. Brings(n, rows[g][1], e, i) <=> e \in Behind[n] /\ i \in Range(groups[g].ids)
      BY <1>5, <3>2, SingleBrings
    <3>4. Plain(rows[g][1])
      BY <1>11, <3>2, SinglePlain
    <3>. QED
      BY <3>2, <3>3, <3>4
  <2>2. CASE groups[g].kind # "compact"
    <3> DEFINE ids == groups[g].ids
    <3>1. DOMAIN rows[g] = DOMAIN ids /\ \A j \in DOMAIN ids : rows[g][j] = Process(ids[j])
      BY <1>1, <2>2
    <3>2. \A j \in DOMAIN ids : /\ Brings(n, rows[g][j], e, i) <=> e \in Behind[n] /\ i = ids[j]
                                /\ Plain(rows[g][j])
      <4>1. \A j \in DOMAIN ids : rows[g][j].do = "process" /\ rows[g][j].item = ids[j]
        <5>1. \A x : Process(x).do = "process" /\ Process(x).item = x
          BY DEF Process
        <5>. HIDE DEF ids
        <5>. QED
          BY <3>1, <5>1
      <4>. QED
        BY <4>1 DEF Brings, Aimed, Carried, Plain
    <3>3. \A j, k \in DOMAIN ids : ids[j] = ids[k] => j = k
      BY DEF Distinct
    <3>4. \A x : x \in Range(ids) <=> \E j \in DOMAIN ids : x = ids[j]
      BY DEF Range
    <3>. HIDE DEF ids
    <3>. QED
      BY <3>1, <3>2, <3>3, <3>4 DEF ids
  <2>. QED
    BY <2>1, <2>2
<1>8. ASSUME NEW k \in DOMAIN todo, NEW m \in DOMAIN todo, Brings(n, todo[k], e, i), Brings(n, todo[m], e, i)
      PROVE  k = m
  <2>1. f[k][1] = f[m][1]
    BY <1>2, <1>6, <1>7, <1>8, <1>11
  <2>2. f[k][2] = f[m][2]
    BY <1>2, <1>6, <1>7, <1>8, <2>1
  <2>3. f[k] = f[m]
    BY <1>6, <2>1, <2>2
  <2>. QED
    BY <1>2, <2>3 DEF Bijection, Injection, IsInjective
<1>9. ASSUME e \in Reached(n), i \in Items(groups)
      PROVE  \E k \in DOMAIN todo : Brings(n, todo[k], e, i)
  <2>1. PICK g \in DOMAIN groups : i \in Range(groups[g].ids)
    BY <1>9, <1>11
  <2>2. PICK j \in DOMAIN rows[g] : Brings(n, rows[g][j], e, i)
    BY <1>5, <1>7, <1>9, <2>1
  <2>3. PICK k \in DOMAIN todo : f[k] = <<g, j>>
    BY <1>2, <1>4 DEF Bijection, Surjection
  <2>. QED
    BY <1>2, <2>2, <2>3
<1>10. ASSUME NEW k \in DOMAIN todo, Brings(n, todo[k], e, i)
       PROVE  e \in Reached(n) /\ i \in Items(groups)
  <2>1. e \in Behind[n] /\ i \in Range(groups[f[k][1]].ids) /\ f[k][1] \in DOMAIN groups
    BY <1>2, <1>6, <1>7, <1>10
  <2>. QED
    BY <1>5, <1>11, <2>1
<1>12. \A k \in DOMAIN todo : Plain(todo[k])
  BY <1>2, <1>6, <1>7
<1>. QED
  BY <1>8, <1>9, <1>10, <1>12 DEF Leading, todo

(* A frame as it should be: its entries list no item twice; a Zenoss destination has one thing *)
(* to do; and a processor's item, until it is sent or stopped, is to be sent last.             *)
Neat(fr) ==
    /\ \A k \in DOMAIN fr.todo : Plain(fr.todo[k])
    /\ Role[fr.node] = "zenoss" /\ fr.todo # << >> =>
          /\ Len(fr.todo) = 1
          /\ fr.todo[1].do = "call" =>
                \A g \in DOMAIN fr.todo[1].groups : fr.todo[1].groups[g].kind # "event"
    /\ Role[fr.node] = "processor" /\ fr.item # None /\ fr.todo # << >> =>
          /\ \E kind \in RuleKinds :
                fr.todo[Len(fr.todo)] = Call(Outputs[fr.node][1], <<Group(kind, <<fr.item>>)>>)
          /\ \A k \in 1 .. Len(fr.todo) - 1 : fr.todo[k].do \in {"rule", "action"}

(* All that is reached is an endpoint. *)
LEMMA ReachedEndpoints ==
    ASSUME NEW n \in Nodes
    PROVE  /\ Reached(n) \subseteq Endpoints
           /\ n \in Receivers => Reached(n) = Behind[n]
           /\ Role[n] \in {"log", "zenoss", "writer"} => Reached(n) = {}
  BY BehindFacts DEF Reached, Receivers

(* A call under way with items leads to those behind its node. *)
LEMMA EnteredLeads ==
    ASSUME OnePath, NEW h, IsHeap(h), NEW n, NEW groups, Acceptable(h, n, groups), Role[n] # "zenoss",
           Distinct(groups), NEW e, NEW i
    PROVE  LET fr == Enter(n, groups)
           IN  /\ \A b, c \in Led(fr, e, i) : b = c
               /\ \A b \in Led(fr, e, i) : e \in Reached(n) /\ i \in Items(groups)
               /\ Role[n] # "proxy" /\ e \in Reached(n) /\ i \in Items(groups) => Led(fr, e, i) # {}
               /\ Neat(fr)
<1> DEFINE fr == Enter(n, groups)
           todo == fr.todo
<1>1. n \in Nodes /\ Role[n] # "endpoint" /\ Role[n] \in Roles
  BY NetworkAssumption DEF Acceptable
<1>2. fr \in Frames /\ fr.node = n /\ fr.item = None
  BY Entered, FrameType
<1>3. /\ Leading(n, groups, todo, e, i)
      /\ \A k \in DOMAIN todo : Plain(todo[k])
  <2>1. CASE Role[n] \in {"proxy", "splitter", "processor"}
    <3>1. groups \in Seq(Sendable(h)) /\ ~Unimplemented(n, groups)
      BY <2>1 DEF Acceptable
    <3>2. CASE Role[n] = "proxy"
      BY <1>1, <3>1, <3>2, ProxyLeads DEF Enter, Frame
    <3>3. CASE Role[n] = "splitter"
      BY <1>1, <3>1, <3>3, SplitterLeads DEF Enter, Frame
    <3>4. CASE Role[n] = "processor"
      BY <1>1, <3>1, <3>4, ProcessorLeads DEF Enter, Frame
    <3>. QED
      BY <2>1, <3>2, <3>3, <3>4
  <2>2. CASE Role[n] = "writer"
    <3>1. todo = WriterAgenda(n, groups)
      BY <2>2 DEF Enter, Frame
    <3>2. DOMAIN todo = DOMAIN Outputs[n] /\ \A k \in DOMAIN todo : todo[k] = Call(Outputs[n][k], groups)
      BY <3>1 DEF WriterAgenda
    <3>3. \A k \in DOMAIN todo : Reached(Outputs[n][k]) = {}
      <4>1. \A k \in DOMAIN todo : Outputs[n][k] \in Nodes /\ Role[Outputs[n][k]] \in {"log", "zenoss"}
        BY <1>1, <2>2, <3>2, OutputFacts
      <4>. QED
        BY <4>1, ReachedEndpoints
    <3>. HIDE DEF todo
    <3>4. \A k \in DOMAIN todo : todo[k].do = "call" /\ todo[k].to = Outputs[n][k] /\ todo[k].groups = groups
      <4>1. \A d : Call(d, groups).do = "call" /\ Call(d, groups).to = d /\ Call(d, groups).groups = groups
        BY DEF Call
      <4>. QED
        BY <3>2, <4>1
    <3>5. ASSUME NEW k \in DOMAIN todo PROVE ~Brings(n, todo[k], e, i) /\ Plain(todo[k])
      <4>1. Aimed(n, todo[k]) = {}
        <5>1. todo[k].do = "call" /\ Reached(todo[k].to) = {}
          BY <3>3, <3>4
        <5>. QED
          BY <5>1 DEF Aimed
      <4>2. todo[k].do = "call" /\ todo[k].groups = groups
        BY <3>4
      <4>3. Plain(todo[k])
        BY <4>2 DEF Plain
      <4>. QED
        BY <4>1, <4>3 DEF Brings
    <3>6. Reached(n) = {}
      BY <1>1, <2>2, ReachedEndpoints
    <3>. QED
      BY <3>5, <3>6 DEF Leading
  <2>3. CASE Role[n] = "log"
    <3>1. todo = << >>
      BY <2>3 DEF Enter, Frame
    <3>2. Reached(n) = {}
      BY <1>1, <2>3, ReachedEndpoints
    <3>. QED
      BY <3>1, <3>2 DEF Leading
  <2>. QED
    BY <1>1, <2>1, <2>2, <2>3 DEF Roles
<1>. HIDE DEF fr
<1>4. /\ (\A k, m \in DOMAIN todo : Brings(n, todo[k], e, i) /\ Brings(n, todo[m], e, i) => k = m)
         => \A b, c \in Led(fr, e, i) : b = c
      /\ \A b \in Led(fr, e, i) : Len(todo) - b \in DOMAIN todo /\ Brings(n, todo[Len(todo) - b], e, i)
      /\ \A k \in DOMAIN todo : Brings(n, todo[k], e, i) => Len(todo) - k \in Led(fr, e, i)
  BY <1>2, LedAt
<1>5. Neat(fr)
  BY <1>2, <1>3 DEF Neat
<1>. HIDE DEF todo
<1>6. \A b \in Led(fr, e, i) : e \in Reached(n) /\ i \in Items(groups)
  BY <1>3, <1>4 DEF Leading
<1>7. Role[n] # "proxy" /\ e \in Reached(n) /\ i \in Items(groups) => Led(fr, e, i) # {}
  BY <1>3, <1>4 DEF Leading
<1>8. \A b, c \in Led(fr, e, i) : b = c
  BY <1>3, <1>4 DEF Leading
<1>. QED
  BY <1>5, <1>6, <1>7, <1>8 DEF fr

(* A frame with one entry leads where that leads. *)
LEMMA LedOfOne ==
    ASSUME NEW fr \in Frames, Len(fr.todo) = 1, NEW e, NEW i
    PROVE  Led(fr, e, i) = IF Brings(fr.node, fr.todo[1], e, i) THEN {0} ELSE {}
<1>1. ASSUME NEW b PROVE b \in Led(fr, e, i) <=> b = 0 /\ Brings(fr.node, fr.todo[1], e, i)
  <2>1. b \in Led(fr, e, i) <=> b \in 0 .. 0 /\ Brings(fr.node, fr.todo[1 - b], e, i)
    BY DEF Led, Leads
  <2>. QED
    BY <2>1
<1>. QED
  BY <1>1

(* A processor's item is led to what is behind the processor, as the last thing. *)
LEMMA ItemLed ==
    ASSUME NEW fr \in Frames, Neat(fr), Role[fr.node] = "processor", fr.item # None, fr.todo # << >>,
           NEW e, NEW i
    PROVE  Led(fr, e, i) = IF e \in Behind[fr.node] /\ i = fr.item THEN {0} ELSE {}
<1> DEFINE n == Len(fr.todo)
           todo == fr.todo
<1>1. n \in Nat \ {0} /\ DOMAIN todo = 1 .. n /\ fr.node \in Nodes
  BY LenProperties, EmptySeq DEF Frames
<1>2. PICK kind \in RuleKinds : todo[n] = Call(Outputs[fr.node][1], <<Group(kind, <<fr.item>>)>>)
  BY DEF Neat
<1>3. Reached(Outputs[fr.node][1]) = Behind[fr.node]
  BY <1>1, OutputFacts, BehindSingle, ReachedEndpoints
<1>4. Brings(fr.node, todo[n], e, i) <=> e \in Behind[fr.node] /\ i = fr.item
  <2>1. Range(Group(kind, <<fr.item>>).ids) = {fr.item}
    BY DEF Group, Range
  <2>. QED
    BY <1>2, <1>3, <2>1, SingleBrings
<1>5. \A k \in 1 .. n - 1 : ~Brings(fr.node, todo[k], e, i)
  <2>1. \A k \in 1 .. n - 1 : todo[k].do \in {"rule", "action"}
    BY DEF Neat
  <2>. HIDE DEF todo
  <2>. QED
    BY <2>1 DEF Brings, Aimed
<1>6. \A b : b \in Led(fr, e, i) <=> b \in 0 .. n - 1 /\ Brings(fr.node, todo[n - b], e, i)
  BY DEF Led, Leads
<1>. HIDE DEF n, todo
<1>7. \A b : b \in Led(fr, e, i) <=> b = 0 /\ Brings(fr.node, todo[n], e, i)
  <2>1. SUFFICES ASSUME NEW b \in 0 .. n - 1, b # 0 PROVE ~Brings(fr.node, todo[n - b], e, i)
    <3>1. 0 \in 0 .. n - 1 /\ n - 0 = n
      BY <1>1
    <3>. QED
      BY <1>6, <2>1, <3>1
  <2>2. n - b \in 1 .. n - 1
    BY <1>1, <2>1
  <2>. QED
    BY <1>5, <2>2
<1>. QED
  BY <1>4, <1>7

(* A processor begins with an item. *)
LEMMA ItemBegins ==
    ASSUME rules \in RuleSets, NEW h, IsHeap(h), NEW n \in Nodes, Role[n] = "processor",
           NEW i \in OfKinds(h, RuleKinds), i # None
    PROVE  LET fr == Frame(n, i, ItemAgenda(n, i, h[i].kind))
           IN  /\ FrameOK(h, fr) /\ fr \in Frames /\ Neat(fr) /\ fr.todo # << >>
               /\ fr.node = n /\ fr.item = i
<1> DEFINE kind == h[i].kind
           own  == rules[n][kind]
           send == Call(Outputs[n][1], <<Group(kind, <<i>>)>>)
           todo == ItemAgenda(n, i, kind)
           fr   == Frame(n, i, todo)
<1>1. kind \in RuleKinds /\ own \in Seq(Rules) /\ i \in Nat /\ i \in DOMAIN h
  <2>1. kind \in RuleKinds /\ i \in DOMAIN h
    BY DEF OfKinds
  <2>. QED
    BY <2>1, RulesAssumption, HeapFacts
<1>2. FrameOK(h, fr) /\ fr \in Frames /\ fr.node = n /\ fr.item = i /\ fr.todo = todo
  <2>1. todo \in Seq(Tasks(h, n, i))
    BY ItemAgendaType
  <2>. HIDE DEF todo
  <2>2. FrameOK(h, Frame(n, i, todo))
    BY <1>1, <2>1, FreshFrame DEF ItemOf
  <2>. QED
    BY <2>2, FrameType DEF Frame
<1>3. /\ Len(todo) = Len(own) + 1 /\ Len(own) \in Nat /\ todo[Len(todo)] = send /\ DOMAIN todo = 1 .. Len(todo)
      /\ \A k \in 1 .. Len(own) : todo[k] = Rule(own[k])
  <2> DEFINE first == [k \in DOMAIN own |-> Rule(own[k])]
             S == {Rule(r) : r \in Rules} \cup {send}
  <2>1. DOMAIN own = 1 .. Len(own) /\ Len(own) \in Nat /\ \A k \in DOMAIN own : own[k] \in Rules
    BY <1>1, LenProperties, ElementOfSeq
  <2>2. first \in [1 .. Len(own) -> S]
    BY <2>1
  <2>3. first \in Seq(S) /\ Len(first) = Len(own)
    BY <2>1, <2>2, FunctionSeq
  <2>4. <<send>> \in Seq(S) /\ Len(<<send>>) = 1 /\ <<send>>[1] = send
    OBVIOUS
  <2>5. todo = first \o <<send>>
    BY DEF ItemAgenda
  <2>6. \A k \in 1 .. Len(own) : first[k] = Rule(own[k])
    BY <2>1
  <2>. HIDE DEF S, first, todo, send, own
  <2>7. todo \in Seq(S) /\ Len(todo) = Len(own) + 1 /\ \A k \in 1 .. Len(own) + 1 :
           todo[k] = IF k <= Len(own) THEN first[k] ELSE <<send>>[k - Len(own)]
    <3> DEFINE one == <<send>>
    <3>1. one \in Seq(S) /\ Len(one) = 1 /\ todo = first \o one
      BY <2>4, <2>5
    <3>. HIDE DEF one
    <3>2. /\ first \o one \in Seq(S) /\ Len(first \o one) = Len(first) + Len(one)
          /\ \A k \in 1 .. Len(first) + Len(one) :
                (first \o one)[k] = IF k <= Len(first) THEN first[k] ELSE one[k - Len(first)]
      BY <2>3, <3>1, ConcatProperties
    <3>3. todo \in Seq(S) /\ Len(todo) = Len(own) + 1 /\ \A k \in 1 .. Len(own) + 1 :
             todo[k] = IF k <= Len(own) THEN first[k] ELSE one[k - Len(own)]
      BY <2>3, <3>1, <3>2
    <3>. QED
      BY <3>3 DEF one
  <2>8. DOMAIN todo = 1 .. Len(todo)
    BY <2>7, LenProperties
  <2>9. todo[Len(own) + 1] = send
    BY <2>1, <2>4, <2>7
  <2>. QED
    BY <2>1, <2>6, <2>7, <2>8, <2>9
<1>4. todo # << >>
  BY <1>3
<1>5. Plain(send)
  <2>1. Distinct(<<Group(kind, <<i>>)>>)
    BY DEF Distinct, Group
  <2>. QED
    BY <2>1, SinglePlain
<1>6. \A r : Rule(r).do = "rule"
  BY DEF Rule
<1>. HIDE DEF todo, fr, own
<1>7. \A k \in DOMAIN todo : Plain(todo[k])
  <2>1. \A k \in DOMAIN todo : k \in 1 .. Len(own) \/ k = Len(todo)
    BY <1>3
  <2>2. \A k \in 1 .. Len(own) : Plain(todo[k])
    BY <1>3, <1>6 DEF Plain
  <2>. QED
    BY <1>3, <1>5, <2>1, <2>2
<1>8. \A k \in 1 .. Len(todo) - 1 : todo[k].do \in {"rule", "action"}
  BY <1>3, <1>6
<1>9. Neat(fr)
  BY <1>1, <1>2, <1>3, <1>7, <1>8 DEF Neat, send, kind
<1>. QED
  BY <1>2, <1>4, <1>9 DEF fr, todo

(* The elements of a sequence that are in a set, each as often as the sequence has it.         *)
LEMMA ThoseFacts ==
    ASSUME NEW S, NEW s \in Seq(S), NEW C
    PROVE  /\ Range(Those(s, C)) = Range(s) \cap C
           /\ (\A j, k \in DOMAIN s : s[j] = s[k] => j = k) =>
                 \A j, k \in DOMAIN Those(s, C) : Those(s, C)[j] = Those(s, C)[k] => j = k
<1> DEFINE seqs == [k \in DOMAIN s |-> IF s[k] \in C THEN <<s[k]>> ELSE << >>]
           t == Those(s, C)
<1>1. DOMAIN s = 1 .. Len(s) /\ Len(s) \in Nat /\ \A k \in DOMAIN s : s[k] \in S
  BY LenProperties, ElementOfSeq
<1>2. seqs \in [1 .. Len(s) -> Seq(S)] /\ DOMAIN seqs = DOMAIN s
  BY <1>1
<1>3. \A k \in DOMAIN s : /\ s[k] \in C => DOMAIN seqs[k] = {1} /\ seqs[k][1] = s[k]
                          /\ s[k] \notin C => DOMAIN seqs[k] = {}
  OBVIOUS
<1>4. t = FlattenSeq(seqs)
  BY DEF Those
<1>. HIDE DEF seqs, t
<1>5. Flattens(t, seqs, Len(s))
  BY <1>1, <1>2, <1>4, FunctionSeq, FlattenProperties
<1>6. PICK f \in Bijection(DOMAIN t, Places(seqs, Len(s))) : \A j \in DOMAIN t : t[j] = seqs[f[j][1]][f[j][2]]
  BY <1>5 DEF Flattens
<1>7. /\ \A p \in Places(seqs, Len(s)) : p = <<p[1], 1>> /\ p[1] \in DOMAIN s /\ s[p[1]] \in C
      /\ \A k \in DOMAIN s : s[k] \in C => <<k, 1>> \in Places(seqs, Len(s))
  BY <1>1, <1>2, <1>3 DEF Places
<1>8. \A j \in DOMAIN t : f[j] = <<f[j][1], 1>> /\ f[j][1] \in DOMAIN s /\ s[f[j][1]] \in C
  BY <1>6, <1>7 DEF Bijection, Injection, Surjection
<1>9. \A j \in DOMAIN t : t[j] = s[f[j][1]]
  BY <1>3, <1>6, <1>8
<1>10. ASSUME NEW x PROVE x \in Range(t) <=> x \in Range(s) \cap C
  <2>1. ASSUME x \in Range(t) PROVE x \in Range(s) \cap C
    BY <1>8, <1>9, <2>1 DEF Range
  <2>2. ASSUME x \in Range(s) \cap C PROVE x \in Range(t)
    <3>1. PICK k \in DOMAIN s : s[k] = x /\ <<k, 1>> \in Places(seqs, Len(s))
      BY <1>7, <2>2 DEF Range
    <3>2. PICK j \in DOMAIN t : f[j] = <<k, 1>>
      BY <1>6, <3>1 DEF Bijection, Surjection
    <3>. QED
      BY <1>9, <3>1, <3>2 DEF Range
  <2>. QED
    BY <2>1, <2>2
<1>11. ASSUME \A j, k \in DOMAIN s : s[j] = s[k] => j = k, NEW j \in DOMAIN t, NEW k \in DOMAIN t, t[j] = t[k]
       PROVE  j = k
  <2>1. f[j] = f[k]
    BY <1>8, <1>9, <1>11
  <2>. QED
    BY <1>6, <2>1 DEF Bijection, Injection, IsInjective
<1>. QED
  BY <1>10, <1>11 DEF t

(* An endpoint is given the items of the groups, each of them once if the groups list it once. *)
GivenRows(groups) ==
    [g \in DOMAIN groups |-> [j \in DOMAIN groups[g].ids |-> <<groups[g].kind, groups[g].ids[j]>>]]

(* What a call gives an endpoint, kind by kind. *)
LEMMA GivenRowsType ==
    ASSUME IsHeap(heap), NEW groups \in Seq(Sendable(heap))
    PROVE  /\ GivenRows(groups) \in Seq(Seq(ItemKinds \X DOMAIN heap))
           /\ DOMAIN GivenRows(groups) = DOMAIN groups /\ DOMAIN groups = 1 .. Len(groups)
           /\ \A g \in DOMAIN groups :
                 /\ DOMAIN GivenRows(groups)[g] = DOMAIN groups[g].ids
                 /\ Len(groups[g].ids) \in Nat /\ DOMAIN groups[g].ids = 1 .. Len(groups[g].ids)
<1> DEFINE row(g) == [j \in DOMAIN groups[g].ids |-> <<groups[g].kind, groups[g].ids[j]>>]
           S == ItemKinds \X DOMAIN heap
<1>1. /\ DOMAIN groups = 1 .. Len(groups) /\ Len(groups) \in Nat
      /\ \A g \in DOMAIN groups : groups[g] \in Sendable(heap)
  BY LenProperties, ElementOfSeq
<1>2. ASSUME NEW g \in DOMAIN groups
      PROVE  row(g) \in Seq(S) /\ DOMAIN groups[g].ids = 1 .. Len(groups[g].ids) /\ Len(groups[g].ids) \in Nat
  <2> DEFINE ids == groups[g].ids
  <2>1. ids \in Seq(DOMAIN heap) /\ groups[g].kind \in ItemKinds
    BY <1>1 DEF Sendable, ReceiverKinds, ItemKinds
  <2>2. DOMAIN ids = 1 .. Len(ids) /\ Len(ids) \in Nat /\ \A j \in DOMAIN ids : ids[j] \in DOMAIN heap
    BY <2>1, LenProperties, ElementOfSeq
  <2>3. row(g) \in [1 .. Len(ids) -> S]
    BY <2>1, <2>2
  <2>. HIDE DEF row, S
  <2>. QED
    BY <2>2, <2>3, FunctionSeq
<1>3. GivenRows(groups) \in [1 .. Len(groups) -> Seq(S)]
  <2>1. GivenRows(groups) = [g \in DOMAIN groups |-> row(g)]
    BY DEF GivenRows
  <2>. HIDE DEF row, S
  <2>. QED
    BY <1>1, <1>2, <2>1
<1>4. GivenRows(groups) \in Seq(Seq(S))
  <2>. HIDE DEF S
  <2>. QED
    BY <1>1, <1>3, FunctionSeq
<1>. QED
  BY <1>1, <1>2, <1>4 DEF GivenRows

(* It gives every item of the call, and once if the call lists it once. *)
LEMMA GivenItems ==
    ASSUME IsHeap(heap), NEW to, NEW groups \in Seq(Sendable(heap)), NEW fates
    PROVE  LET given == Given(to, groups, fates)
           IN  /\ \A j \in DOMAIN given : given[j].item \in Items(groups)
               /\ \A i \in Items(groups) : \E j \in DOMAIN given : given[j].item = i
               /\ Distinct(groups) =>
                     \A j, k \in DOMAIN given : given[j].item = given[k].item => j = k
<1> DEFINE rows == GivenRows(groups)
           items == FlattenSeq(rows)
           given == Given(to, groups, fates)
<1>1. /\ DOMAIN rows = DOMAIN groups /\ DOMAIN groups = 1 .. Len(rows)
      /\ \A g \in DOMAIN groups : DOMAIN rows[g] = DOMAIN groups[g].ids
      /\ Flattens(items, rows, Len(rows))
  <2>1. rows \in Seq(Seq(ItemKinds \X DOMAIN heap))
    BY GivenRowsType
  <2>2. DOMAIN rows = 1 .. Len(rows)
    BY <2>1, LenProperties
  <2>. QED
    BY <2>1, <2>2, GivenRowsType, FlattenProperties
<1>2. \A g \in DOMAIN groups : \A j \in DOMAIN groups[g].ids : rows[g][j][2] = groups[g].ids[j]
  BY DEF GivenRows
<1>3. DOMAIN given = DOMAIN items /\ \A j \in DOMAIN items : given[j].item = items[j][2]
  BY DEF Given, GivenRows
<1>. HIDE DEF rows, items, given
<1>4. PICK f \in Bijection(DOMAIN items, Places(rows, Len(rows))) :
          \A j \in DOMAIN items : items[j] = rows[f[j][1]][f[j][2]]
  BY <1>1 DEF Flattens
<1>5. /\ \A p \in Places(rows, Len(rows)) : p = <<p[1], p[2]>> /\ p[1] \in DOMAIN groups /\ p[2] \in DOMAIN groups[p[1]].ids
      /\ \A g \in DOMAIN groups : \A k \in DOMAIN groups[g].ids : <<g, k>> \in Places(rows, Len(rows))
  BY <1>1 DEF Places
<1>6. \A j \in DOMAIN items : f[j] = <<f[j][1], f[j][2]>> /\ f[j][1] \in DOMAIN groups /\ f[j][2] \in DOMAIN groups[f[j][1]].ids
  BY <1>4, <1>5 DEF Bijection, Injection, Surjection
<1>7. \A j \in DOMAIN items : given[j].item = groups[f[j][1]].ids[f[j][2]]
  BY <1>2, <1>3, <1>4, <1>6
<1>8. ASSUME NEW i \in Items(groups) PROVE \E j \in DOMAIN given : given[j].item = i
  <2>1. PICK g \in DOMAIN groups : \E k \in DOMAIN groups[g].ids : groups[g].ids[k] = i
    BY <1>8 DEF Items, Range
  <2>2. PICK k \in DOMAIN groups[g].ids : groups[g].ids[k] = i
    BY <2>1
  <2>3. PICK j \in DOMAIN items : f[j] = <<g, k>>
    BY <1>4, <1>5 DEF Bijection, Surjection
  <2>. QED
    BY <1>3, <1>7, <2>2, <2>3
<1>9. ASSUME NEW j \in DOMAIN given PROVE given[j].item \in Items(groups)
  BY <1>3, <1>6, <1>7 DEF Items, Range
<1>10. ASSUME Distinct(groups), NEW j \in DOMAIN given, NEW k \in DOMAIN given, given[j].item = given[k].item
       PROVE  j = k
  <2>1. f[j][1] = f[k][1] /\ f[j][2] = f[k][2]
    BY <1>3, <1>6, <1>7, <1>10 DEF Distinct
  <2>2. f[j] = f[k]
    BY <1>3, <1>6, <2>1
  <2>. QED
    BY <1>3, <1>4, <2>2 DEF Bijection, Injection, IsInjective
<1>. QED
  BY <1>8, <1>9, <1>10 DEF given

(* The items an entry may be about are there. *)
LEMMA CarriedKnown ==
    ASSUME NEW h, IsHeap(h), NEW n \in Nodes, NEW j, NEW entry \in Tasks(h, n, j)
    PROVE  Carried(entry) \subseteq DOMAIN h
<1>1. \A groups \in Seq(Sendable(h)) : Items(groups) \subseteq DOMAIN h
  <2>1. SUFFICES ASSUME NEW groups \in Seq(Sendable(h)), NEW g \in DOMAIN groups
                 PROVE  Range(groups[g].ids) \subseteq DOMAIN h
    BY DEF Items
  <2>2. groups[g] \in Sendable(h)
    BY ElementOfSeq, LenProperties
  <2>3. groups[g].ids \in Seq(DOMAIN h)
    BY <2>2 DEF Sendable
  <2> DEFINE ids == groups[g].ids
  <2>. HIDE DEF ids
  <2>4. \A k \in DOMAIN ids : ids[k] \in DOMAIN h
    BY <2>3, ElementOfSeq, LenProperties DEF ids
  <2>. QED
    BY <2>4 DEF Range, ids
<1>2. ASSUME NEW to, NEW groups, entry = Call(to, groups), Items(groups) \subseteq DOMAIN h
      PROVE  Carried(entry) \subseteq DOMAIN h
  <2>1. entry.do = "call" /\ entry.groups = groups
    BY <1>2 DEF Call
  <2>. QED
    BY <1>2, <2>1 DEF Carried, Items
<1>3. CASE \E tos : entry \in Singles(h, tos)
  <2>1. PICK tos : \E to \in tos, g \in Sendable(h) : entry = Call(to, <<g>>)
    BY <1>3 DEF Singles
  <2>2. PICK to \in tos, g \in Sendable(h) : entry = Call(to, <<g>>)
    BY <2>1
  <2>3. <<g>> \in Seq(Sendable(h))
    BY <2>2
  <2>. QED
    BY <1>1, <1>2, <2>2, <2>3
<1>4. CASE \E tos : entry \in CallsTo(h, tos)
  BY <1>1, <1>2, <1>4 DEF CallsTo
<1>5. CASE entry \in {Process(k) : k \in OfKinds(h, RuleKinds)}
  BY <1>5 DEF Process, Carried, OfKinds
<1>6. CASE entry \in {Rule(r) : r \in Rules} \cup {Action(a) : a \in Actions}
  BY <1>6 DEF Rule, Action, Carried
<1>7. CASE entry \in {Call(d, Report(kind)) : d \in Range(Outputs[n]), kind \in ReportKind(h)}
  <2>1. PICK d \in Range(Outputs[n]), kind \in ReportKind(h) : entry = Call(d, Report(kind))
    BY <1>7
  <2>2. Items(Report(kind)) \subseteq DOMAIN h
    BY DEF Items, Report, Group, ReportKind, Range
  <2>. QED
    BY <1>2, <2>1, <2>2
<1>8. CASE entry \in {Convert(ids) : ids \in Seq(OfKinds(h, {"metric"}))}
  <2>1. PICK ids \in Seq(OfKinds(h, {"metric"})) : entry = Convert(ids)
    BY <1>8
  <2>2. \A k \in DOMAIN ids : ids[k] \in OfKinds(h, {"metric"})
    BY ElementOfSeq, LenProperties
  <2>3. Carried(entry) = Range(ids)
    BY <2>1 DEF Convert, Carried
  <2>. QED
    BY <2>2, <2>3 DEF Range, OfKinds
<1>. QED
  BY <1>3, <1>4, <1>5, <1>6, <1>7, <1>8 DEF Tasks

(* So what frames lead to is there. *)
LEMMA LedKnown ==
    ASSUME NEW h, IsHeap(h), NEW fr, FrameOK(h, fr), NEW e, NEW i, Led(fr, e, i) # {}
    PROVE  i \in DOMAIN h
<1>1. PICK b \in Led(fr, e, i) : TRUE
  OBVIOUS
<1>2. fr \in Frames /\ fr.todo \in Seq(Tasks(h, fr.node, fr.item)) /\ fr.node \in Nodes
  BY FrameType DEF FrameOK
<1> DEFINE x == fr.todo[Len(fr.todo) - b]
<1>3. Len(fr.todo) - b \in DOMAIN fr.todo /\ Brings(fr.node, x, e, i)
  BY <1>2, LedAt
<1>4. x \in Tasks(h, fr.node, fr.item)
  BY <1>2, <1>3, ElementOfSeq, LenProperties
<1>. HIDE DEF x
<1>. QED
  BY <1>2, <1>3, <1>4, CarriedKnown DEF Brings

(* The items a Zenoss destination makes of a report, and the one thing it then has to do.      *)
FreshIds(n) == [k \in 1 .. n |-> Len(heap) + k]

(* What a Zenoss destination has to do first: to send models, or metrics, or to convert them. *)
LEMMA ZenossBegins ==
    ASSUME IsHeap(heap), NEW n, NEW groups, Acceptable(heap, n, groups), Role[n] = "zenoss"
    PROVE  LET ids   == FreshIds(Len(Built(1)))
               entry == Enter(n, groups).todo[1]
           IN  /\ Len(Built(1)) \in Nat /\ EnterHeap(n, groups) = heap \o Built(1)
               /\ groups[1].ids[1] = 1 /\ 1 \in DOMAIN heap
               /\ Len(Enter(n, groups).todo) = 1 /\ DOMAIN Enter(n, groups).todo = {1}
               /\ IF heap[1].kind = "component" THEN entry = Call(Outputs[n][1], <<Group("model", ids)>>)
                  ELSE IF n \in Compact THEN entry = Convert(ids)
                  ELSE entry = Call(Outputs[n][1], <<Group("metric", ids)>>)
<1> DEFINE t == Built(1)
           ids == FreshIds(Len(t))
           x == IF heap[1].kind = "component" THEN Call(Outputs[n][1], <<Group("model", ids)>>)
                ELSE IF n \in Compact THEN Convert(ids)
                ELSE Call(Outputs[n][1], <<Group("metric", ids)>>)
<1>1. groups[1].ids[1] = 1 /\ 1 \in DOMAIN heap /\ heap[1].kind \in {"health", "component"}
  BY DEF Acceptable, Report, Group, ReportKind
<1>2. t \in Seq(Item)
  BY <1>1, BuiltType
<1>3. Len(t) \in Nat /\ DOMAIN t = 1 .. Len(t)
  BY <1>2, LenProperties
<1>. HIDE DEF t
<1>4. ids = [k \in DOMAIN Built(1) |-> Len(heap) + k]
  BY <1>3 DEF FreshIds, t
<1>. HIDE DEF ids
<1>5. ZenossAgenda(n, 1) = <<x>>
  BY <1>4 DEF ZenossAgenda
<1>6. Enter(n, groups).todo = <<x>>
  BY <1>1, <1>5 DEF Enter, Frame
<1>7. Len(<<x>>) = 1 /\ DOMAIN <<x>> = {1} /\ <<x>>[1] = x
  OBVIOUS
<1>. HIDE DEF x
<1>8. Len(Enter(n, groups).todo) = 1 /\ DOMAIN Enter(n, groups).todo = {1} /\ Enter(n, groups).todo[1] = x
  BY <1>6, <1>7
<1>9. EnterHeap(n, groups) = heap \o t
  BY <1>1 DEF EnterHeap, t
<1>. QED
  BY <1>1, <1>3, <1>8, <1>9 DEF x, ids, t

(* New items are none of those there are, and are listed once. *)
LEMMA FreshFacts ==
    ASSUME IsHeap(heap), NEW n \in Nat
    PROVE  /\ \A i \in Range(FreshIds(n)) : i \notin DOMAIN heap
           /\ \A j, k \in DOMAIN FreshIds(n) : FreshIds(n)[j] = FreshIds(n)[k] => j = k
           /\ \A kind : Distinct(<<Group(kind, FreshIds(n))>>)
<1> DEFINE ids == FreshIds(n)
<1>1. Len(heap) \in Nat /\ DOMAIN heap = 1 .. Len(heap)
  BY HeapFacts
<1>2. DOMAIN ids = 1 .. n /\ \A k \in 1 .. n : ids[k] = Len(heap) + k
  BY DEF FreshIds
<1>. HIDE DEF ids
<1>3. \A j, k \in DOMAIN ids : ids[j] = ids[k] => j = k
  BY <1>1, <1>2
<1>4. \A i \in Range(ids) : i \notin DOMAIN heap
  BY <1>1, <1>2 DEF Range
<1>5. \A kind : Distinct(<<Group(kind, ids)>>)
  BY <1>3 DEF Distinct, Group
<1>. QED
  BY <1>3, <1>4, <1>5 DEF ids

(* What it has to do is with fresh items, and all for its output. *)
LEMMA ZenossLeads ==
    ASSUME IsHeap(heap), NEW n, NEW groups, Acceptable(heap, n, groups), Role[n] = "zenoss",
           NEW e, NEW i
    PROVE  LET fr == Enter(n, groups)
           IN  /\ \A b, c \in Led(fr, e, i) : b = c
               /\ Led(fr, e, i) # {} => i \notin DOMAIN heap
               /\ Neat(fr)
<1> DEFINE fr == Enter(n, groups)
           ids == FreshIds(Len(Built(1)))
           x == fr.todo[1]
<1>1. Len(fr.todo) = 1 /\ DOMAIN fr.todo = {1} /\ fr \in Frames /\ fr.node = n /\ Len(Built(1)) \in Nat
  BY ZenossBegins, EnteredZenoss, FrameType
<1>2. PICK kind \in {"model", "metric"} : x = Call(Outputs[n][1], <<Group(kind, ids)>>) \/ x = Convert(ids)
  BY ZenossBegins
<1>3. /\ \A k \in Range(ids) : k \notin DOMAIN heap
      /\ \A k : Distinct(<<Group(k, ids)>>)
  BY <1>1, FreshFacts
<1>. HIDE DEF ids, fr
<1>4. Group(kind, ids).ids = ids /\ Group(kind, ids).kind = kind
  BY DEF Group
<1>. HIDE DEF x
<1>5. CASE x = Call(Outputs[n][1], <<Group(kind, ids)>>)
  <2>1. /\ Plain(x) /\ (Brings(n, x, e, i) => i \in Range(ids))
        /\ x.do = "call" /\ x.groups = <<Group(kind, ids)>>
    BY <1>3, <1>4, <1>5, SinglePlain, SingleBrings
  <2>2. \A g \in DOMAIN x.groups : x.groups[g].kind # "event"
    BY <1>4, <2>1
  <2>. QED
    BY <1>1, <1>3, <2>1, <2>2, LedOfOne DEF Neat, x, fr
<1>6. CASE x = Convert(ids)
  <2>1. x.do = "convert" /\ x.ids = ids
    BY <1>6 DEF Convert
  <2>2. Plain(x) /\ (Brings(n, x, e, i) => i \in Range(ids))
    BY <1>3, <2>1 DEF Plain, Brings, Carried
  <2>. QED
    BY <1>1, <1>3, <2>1, <2>2, LedOfOne DEF Neat, x, fr
<1>. QED
  BY <1>2, <1>5, <1>6

(* Converted metrics go where they would have gone. *)
LEMMA Converted ==
    ASSUME NEW h, IsHeap(h), NEW fr, FrameOK(h, fr), Neat(fr), fr.todo # << >>,
           Head(fr.todo).do = "convert", NEW converted, NEW t \in Frames, t.node = fr.node,
           LET ids == Head(fr.todo).ids
           IN  t.todo = <<Call(Outputs[fr.node][1],
                               <<Group("compact", Those(ids, converted)),
                                 Group("metric", Those(ids, ToSet(ids) \ converted))>>)>>
    PROVE  /\ Neat(t) /\ Role[fr.node] = "zenoss" /\ Carried(t.todo[1]) = Carried(fr.todo[1])
           /\ \A e, i : Led(t, e, i) = Led(fr, e, i)
<1> DEFINE n == fr.node
           x == Head(fr.todo)
           ids == x.ids
           first == Those(ids, converted)
           second == Those(ids, ToSet(ids) \ converted)
           groups == <<Group("compact", first), Group("metric", second)>>
           y == Call(Outputs[n][1], groups)
<1>1. n \in Nodes /\ Role[n] = "zenoss" /\ ids \in Seq(OfKinds(h, {"metric"})) /\ fr \in Frames
  BY ConvertFacts, FrameType
<1>2. Len(fr.todo) = 1 /\ fr.todo[1] = x /\ DOMAIN fr.todo = {1}
  BY <1>1, LenProperties, HeadTailProperties DEF Neat, Frames
<1>3. Len(t.todo) = 1 /\ t.todo[1] = y /\ DOMAIN t.todo = {1}
  OBVIOUS
<1>4. ToSet(ids) = Range(ids)
  BY DEF ToSet, Range
<1>5. \A j, k \in DOMAIN ids : ids[j] = ids[k] => j = k
  <2>1. Plain(x) /\ x.do = "convert"
    BY <1>2 DEF Neat
  <2>2. Distinct(<<Group("metric", ids)>>)
    BY <2>1 DEF Plain
  <2>3. DOMAIN <<Group("metric", ids)>> = {1} /\ <<Group("metric", ids)>>[1].ids = ids
    BY DEF Group
  <2>. HIDE DEF ids
  <2>. QED
    BY <2>2, <2>3 DEF Distinct
<1>6. /\ Range(first) = Range(ids) \cap converted /\ Range(second) = Range(ids) \ converted
      /\ \A j, k \in DOMAIN first : first[j] = first[k] => j = k
      /\ \A j, k \in DOMAIN second : second[j] = second[k] => j = k
  <2>. HIDE DEF ids
  <2>1. /\ Range(first) = Range(ids) \cap converted
        /\ (\A j, k \in DOMAIN ids : ids[j] = ids[k] => j = k) =>
              \A j, k \in DOMAIN first : first[j] = first[k] => j = k
    <3>1. ids \in Seq(OfKinds(h, {"metric"}))
      BY <1>1 DEF ids
    <3>. QED
      BY <3>1, ThoseFacts
  <2>2. /\ Range(second) = Range(ids) \cap (ToSet(ids) \ converted)
        /\ (\A j, k \in DOMAIN ids : ids[j] = ids[k] => j = k) =>
              \A j, k \in DOMAIN second : second[j] = second[k] => j = k
    <3>1. ids \in Seq(OfKinds(h, {"metric"}))
      BY <1>1 DEF ids
    <3>. QED
      BY <3>1, ThoseFacts
  <2>3. Range(ids) \cap (ToSet(ids) \ converted) = Range(ids) \ converted
    BY <1>4
  <2>. HIDE DEF first, second
  <2>. QED
    BY <1>5, <2>1, <2>2, <2>3
<1>7. /\ DOMAIN groups = {1, 2} /\ groups[1].ids = first /\ groups[2].ids = second
      /\ groups[1].kind = "compact" /\ groups[2].kind = "metric"
      /\ y.do = "call" /\ y.to = Outputs[n][1] /\ y.groups = groups
  <2>. HIDE DEF first, second
  <2>1. \A kind, s : Group(kind, s).ids = s /\ Group(kind, s).kind = kind
    BY DEF Group
  <2>2. DOMAIN groups = {1, 2} /\ groups[1] = Group("compact", first) /\ groups[2] = Group("metric", second)
    OBVIOUS
  <2>. HIDE DEF groups
  <2>3. y.do = "call" /\ y.to = Outputs[n][1] /\ y.groups = groups
    BY DEF Call
  <2>. QED
    BY <2>1, <2>2, <2>3
<1>. HIDE DEF ids, first, second, groups, y
<1>8. \A j \in DOMAIN first : first[j] \in Range(first)
  BY DEF Range
<1>9. \A j \in DOMAIN second : second[j] \in Range(second)
  BY DEF Range
<1>10. Distinct(groups)
  BY <1>6, <1>7, <1>8, <1>9 DEF Distinct
<1>11. Neat(t)
  BY <1>1, <1>3, <1>7, <1>10 DEF Neat, Plain
<1>12. Carried(y) = Range(ids)
  <2>1. Carried(y) = UNION {Range(groups[g].ids) : g \in {1, 2}}
    BY <1>7 DEF Carried
  <2>2. UNION {Range(groups[g].ids) : g \in {1, 2}} = Range(first) \cup Range(second)
    BY <1>7
  <2>. QED
    BY <1>6, <2>1, <2>2
<1>13. Carried(x) = Range(ids) /\ Aimed(n, x) = Behind[n]
  BY DEF Carried, Aimed, ids
<1>14. Aimed(n, y) = Behind[n]
  <2>1. Aimed(n, y) = Reached(Outputs[n][1])
    BY <1>7 DEF Aimed
  <2>. QED
    BY <1>1, <2>1, OutputFacts, BehindSingle, ReachedEndpoints
<1>15. ASSUME NEW e, NEW i PROVE Led(t, e, i) = Led(fr, e, i)
  <2>1. Brings(n, y, e, i) <=> Brings(n, x, e, i)
    BY <1>12, <1>13, <1>14 DEF Brings
  <2>. QED
    BY <1>1, <1>2, <1>3, <2>1, LedOfOne
<1>. QED
  BY <1>1, <1>2, <1>3, <1>11, <1>12, <1>13, <1>15

-----------------------------------------------------------------------------
(* Where items end. *)

(* A place an item cannot get lost at: an offer, or a call that has its receiver; a proxy may  *)
(* be given another output before it calls.                                                    *)
Firm(st, p) == p[1] = 0 \/ Role[st[p[1]].node] # "proxy"

Sent(st, os, e, i) == \E p \in Spots(st, os, e, i) : Firm(st, p)

Unstopped(stops, e, i) == \A m \in Nodes : e \in Behind[m] => <<m, i>> \notin stops

(* At any time an item is on its way to an endpoint, or there, at most once; never if it has   *)
(* been stopped before; and once if it was taken up by a processor before and not stopped.     *)
Sole(st, os) == \A e \in Endpoints : \A i : \A p, q \in Spots(st, os, e, i) : p = q

Barred(st, os, stops) == \A s \in stops : \A e \in Behind[s[1]] : Spots(st, os, e, s[2]) = {}

Promised(st, os, beginnings, stops) ==
    \A s \in beginnings : \A e \in Behind[s[1]] :
        Unstopped(stops, e, s[2]) => Sent(st, os, e, s[2])

Processed(s, h) == Role[s[1]] = "processor" /\ s[2] \in OfKinds(h, RuleKinds)

OnceInv ==
    /\ pc \in {"check", "lookUp"} => begun = {} /\ stopped = {} /\ offers = << >>
    /\ \A k \in DOMAIN stack : Neat(stack[k])
    /\ \A j \in DOMAIN offers : offers[j].item \in DOMAIN heap /\ offers[j].at \in Endpoints
    /\ \A s \in begun \cup stopped : Processed(s, heap)
    /\ Sole(stack, offers) /\ Barred(stack, offers, stopped)
    /\ pc # "panicked" => Promised(stack, offers, begun, stopped)

(* The places of an item: of calls, which have a frame, and of offers. *)
LEMMA SpotsElements ==
    ASSUME NEW st \in Seq(Frames), NEW os, NEW e, NEW i, NEW p
    PROVE  /\ p \in Spots(st, os, e, i) <=>
                 \/ p \in Ahead(st, e, i)
                 \/ p = <<0, p[2]>> /\ p[2] \in Offered(os, e, i)
           /\ p \in Ahead(st, e, i) => p[1] \in DOMAIN st /\ p[1] # 0
<1>1. p \in {0} \X Offered(os, e, i) <=> p = <<0, p[2]>> /\ p[2] \in Offered(os, e, i)
  OBVIOUS
<1>2. p \in Ahead(st, e, i) => p[1] \in DOMAIN st
  BY AheadElements
<1>3. 0 \notin DOMAIN st
  BY LenProperties
<1>. QED
  BY <1>1, <1>2, <1>3 DEF Spots

(* A place that stays is as firm as before if the frames keep their nodes. *)
LEMMA FirmStays ==
    ASSUME NEW st \in Seq(Frames), NEW t \in Seq(Frames),
           \A k \in DOMAIN st \cap DOMAIN t : t[k].node = st[k].node,
           NEW os, NEW us, NEW e, NEW i, NEW p \in Spots(st, os, e, i) \cap Spots(t, us, e, i), Firm(st, p)
    PROVE  Firm(t, p)
<1>1. CASE p[1] = 0
  BY <1>1 DEF Firm
<1>2. CASE p[1] # 0
  <2>1. p \in Ahead(st, e, i) /\ p \in Ahead(t, e, i)
    BY <1>2, SpotsElements
  <2>2. p[1] \in DOMAIN st \cap DOMAIN t
    BY <2>1, SpotsElements
  <2>. QED
    BY <2>2 DEF Firm
<1>. QED
  BY <1>1, <1>2

(* What is on its way is there. *)
LEMMA SpotsKnown ==
    ASSUME NEW h, IsHeap(h), NEW n, NEW st, StackOK(h, n, st), NEW os,
           \A j \in DOMAIN os : os[j].item \in DOMAIN h, NEW e, NEW i, Spots(st, os, e, i) # {}
    PROVE  i \in DOMAIN h
<1>1. PICK p \in Spots(st, os, e, i) : TRUE
  OBVIOUS
<1>2. st \in Seq(Frames) /\ \A k \in DOMAIN st : FrameOK(h, st[k])
  BY DEF StackOK
<1>3. CASE p \in Ahead(st, e, i)
  <2>1. p[1] \in DOMAIN st /\ p[2] \in Led(st[p[1]], e, i)
    BY <1>2, <1>3, AheadElements
  <2>. QED
    BY <1>2, <2>1, LedKnown
<1>4. CASE p[2] \in Offered(os, e, i)
  BY <1>4 DEF Offered
<1>. QED
  BY <1>1, <1>2, <1>3, <1>4, SpotsElements

(* Other frames on top. *)
LEMMA TopAhead ==
    ASSUME NEW st \in Seq(Frames), st # << >>, NEW fr \in Frames, fr.node = Last(st).node, NEW e, NEW i
    PROVE  LET t == Append(Front(st), fr)
           IN  /\ Led(fr, e, i) = Led(Last(st), e, i) => Ahead(t, e, i) = Ahead(st, e, i)
               /\ Last(st).todo # << >> /\ fr.todo = Tail(Last(st).todo) =>
                     Ahead(t, e, i) = Ahead(st, e, i) \ {Tip(st)}
               /\ fr.todo = << >> => Ahead(t, e, i) = {p \in Ahead(st, e, i) : p[1] # Len(st)}
<1> DEFINE t == Append(Front(st), fr)
           n == Len(st)
<1>1. Ahead(t, e, i) = {p \in Ahead(st, e, i) : p[1] # n} \cup ({n} \X Led(fr, e, i))
  BY AheadReplaced
<1>2. n \in Nat \ {0} /\ DOMAIN st = 1 .. n /\ Last(st) = st[n] /\ Last(st) \in Frames
  BY FrontLast
<1>3. \A p : p \in Ahead(st, e, i) /\ p[1] = n <=> p \in {n} \X Led(Last(st), e, i)
  <2>1. SUFFICES ASSUME NEW p PROVE p \in Ahead(st, e, i) /\ p[1] = n <=> p \in {n} \X Led(Last(st), e, i)
    OBVIOUS
  <2>2. p \in Ahead(st, e, i) <=>
               /\ p = <<p[1], p[2]>> /\ p[1] \in DOMAIN st
               /\ p[2] \in Led(st[p[1]], e, i) /\ p[2] < Left(st, p[1])
    BY AheadElements
  <2>3. Left(st, n) = Len(Last(st).todo) /\ Len(Last(st).todo) \in Nat
    BY <1>2, LenProperties DEF Left, Frames
  <2>4. \A b \in Led(Last(st), e, i) : b < Left(st, n)
    BY <2>3 DEF Led
  <2>. HIDE DEF n
  <2>. QED
    BY <1>2, <2>2, <2>4
<1>4. ASSUME Last(st).todo # << >>, fr.todo = Tail(Last(st).todo)
      PROVE  Ahead(t, e, i) = Ahead(st, e, i) \ {Tip(st)}
  <2>1. Led(fr, e, i) = Led(Last(st), e, i) \ {Len(Last(st).todo) - 1}
    BY <1>2, <1>4, LedTail
  <2>2. Tip(st) = <<n, Len(Last(st).todo) - 1>>
    BY DEF Tip
  <2>. HIDE DEF n, t
  <2>. QED
    BY <1>1, <1>3, <2>1, <2>2
<1>5. fr.todo = << >> => Led(fr, e, i) = {}
  BY DEF Led
<1>. HIDE DEF n, t
<1>6. Led(fr, e, i) = Led(Last(st), e, i) => Ahead(t, e, i) = Ahead(st, e, i)
  BY <1>1, <1>3
<1>7. fr.todo = << >> => Ahead(t, e, i) = {p \in Ahead(st, e, i) : p[1] # n}
  BY <1>1, <1>5
<1>. QED
  BY <1>4, <1>6, <1>7 DEF n, t

(* A step that moves items on keeps the invariant. *)
LEMMA OnceStep ==
    ASSUME TypeInv, OnceInv, pc = "serve", pc' \in {"serve", "idle"}, Grows(heap, heap'),
           \A k \in DOMAIN stack' : Neat(stack'[k]),
           \A j \in DOMAIN offers' : offers'[j].item \in DOMAIN heap' /\ offers'[j].at \in Endpoints,
           begun \subseteq begun', stopped \subseteq stopped',
           \A s \in (begun' \ begun) \cup (stopped' \ stopped) : Processed(s, heap'),
           \A e \in Endpoints : \A i : \A p, q \in Spots(stack', offers', e, i) : p = q,
           \A e \in Endpoints : \A i \in DOMAIN heap :
               Spots(stack, offers, e, i) = {} => Spots(stack', offers', e, i) = {},
           \A e \in Endpoints : \A i \in OfKinds(heap, RuleKinds) :
               Sent(stack, offers, e, i) /\ Unstopped(stopped', e, i) => Sent(stack', offers', e, i),
           Barred(stack', offers', stopped' \ stopped),
           Promised(stack', offers', begun' \ begun, stopped')
    PROVE  OnceInv'
<1>1. \A s \in begun \cup stopped : Processed(s, heap')
  BY DEF OnceInv, Processed, OfKinds, Grows
<1>2. \A s \in begun' \cup stopped' : Processed(s, heap')
  BY <1>1
<1>3. \A s \in begun \cup stopped : s[1] \in Nodes /\ Behind[s[1]] \subseteq Endpoints
                                   /\ s[2] \in OfKinds(heap, RuleKinds) /\ s[2] \in DOMAIN heap
  BY BehindFacts DEF TypeInv, TypeOK, OnceInv, Processed, OfKinds
<1>4. Barred(stack', offers', stopped')
  BY <1>3 DEF OnceInv, Barred
<1>5. Promised(stack', offers', begun', stopped')
  <2>1. SUFFICES ASSUME NEW s \in begun, NEW e \in Behind[s[1]], Unstopped(stopped', e, s[2])
                 PROVE  Sent(stack', offers', e, s[2])
    BY DEF Promised
  <2>2. Unstopped(stopped, e, s[2])
    BY <2>1 DEF Unstopped
  <2>3. Sent(stack, offers, e, s[2])
    BY <2>2 DEF OnceInv, Promised
  <2>. QED
    BY <1>3, <2>1, <2>3
<1>. QED
  BY <1>2, <1>4, <1>5 DEF OnceInv, Sole

(* Frames stay neat, and at their nodes. *)
LEMMA NeatStack ==
    ASSUME NEW st \in Seq(Frames), \A k \in DOMAIN st : Neat(st[k]), NEW fr \in Frames, Neat(fr)
    PROVE  /\ \A k \in DOMAIN Append(st, fr) : Neat(Append(st, fr)[k])
           /\ \A k \in DOMAIN st \cap DOMAIN Append(st, fr) : Append(st, fr)[k].node = st[k].node
           /\ st # << >> =>
                 /\ \A k \in DOMAIN Append(Front(st), fr) : Neat(Append(Front(st), fr)[k])
                 /\ \A k \in DOMAIN Front(st) : Neat(Front(st)[k])
                 /\ fr.node = Last(st).node =>
                       \A k \in DOMAIN st \cap DOMAIN Append(Front(st), fr) :
                           Append(Front(st), fr)[k].node = st[k].node
<1> DEFINE n == Len(st)
<1>1. n \in Nat /\ DOMAIN st = 1 .. n
  BY LenProperties
<1>2. /\ DOMAIN Append(st, fr) = 1 .. n + 1 /\ \A k \in 1 .. n : Append(st, fr)[k] = st[k]
      /\ Append(st, fr)[n + 1] = fr
  BY AppendFacts
<1>. HIDE DEF n
<1>3. \A k \in DOMAIN Append(st, fr) : Neat(Append(st, fr)[k])
  BY <1>1, <1>2
<1>4. \A k \in DOMAIN st \cap DOMAIN Append(st, fr) : Append(st, fr)[k].node = st[k].node
  BY <1>1, <1>2
<1>5. ASSUME st # << >>
      PROVE  /\ \A k \in DOMAIN Append(Front(st), fr) : Neat(Append(Front(st), fr)[k])
             /\ \A k \in DOMAIN Front(st) : Neat(Front(st)[k])
             /\ fr.node = Last(st).node =>
                   \A k \in DOMAIN st \cap DOMAIN Append(Front(st), fr) :
                       Append(Front(st), fr)[k].node = st[k].node
  <2>1. /\ n \in Nat \ {0} /\ DOMAIN Append(Front(st), fr) = 1 .. n
        /\ \A k \in 1 .. n - 1 : Append(Front(st), fr)[k] = st[k]
        /\ Append(Front(st), fr)[n] = fr
    BY <1>5, FrontAppended DEF n
  <2>2. /\ Last(st) = st[n] /\ DOMAIN Front(st) = 1 .. n - 1
        /\ \A k \in 1 .. n - 1 : Front(st)[k] = st[k]
    <3>1. Front(st) \in Seq(Frames) /\ Len(Front(st)) = n - 1
      BY <1>5, FrontLast DEF n
    <3>. QED
      BY <1>5, <3>1, FrontLast, LenProperties DEF n
  <2>3. \A k \in 1 .. n : k \in 1 .. n - 1 \/ k = n
    BY <2>1
  <2>4. 1 .. n - 1 \subseteq 1 .. n
    BY <2>1
  <2>. QED
    BY <1>1, <2>1, <2>2, <2>3, <2>4
<1>. QED
  BY <1>3, <1>4, <1>5

(* A step after which every item is on its way where it was. *)
LEMMA OnceSame ==
    ASSUME TypeInv, OnceInv, pc = "serve", pc' \in {"serve", "idle"}, Grows(heap, heap'),
           UNCHANGED <<offers, begun, stopped>>, stack' \in Seq(Frames),
           \A k \in DOMAIN stack' : Neat(stack'[k]),
           \A k \in DOMAIN stack \cap DOMAIN stack' : stack'[k].node = stack[k].node,
           \A e, i : Ahead(stack', e, i) = Ahead(stack, e, i)
    PROVE  OnceInv'
<1>1. \A e, i : Spots(stack', offers', e, i) = Spots(stack, offers, e, i)
  BY DEF Spots
<1>2. stack \in Seq(Frames)
  BY DEF TypeInv, TypeOK
<1>3. ASSUME NEW e, NEW i, Sent(stack, offers, e, i) PROVE Sent(stack', offers', e, i)
  <2>1. PICK p \in Spots(stack, offers, e, i) : Firm(stack, p)
    BY <1>3 DEF Sent
  <2>2. p \in Spots(stack, offers, e, i) \cap Spots(stack', offers', e, i)
    BY <1>1
  <2>3. Firm(stack', p)
    BY <1>2, <2>1, <2>2, FirmStays
  <2>. QED
    BY <2>2, <2>3 DEF Sent
<1>4. \A j \in DOMAIN offers' : offers'[j].item \in DOMAIN heap' /\ offers'[j].at \in Endpoints
  BY DEF OnceInv, Grows
<1>5. \A e \in Endpoints : \A i : \A p, q \in Spots(stack', offers', e, i) : p = q
  BY <1>1 DEF OnceInv, Sole
<1>6. begun' \ begun = {} /\ stopped' \ stopped = {} /\ begun \subseteq begun' /\ stopped \subseteq stopped'
  OBVIOUS
<1>7. /\ Barred(stack', offers', stopped' \ stopped)
      /\ Promised(stack', offers', begun' \ begun, stopped')
  BY <1>6 DEF Barred, Promised
<1>. QED
  BY <1>1, <1>3, <1>4, <1>5, <1>6, <1>7, OnceStep

(* A step that stops an item at a processor: it is on its way to nothing behind, and there. *)
LEMMA OnceStops ==
    ASSUME TypeInv, OnceInv, pc = "serve", pc' = "serve", UNCHANGED <<heap, offers, begun>>,
           stack' \in Seq(Frames), \A k \in DOMAIN stack' : Neat(stack'[k]),
           \A k \in DOMAIN stack \cap DOMAIN stack' : stack'[k].node = stack[k].node,
           NEW n \in Nodes, Role[n] = "processor", NEW x \in OfKinds(heap, RuleKinds),
           stopped' = stopped \cup {<<n, x>>},
           \A e, i : IF e \in Behind[n] /\ i = x THEN Spots(stack', offers', e, i) = {}
                                                 ELSE Ahead(stack', e, i) = Ahead(stack, e, i)
    PROVE  OnceInv'
<1>1. \A e, i : ~(e \in Behind[n] /\ i = x) => Spots(stack', offers', e, i) = Spots(stack, offers, e, i)
  BY DEF Spots
<1>2. stack \in Seq(Frames) /\ Grows(heap, heap')
  BY DEF TypeInv, TypeOK, Grows
<1>3. ASSUME NEW e, NEW i, Sent(stack, offers, e, i), Unstopped(stopped', e, i)
      PROVE  Sent(stack', offers', e, i)
  <2>1. PICK p \in Spots(stack, offers, e, i) : Firm(stack, p)
    BY <1>3 DEF Sent
  <2>2. ~(e \in Behind[n] /\ i = x)
    BY <1>3 DEF Unstopped
  <2>3. p \in Spots(stack, offers, e, i) \cap Spots(stack', offers', e, i)
    BY <1>1, <2>2
  <2>4. Firm(stack', p)
    BY <1>2, <2>1, <2>3, FirmStays
  <2>. QED
    BY <2>3, <2>4 DEF Sent
<1>4. \A j \in DOMAIN offers' : offers'[j].item \in DOMAIN heap' /\ offers'[j].at \in Endpoints
  BY DEF OnceInv
<1>5. \A e \in Endpoints : \A i : \A p, q \in Spots(stack', offers', e, i) : p = q
  BY <1>1 DEF OnceInv, Sole
<1>6. begun' \ begun = {} /\ stopped' \ stopped \subseteq {<<n, x>>} /\ begun \subseteq begun'
      /\ stopped \subseteq stopped'
  OBVIOUS
<1>7. /\ Barred(stack', offers', stopped' \ stopped)
      /\ Promised(stack', offers', begun' \ begun, stopped')
  <2>1. \A e \in Behind[n] : Spots(stack', offers', e, x) = {}
    OBVIOUS
  <2>. QED
    BY <1>6, <2>1 DEF Barred, Promised
<1>8. \A s \in (begun' \ begun) \cup (stopped' \ stopped) : Processed(s, heap')
  BY <1>6 DEF Processed
<1>9. \A e \in Endpoints : \A i \in DOMAIN heap :
               Spots(stack, offers, e, i) = {} => Spots(stack', offers', e, i) = {}
  BY <1>1
<1>. QED
  BY <1>2, <1>3, <1>4, <1>5, <1>6, <1>7, <1>8, <1>9, OnceStep

(* A step that begins to process an item: it was on its way, or is new. *)
LEMMA OnceBegins ==
    ASSUME TypeInv, OnceInv, pc = "serve", pc' = "serve", UNCHANGED <<offers, stopped>>,
           Grows(heap, heap'), stack # << >>, Last(stack).todo # << >>, NEW fr \in Frames, Neat(fr),
           fr.todo # << >>, fr.item # None, Role[fr.node] = "processor", stack' = Append(stack, fr),
           fr.item \in OfKinds(heap', RuleKinds), begun' = begun \cup {<<fr.node, fr.item>>},
           \A e, i : IF e \in Behind[fr.node] /\ i = fr.item
                     THEN \/ Spots(stack, offers, e, i) = {Tip(stack)}
                          \/ Spots(stack, offers, e, i) = {} /\ i \notin DOMAIN heap
                     ELSE Tip(stack) \notin Ahead(stack, e, i)
    PROVE  OnceInv'
<1> DEFINE new == <<Len(stack) + 1, 0>>
<1>1. stack \in Seq(Frames) /\ Len(stack) \in Nat \ {0} /\ Len(stack) + 1 # 0
  BY FrontLast DEF TypeInv, TypeOK
<1>2. /\ stack' \in Seq(Frames) /\ DOMAIN stack' = 1 .. Len(stack) + 1 /\ stack'[Len(stack) + 1] = fr
  BY <1>1, AppendFacts
<1>3. /\ \A k \in DOMAIN stack' : Neat(stack'[k])
      /\ \A k \in DOMAIN stack \cap DOMAIN stack' : stack'[k].node = stack[k].node
  BY <1>1, NeatStack DEF OnceInv
<1>4. \A e, i : Ahead(stack', e, i) = (Ahead(stack, e, i) \ {Tip(stack)}) \cup ({Len(stack) + 1} \X Led(fr, e, i))
  BY <1>1, AheadPushed
<1>5. \A e, i : Led(fr, e, i) = IF e \in Behind[fr.node] /\ i = fr.item THEN {0} ELSE {}
  BY ItemLed
<1>6. \A e, i : ~(e \in Behind[fr.node] /\ i = fr.item) =>
             Spots(stack', offers', e, i) = Spots(stack, offers, e, i)
  BY <1>4, <1>5 DEF Spots
<1>7. ASSUME NEW e \in Behind[fr.node]
      PROVE  /\ Spots(stack', offers', e, fr.item) = {new} /\ Sent(stack', offers', e, fr.item)
             /\ Spots(stack, offers, e, fr.item) = {} => fr.item \notin DOMAIN heap
  <2>1. Ahead(stack', e, fr.item) = (Ahead(stack, e, fr.item) \ {Tip(stack)}) \cup {new}
    BY <1>4, <1>5
  <2>2. Tip(stack)[1] # 0
    BY <1>1 DEF Tip
  <2>3. Tip(stack) \notin {0} \X Offered(offers, e, fr.item)
    BY <2>2
  <2>4. \/ Spots(stack, offers, e, fr.item) = {Tip(stack)}
        \/ Spots(stack, offers, e, fr.item) = {} /\ fr.item \notin DOMAIN heap
    OBVIOUS
  <2>5. {0} \X Offered(offers, e, fr.item) = {} /\ Ahead(stack, e, fr.item) \ {Tip(stack)} = {}
    BY <2>3, <2>4 DEF Spots
  <2>6. Spots(stack', offers', e, fr.item) = {new}
    <3>. HIDE DEF new
    <3>. QED
      BY <2>1, <2>5 DEF Spots
  <2>7. Firm(stack', new)
    BY <1>2 DEF Firm
  <2>. QED
    BY <2>4, <2>6, <2>7 DEF Sent
<1>. HIDE DEF new
<1>8. ASSUME NEW e, NEW i, Sent(stack, offers, e, i) PROVE Sent(stack', offers', e, i)
  <2>1. PICK p \in Spots(stack, offers, e, i) : Firm(stack, p)
    BY <1>8 DEF Sent
  <2>2. CASE ~(e \in Behind[fr.node] /\ i = fr.item)
    <3>1. p \in Spots(stack, offers, e, i) \cap Spots(stack', offers', e, i)
      BY <1>6, <2>2
    <3>2. Firm(stack', p)
      BY <1>1, <1>2, <1>3, <2>1, <3>1, FirmStays
    <3>. QED
      BY <3>1, <3>2 DEF Sent
  <2>. QED
    BY <1>7, <2>2
<1>9. \A j \in DOMAIN offers' : offers'[j].item \in DOMAIN heap' /\ offers'[j].at \in Endpoints
  BY DEF OnceInv, Grows
<1>10. \A e \in Endpoints : \A i : \A p, q \in Spots(stack', offers', e, i) : p = q
  BY <1>6, <1>7 DEF OnceInv, Sole
<1>11. /\ stopped' \ stopped = {} /\ begun' \ begun \subseteq {<<fr.node, fr.item>>}
       /\ begun \subseteq begun' /\ stopped \subseteq stopped'
  OBVIOUS
<1>12. /\ Barred(stack', offers', stopped' \ stopped)
       /\ Promised(stack', offers', begun' \ begun, stopped')
  BY <1>7, <1>11 DEF Barred, Promised
<1>13. \A s \in (begun' \ begun) \cup (stopped' \ stopped) : Processed(s, heap')
  BY <1>11 DEF Processed
<1>14. \A e \in Endpoints : \A i \in DOMAIN heap :
               Spots(stack, offers, e, i) = {} => Spots(stack', offers', e, i) = {}
  BY <1>6, <1>7
<1>. QED
  BY <1>3, <1>8, <1>9, <1>10, <1>11, <1>12, <1>13, <1>14, OnceStep

(* What the entry under way brings, by what it is. *)
LEMMA BringsWhat ==
    ASSUME NEW n, NEW entry, NEW e, NEW i
    PROVE  /\ entry.do = "process" => (Brings(n, entry, e, i) <=> e \in Behind[n] /\ i = entry.item)
           /\ entry.do \in {"rule", "action"} => ~Brings(n, entry, e, i)
           /\ entry.do = "call" => (Brings(n, entry, e, i) <=> e \in Reached(entry.to) /\ i \in Items(entry.groups))
BY DEF Brings, Aimed, Carried, Items

(* What a step of the processor starts from. *)
LEMMA OnceServes ==
    ASSUME TypeInv, OnceInv, pc = "serve"
    PROVE  /\ stack \in Seq(Frames) /\ stack # << >> /\ Top = Last(stack) /\ Top \in Frames /\ Neat(Top)
           /\ IsHeap(heap) /\ FrameOK(heap, Top) /\ Len(stack) \in Nat \ {0}
<1>1. /\ IsHeap(heap) /\ stack # << >> /\ stack \in Seq(Frames) /\ Len(stack) \in Nat \ {0}
      /\ DOMAIN stack = 1 .. Len(stack) /\ Top = stack[Len(stack)] /\ FrameOK(heap, Top)
  BY ServeFacts
<1>. QED
  BY <1>1, FrameType DEF OnceInv, Top

(* Items under way at one place are at that one only. *)
LEMMA SoleTip ==
    ASSUME OnceInv, NEW e \in Endpoints, NEW i, Tip(stack) \in Ahead(stack, e, i)
    PROVE  Spots(stack, offers, e, i) = {Tip(stack)}
BY DEF OnceInv, Sole, Spots

(* Another frame on top, at the same node. *)
LEMMA ReplacedFacts ==
    ASSUME TypeInv, OnceInv, pc = "serve", NEW fr \in Frames, Neat(fr), fr.node = Top.node,
           stack' = ReplaceTop(fr)
    PROVE  /\ stack' = Append(Front(stack), fr) /\ stack' \in Seq(Frames)
           /\ \A k \in DOMAIN stack' : Neat(stack'[k])
           /\ \A k \in DOMAIN stack \cap DOMAIN stack' : stack'[k].node = stack[k].node
<1>1. stack \in Seq(Frames) /\ stack # << >> /\ Top = Last(stack)
  BY OnceServes
<1>2. stack' = Append(Front(stack), fr)
  BY DEF ReplaceTop
<1>3. Append(Front(stack), fr) \in Seq(Frames)
  BY <1>1, FrontAppended
<1>4. \A k \in DOMAIN stack : Neat(stack[k])
  BY DEF OnceInv
<1>5. /\ \A k \in DOMAIN Append(Front(stack), fr) : Neat(Append(Front(stack), fr)[k])
      /\ \A k \in DOMAIN stack \cap DOMAIN Append(Front(stack), fr) :
             Append(Front(stack), fr)[k].node = stack[k].node
  BY <1>1, <1>4, NeatStack
<1>. QED
  BY <1>2, <1>3, <1>5

(* An item a processor takes up is where it was: it is to be sent on after its rules. *)
LEMMA TakeItemOnce ==
    TypeInv /\ OnceInv /\ TakeItem => OnceInv'
<1> SUFFICES ASSUME TypeInv, OnceInv, TakeItem PROVE OnceInv'
  OBVIOUS
<1> DEFINE n == Top.node
           x == Entry.item
           fr == Frame(n, x, ItemAgenda(n, x, heap[x].kind))
<1>1. /\ Doing("process") /\ stack' = Append(stack, fr) /\ begun' = begun \cup {<<n, x>>}
      /\ UNCHANGED <<rules, pc, heap, offers, stopped>>
  BY DEF TakeItem, ProcessItem
<1>2. /\ pc = "serve" /\ Top.todo # << >> /\ Entry.do = "process" /\ Entry = Head(Top.todo)
  BY <1>1 DEF Doing, Entry
<1>3. /\ stack \in Seq(Frames) /\ stack # << >> /\ Top = Last(stack) /\ FrameOK(heap, Top) /\ IsHeap(heap)
      /\ n \in Nodes
  BY <1>2, OnceServes DEF FrameOK
<1>4. Role[n] = "processor" /\ x \in OfKinds(heap, RuleKinds) /\ x # None
  BY <1>2, <1>3, ProcessFacts, HeapFacts DEF OfKinds, None
<1>5. fr \in Frames /\ Neat(fr) /\ fr.todo # << >> /\ fr.node = n /\ fr.item = x
  BY <1>3, <1>4, ItemBegins DEF TypeInv, TypeOK
<1>6. ASSUME NEW e, NEW i
      PROVE  IF e \in Behind[n] /\ i = x
             THEN Spots(stack, offers, e, i) = {Tip(stack)}
             ELSE Tip(stack) \notin Ahead(stack, e, i)
  <2>1. Tip(stack) \in Ahead(stack, e, i) <=> e \in Behind[n] /\ i = x
    BY <1>2, <1>3, TipLeads, BringsWhat
  <2>2. Behind[n] \subseteq Endpoints
    BY <1>3, BehindFacts
  <2>. QED
    BY <2>1, <2>2, SoleTip
<1>7. Grows(heap, heap') /\ heap' = heap
  BY <1>1 DEF Grows
<1>. HIDE DEF fr, x, n
<1>. QED
  BY <1>1, <1>2, <1>3, <1>4, <1>5, <1>6, <1>7, OnceBegins

(* A new model or metric is to be sent to all endpoints behind the processor. *)
LEMMA CreateOnce ==
    TypeInv /\ OnceInv /\ Create => OnceInv'
<1> SUFFICES ASSUME TypeInv, OnceInv, Create PROVE OnceInv'
  OBVIOUS
<1> DEFINE n == Top.node
           x == Len(heap) + 1
           fr == Frame(n, x, ItemAgenda(n, x, heap'[x].kind))
<1>1. /\ Doing("action") /\ stack' = Append(stack, fr) /\ begun' = begun \cup {<<n, x>>}
      /\ UNCHANGED <<rules, pc, offers, stopped>>
  BY DEF Create, Acting, ProcessItem
<1>2. /\ pc = "serve" /\ Top.todo # << >> /\ Entry.do = "action" /\ Entry = Head(Top.todo)
  BY <1>1 DEF Doing, Entry
<1>3. /\ stack \in Seq(Frames) /\ stack # << >> /\ Top = Last(stack) /\ FrameOK(heap, Top) /\ IsHeap(heap)
      /\ n \in Nodes
  BY <1>2, OnceServes DEF FrameOK
<1>4. /\ IsHeap(heap') /\ Grows(heap, heap') /\ Role[n] = "processor" /\ x \in OfKinds(heap', RuleKinds)
      /\ x # None /\ x \notin DOMAIN heap
  BY <1>1, <1>3, RuleSteps, CreateFacts, HeapFacts DEF Keeps, None
<1>5. fr \in Frames /\ Neat(fr) /\ fr.todo # << >> /\ fr.node = n /\ fr.item = x
  <2>. HIDE DEF x
  <2>. QED
    BY <1>3, <1>4, ItemBegins DEF TypeInv, TypeOK
<1>6. ASSUME NEW e, NEW i PROVE Tip(stack) \notin Ahead(stack, e, i)
  BY <1>2, <1>3, TipLeads, BringsWhat
<1>7. ASSUME NEW e PROVE Spots(stack, offers, e, x) = {}
  BY <1>3, <1>4, SpotsKnown DEF OnceInv, TypeInv, Shape
<1>. HIDE DEF fr, x, n
<1>. QED
  BY <1>1, <1>2, <1>3, <1>4, <1>5, <1>6, <1>7, OnceBegins

(* The item of a processor that is at a rule or an action. *)
LEMMA ItemFrame ==
    ASSUME NEW fr \in Frames, Neat(fr), Role[fr.node] = "processor", fr.item # None, fr.todo # << >>,
           Head(fr.todo).do \in {"rule", "action"}
    PROVE  /\ Len(fr.todo) \in Nat /\ Len(fr.todo) > 1 /\ Last(fr.todo) = fr.todo[Len(fr.todo)]
           /\ Plain(Last(fr.todo))
           /\ \E kind \in RuleKinds : Last(fr.todo) = Call(Outputs[fr.node][1], <<Group(kind, <<fr.item>>)>>)
           /\ \A k \in 1 .. Len(fr.todo) - 1 : fr.todo[k].do \in {"rule", "action"}
<1>1. /\ fr.todo \in Seq(Entries) /\ Len(fr.todo) \in Nat \ {0} /\ DOMAIN fr.todo = 1 .. Len(fr.todo)
      /\ Last(fr.todo) = fr.todo[Len(fr.todo)] /\ Head(fr.todo) = fr.todo[1]
  <2>1. fr.todo \in Seq(Entries)
    BY DEF Frames
  <2>2. /\ Len(fr.todo) \in Nat \ {0} /\ DOMAIN fr.todo = 1 .. Len(fr.todo)
        /\ Last(fr.todo) = fr.todo[Len(fr.todo)]
    BY <2>1, FrontLast
  <2>. QED
    BY <2>1, <2>2
<1>2. /\ \E kind \in RuleKinds :
            fr.todo[Len(fr.todo)] = Call(Outputs[fr.node][1], <<Group(kind, <<fr.item>>)>>)
      /\ \A k \in 1 .. Len(fr.todo) - 1 : fr.todo[k].do \in {"rule", "action"}
      /\ Plain(fr.todo[Len(fr.todo)])
  BY <1>1 DEF Neat
<1>3. fr.todo[Len(fr.todo)].do = "call"
  BY <1>2 DEF Call
<1>4. Len(fr.todo) # 1
  BY <1>1, <1>3
<1>. QED
  BY <1>1, <1>2, <1>4

(* An item whose rules go on, however they do, is still to be sent last. *)
LEMMA ItemStands ==
    ASSUME TypeInv, OnceInv, Doing("rule") \/ Doing("action"), NEW todo \in Seq(Tasks(heap, Top.node, Top.item)),
           todo # << >>, todo[Len(todo)] = Last(Top.todo),
           \A k \in 1 .. Len(todo) - 1 : todo[k].do \in {"rule", "action"},
           UNCHANGED <<pc, offers, begun, stopped>>, Grows(heap, heap'),
           stack' = ReplaceTop([Top EXCEPT !.todo = todo])
    PROVE  OnceInv'
<1> DEFINE fr == [Top EXCEPT !.todo = todo]
<1>1. pc = "serve" /\ Top.todo # << >> /\ Head(Top.todo).do \in {"rule", "action"} /\ ~Top.error
  BY ServeFacts DEF Doing, Entry
<1>2. /\ stack \in Seq(Frames) /\ stack # << >> /\ Top = Last(stack) /\ FrameOK(heap, Top) /\ IsHeap(heap)
      /\ Top \in Frames /\ Neat(Top)
  BY <1>1, OnceServes
<1>3. Role[Top.node] = "processor" /\ Top.item # None
  BY RuleSteps DEF None
<1>4. fr \in Frames /\ fr.node = Top.node /\ fr.item = Top.item /\ fr.todo = todo
  BY <1>1, <1>2, FrameWith, FrameType DEF FrameOK
<1>. HIDE DEF fr
<1>5. /\ Plain(Last(Top.todo))
      /\ \E kind \in RuleKinds : Last(Top.todo) = Call(Outputs[Top.node][1], <<Group(kind, <<Top.item>>)>>)
  BY <1>1, <1>2, <1>3, ItemFrame
<1>6. Len(todo) \in Nat /\ DOMAIN todo = 1 .. Len(todo)
  BY LenProperties
<1>7. \A k \in DOMAIN todo : Plain(todo[k])
  <2>1. \A k \in 1 .. Len(todo) : k \in 1 .. Len(todo) - 1 \/ k = Len(todo)
    BY <1>6
  <2>. QED
    BY <1>5, <1>6, <2>1 DEF Plain
<1>8. Neat(fr)
  BY <1>3, <1>4, <1>5, <1>7 DEF Neat
<1>9. \A e, i : Led(fr, e, i) = Led(Top, e, i)
  <2>1. SUFFICES ASSUME NEW e, NEW i PROVE Led(fr, e, i) = Led(Top, e, i)
    OBVIOUS
  <2>2. Led(fr, e, i) = IF e \in Behind[Top.node] /\ i = Top.item THEN {0} ELSE {}
    BY <1>3, <1>4, <1>8, ItemLed
  <2>3. Led(Top, e, i) = IF e \in Behind[Top.node] /\ i = Top.item THEN {0} ELSE {}
    BY <1>1, <1>2, <1>3, ItemLed
  <2>. QED
    BY <2>2, <2>3
<1>10. \A e, i : Ahead(Append(Front(stack), fr), e, i) = Ahead(stack, e, i)
  BY <1>2, <1>4, <1>9, TopAhead
<1>11. stack' = ReplaceTop(fr)
  BY DEF fr
<1>12. /\ stack' = Append(Front(stack), fr) /\ stack' \in Seq(Frames)
       /\ \A k \in DOMAIN stack' : Neat(stack'[k])
       /\ \A k \in DOMAIN stack \cap DOMAIN stack' : stack'[k].node = stack[k].node
  BY <1>1, <1>4, <1>8, <1>11, ReplacedFacts
<1>13. \A e, i : Ahead(stack', e, i) = Ahead(stack, e, i)
  BY <1>10, <1>12
<1>. QED
  BY <1>1, <1>12, <1>13, OnceSame

(* The rules of an item, with the first of them replaced by others. *)
LEMMA RulesReplaced ==
    ASSUME TypeInv, OnceInv, Doing("rule") \/ Doing("action"),
           NEW first \in Seq({Rule(r) : r \in Rules} \cup {Action(a) : a \in Actions})
    PROVE  LET todo == first \o Tail(Top.todo)
           IN  /\ todo \in Seq(Tasks(heap, Top.node, Top.item))
               /\ todo # << >> /\ todo[Len(todo)] = Last(Top.todo)
               /\ \A k \in 1 .. Len(todo) - 1 : todo[k].do \in {"rule", "action"}
<1> DEFINE T == Tasks(heap, Top.node, Top.item)
           U == {Rule(r) : r \in Rules} \cup {Action(a) : a \in Actions}
           tail == Tail(Top.todo)
           todo == first \o tail
           m == Len(first)
           n == Len(tail)
<1>1. pc = "serve" /\ Top.todo # << >> /\ Head(Top.todo).do \in {"rule", "action"}
  BY DEF Doing, Entry
<1>2. Top \in Frames /\ Neat(Top) /\ Role[Top.node] = "processor" /\ Top.item # None
  BY <1>1, OnceServes, RuleSteps DEF None
<1>3. /\ Len(Top.todo) \in Nat /\ Len(Top.todo) > 1 /\ Last(Top.todo) = Top.todo[Len(Top.todo)]
      /\ \A k \in 1 .. Len(Top.todo) - 1 : Top.todo[k].do \in {"rule", "action"}
  BY <1>1, <1>2, ItemFrame
<1>4. /\ tail \in Seq(T) /\ U \subseteq T
  BY RuleSteps
<1>5. n = Len(Top.todo) - 1 /\ \A k \in 1 .. n : tail[k] = Top.todo[k + 1]
  BY <1>1, <1>2, <1>3, HeadTailProperties DEF Frames
<1>6. first \in Seq(U) /\ first \in Seq(T)
  BY <1>4, SeqMonotonic
<1>7. \A k \in 1 .. m : first[k] \in U
  BY <1>6, ElementOfSeq, LenProperties
<1>8. \A u \in U : u.do \in {"rule", "action"}
  BY DEF Rule, Action
<1>. HIDE DEF T, U, tail
<1>9. /\ todo \in Seq(T) /\ Len(todo) = m + n /\ m \in Nat /\ n \in Nat
      /\ \A k \in 1 .. m + n : todo[k] = IF k <= m THEN first[k] ELSE tail[k - m]
  BY <1>4, <1>6, ConcatProperties, LenProperties
<1>. HIDE DEF m, n, todo
<1>10. Len(todo) > 0 /\ todo # << >>
  BY <1>3, <1>5, <1>9, EmptySeq
<1>11. todo[Len(todo)] = Last(Top.todo)
  <2>1. m + n \in 1 .. m + n /\ ~(m + n <= m) /\ m + n - m = n /\ n \in 1 .. n
    BY <1>3, <1>5, <1>9
  <2>2. todo[m + n] = tail[n]
    BY <1>9, <2>1
  <2>3. tail[n] = Top.todo[Len(Top.todo)]
    BY <1>3, <1>5, <2>1
  <2>. QED
    BY <1>3, <1>9, <2>2, <2>3
<1>12. ASSUME NEW k \in 1 .. Len(todo) - 1 PROVE todo[k].do \in {"rule", "action"}
  <2>1. k \in 1 .. m + n /\ k < m + n
    BY <1>9
  <2>2. CASE k <= m
    BY <1>7, <1>8, <1>9, <2>1, <2>2
  <2>3. CASE ~(k <= m)
    <3>1. k - m \in 1 .. n /\ k - m + 1 \in 1 .. Len(Top.todo) - 1
      BY <1>3, <1>5, <1>9, <2>1, <2>3
    <3>2. todo[k] = Top.todo[k - m + 1]
      BY <1>5, <1>9, <2>1, <2>3, <3>1
    <3>. QED
      BY <1>3, <3>1, <3>2
  <2>. QED
    BY <2>2, <2>3
<1>. QED
  BY <1>9, <1>10, <1>11, <1>12 DEF todo, T, tail

(* A rule that applies has its actions and rules come first; another is left out. *)
LEMMA ApplyRuleOnce ==
    TypeInv /\ OnceInv /\ ApplyRule => OnceInv'
<1> SUFFICES ASSUME TypeInv, OnceInv, ApplyRule PROVE OnceInv'
  OBVIOUS
<1> DEFINE r == Entry.rule
           U == {Rule(x) : x \in Rules} \cup {Action(a) : a \in Actions}
           acts == [k \in DOMAIN r.actions |-> Action(r.actions[k])]
           subs == [k \in DOMAIN r.rules |-> Rule(r.rules[k])]
           todo == IF Applies(heap, Top.item, r) THEN acts \o subs \o Tail(Top.todo)
                                                 ELSE Tail(Top.todo)
<1>1. /\ Doing("rule") /\ stack' = ReplaceTop([Top EXCEPT !.todo = todo])
      /\ UNCHANGED <<pc, heap, offers, begun, stopped>>
  BY DEF ApplyRule, Proceed, history
<1>2. r \in Rules /\ Tail(Top.todo) \in Seq(Tasks(heap, Top.node, Top.item))
  BY <1>1, RuleSteps
<1>3. r.actions \in Seq(Actions) /\ r.rules \in Seq(Rules)
  BY <1>2, RulesAssumption
<1>4. acts \in Seq(U)
  <2>1. /\ DOMAIN r.actions = 1 .. Len(r.actions) /\ Len(r.actions) \in Nat
        /\ \A k \in DOMAIN r.actions : r.actions[k] \in Actions
    BY <1>3, LenProperties, ElementOfSeq
  <2>2. acts \in [1 .. Len(r.actions) -> U]
    BY <2>1
  <2>. HIDE DEF U, acts
  <2>. QED
    BY <2>1, <2>2, FunctionSeq
<1>5. subs \in Seq(U)
  <2>1. /\ DOMAIN r.rules = 1 .. Len(r.rules) /\ Len(r.rules) \in Nat
        /\ \A k \in DOMAIN r.rules : r.rules[k] \in Rules
    BY <1>3, LenProperties, ElementOfSeq
  <2>2. subs \in [1 .. Len(r.rules) -> U]
    BY <2>1
  <2>. HIDE DEF U, subs
  <2>. QED
    BY <2>1, <2>2, FunctionSeq
<1>6. PICK first \in Seq(U) : todo = first \o Tail(Top.todo)
  <2>. HIDE DEF U, acts, subs
  <2>1. acts \o subs \in Seq(U) /\ << >> \in Seq(U)
    BY <1>4, <1>5, ConcatProperties, EmptySeq
  <2>2. << >> \o Tail(Top.todo) = Tail(Top.todo)
    BY <1>2, ConcatEmptySeq
  <2>. QED
    BY <2>1, <2>2
<1>7. /\ todo \in Seq(Tasks(heap, Top.node, Top.item))
      /\ todo # << >> /\ todo[Len(todo)] = Last(Top.todo)
      /\ \A k \in 1 .. Len(todo) - 1 : todo[k].do \in {"rule", "action"}
  <2> DEFINE t == first \o Tail(Top.todo)
  <2>1. /\ t \in Seq(Tasks(heap, Top.node, Top.item))
        /\ t # << >> /\ t[Len(t)] = Last(Top.todo)
        /\ \A k \in 1 .. Len(t) - 1 : t[k].do \in {"rule", "action"}
    BY <1>1, RulesReplaced
  <2>2. todo = t
    BY <1>6
  <2>. HIDE DEF t, todo
  <2>. QED
    BY <2>1, <2>2
<1>8. Grows(heap, heap')
  BY <1>1 DEF Grows
<1>. HIDE DEF todo
<1>. QED
  BY <1>1, <1>7, <1>8, ItemStands

(* An action on the item itself is left behind. *)
LEMMA ChangeOnce ==
    TypeInv /\ OnceInv /\ Change => OnceInv'
<1> SUFFICES ASSUME TypeInv, OnceInv, Change PROVE OnceInv'
  OBVIOUS
<1> DEFINE todo == Tail(Top.todo)
           U == {Rule(r) : r \in Rules} \cup {Action(a) : a \in Actions}
<1>1. /\ Doing("action") /\ stack' = ReplaceTop([Top EXCEPT !.todo = todo])
      /\ UNCHANGED <<pc, offers, begun, stopped>>
  BY DEF Change, Acting, Proceed, history
<1>2. todo \in Seq(Tasks(heap, Top.node, Top.item))
  BY <1>1, RuleSteps
<1>3. << >> \in Seq(U) /\ << >> \o todo = todo
  BY <1>2, EmptySeq, ConcatEmptySeq
<1>4. Grows(heap, heap')
  BY ChangeFacts DEF Keeps
<1>5. /\ todo # << >> /\ todo[Len(todo)] = Last(Top.todo)
      /\ \A k \in 1 .. Len(todo) - 1 : todo[k].do \in {"rule", "action"}
  <2> DEFINE t == << >> \o todo
  <2>1. /\ t # << >> /\ t[Len(t)] = Last(Top.todo)
        /\ \A k \in 1 .. Len(t) - 1 : t[k].do \in {"rule", "action"}
    BY <1>1, <1>3, RulesReplaced
  <2>. QED
    BY <1>3, <2>1
<1>. HIDE DEF todo
<1>. QED
  BY <1>1, <1>2, <1>4, <1>5, ItemStands

(* A processor's item that has nothing left to do is not sent. *)
LEMMA FrameEnds ==
    ASSUME NEW st \in Seq(Frames), st # << >>, Neat(Last(st)), Role[Last(st).node] = "processor",
           Last(st).item # None, Last(st).todo # << >>, Head(Last(st).todo).do = "action",
           NEW fr \in Frames, fr.node = Last(st).node, fr.todo = << >>, NEW e, NEW i
    PROVE  /\ Tip(st) \notin Ahead(st, e, i)
           /\ IF e \in Behind[fr.node] /\ i = Last(st).item
              THEN /\ <<Len(st), 0>> \in Ahead(st, e, i)
                   /\ Ahead(Append(Front(st), fr), e, i) = {p \in Ahead(st, e, i) : p[1] # Len(st)}
              ELSE Ahead(Append(Front(st), fr), e, i) = Ahead(st, e, i)
<1> DEFINE top == Last(st)
<1>1. /\ Len(st) \in Nat \ {0} /\ DOMAIN st = 1 .. Len(st) /\ top = st[Len(st)] /\ top \in Frames
  BY FrontLast
<1>2. Tip(st) \notin Ahead(st, e, i)
  BY TipLeads, BringsWhat
<1>3. Led(top, e, i) = IF e \in Behind[fr.node] /\ i = top.item THEN {0} ELSE {}
  <2>. HIDE DEF top
  <2>1. /\ Neat(top) /\ Role[top.node] = "processor" /\ top.item # None /\ top.todo # << >>
        /\ fr.node = top.node
    BY DEF top
  <2>. QED
    BY <1>1, <2>1, ItemLed
<1>4. Led(fr, e, i) = {}
  BY DEF Led
<1>5. Len(top.todo) \in Nat /\ Len(top.todo) > 1
  <2>. HIDE DEF top
  <2>1. /\ Neat(top) /\ Role[top.node] = "processor" /\ top.item # None /\ top.todo # << >>
        /\ Head(top.todo).do \in {"rule", "action"}
    BY DEF top
  <2>. QED
    BY <1>1, <2>1, ItemFrame
<1>6. ASSUME e \in Behind[fr.node] /\ i = top.item PROVE <<Len(st), 0>> \in Ahead(st, e, i)
  <2>1. 0 \in Led(st[Len(st)], e, i) /\ 0 < Left(st, Len(st))
    BY <1>1, <1>3, <1>5, <1>6 DEF Left
  <2>2. <<Len(st), 0>>[1] = Len(st) /\ <<Len(st), 0>>[2] = 0
    OBVIOUS
  <2>. QED
    BY <1>1, <2>1, <2>2, AheadElements
<1>7. Ahead(Append(Front(st), fr), e, i) = {p \in Ahead(st, e, i) : p[1] # Len(st)}
  BY TopAhead
<1>8. Led(fr, e, i) = Led(top, e, i) => Ahead(Append(Front(st), fr), e, i) = Ahead(st, e, i)
  BY TopAhead
<1>. QED
  BY <1>2, <1>3, <1>4, <1>6, <1>7, <1>8

(* An item dropped, or failed for, by an action. *)
LEMMA ItemEnds ==
    ASSUME TypeInv, OnceInv, Doing("action"), UNCHANGED <<pc, heap, offers, begun>>,
           stopped' = stopped \cup {<<Top.node, Top.item>>},
           NEW fr \in Frames, fr.node = Top.node, fr.todo = << >>, stack' = ReplaceTop(fr)
    PROVE  OnceInv'
<1>1. pc = "serve" /\ Top.todo # << >> /\ Head(Top.todo).do = "action"
  BY DEF Doing, Entry
<1>2. /\ stack \in Seq(Frames) /\ stack # << >> /\ Top = Last(stack) /\ FrameOK(heap, Top) /\ IsHeap(heap)
      /\ Top \in Frames /\ Neat(Top)
  BY <1>1, OnceServes
<1>3. /\ Top.node \in Nodes /\ Role[Top.node] = "processor" /\ Top.item # None
      /\ Top.item \in OfKinds(heap, RuleKinds)
  BY RuleSteps DEF None
<1>4. DOMAIN fr.todo = {} /\ Neat(fr)
  BY <1>3 DEF Neat
<1>5. /\ stack' = Append(Front(stack), fr) /\ stack' \in Seq(Frames)
      /\ \A k \in DOMAIN stack' : Neat(stack'[k])
      /\ \A k \in DOMAIN stack \cap DOMAIN stack' : stack'[k].node = stack[k].node
  BY <1>1, <1>4, ReplacedFacts
<1>6. ASSUME NEW e, NEW i
      PROVE  IF e \in Behind[Top.node] /\ i = Top.item THEN Spots(stack', offers', e, i) = {}
                                                       ELSE Ahead(stack', e, i) = Ahead(stack, e, i)
  <2>1. IF e \in Behind[Top.node] /\ i = Top.item
        THEN /\ <<Len(stack), 0>> \in Ahead(stack, e, i)
             /\ Ahead(stack', e, i) = {p \in Ahead(stack, e, i) : p[1] # Len(stack)}
        ELSE Ahead(stack', e, i) = Ahead(stack, e, i)
    BY <1>1, <1>2, <1>3, <1>5, FrameEnds
  <2>2. ASSUME e \in Behind[Top.node], i = Top.item PROVE Spots(stack', offers', e, i) = {}
    <3>1. e \in Endpoints
      BY <1>3, <2>2, BehindFacts
    <3>2. \A p \in Spots(stack, offers, e, i) : p = <<Len(stack), 0>>
      BY <2>1, <2>2, <3>1 DEF OnceInv, Sole, Spots
    <3>3. Ahead(stack', e, i) = {}
      BY <2>1, <2>2, <3>2 DEF Spots
    <3>4. <<Len(stack), 0>> \notin {0} \X Offered(offers, e, i)
      BY <1>2, OnceServes, <1>1
    <3>. QED
      BY <3>2, <3>3, <3>4 DEF Spots
  <2>. QED
    BY <2>1, <2>2
<1>. QED
  BY <1>1, <1>3, <1>5, <1>6, OnceStops

(* A frame with nothing left to do is a frame. *)
LEMMA EmptiedFrame ==
    ASSUME NEW fr \in Frames
    PROVE  /\ [fr EXCEPT !.todo = << >>, !.error = TRUE] \in Frames
           /\ [fr EXCEPT !.todo = << >>] \in Frames
BY EmptySeq DEF Frames

(* A failure stops the item. *)
LEMMA FailActionOnce ==
    TypeInv /\ OnceInv /\ FailAction => OnceInv'
<1> SUFFICES ASSUME TypeInv, OnceInv, FailAction PROVE OnceInv'
  OBVIOUS
<1> DEFINE fr == [Top EXCEPT !.todo = << >>, !.error = TRUE]
<1>1. /\ Doing("action") /\ stack' = ReplaceTop(fr)
      /\ stopped' = stopped \cup {<<Top.node, Top.item>>}
      /\ UNCHANGED <<pc, heap, offers, begun>>
  BY DEF FailAction, Stop
<1>2. Top \in Frames
  BY <1>1, OnceServes DEF Doing
<1>3. fr \in Frames /\ fr.node = Top.node /\ fr.todo = << >>
  BY <1>2, EmptiedFrame DEF Frames
<1>. HIDE DEF fr
<1>. QED
  BY <1>1, <1>3, ItemEnds

(* A signal stops the item, or sends it at once. *)
LEMMA SignalOnce ==
    TypeInv /\ OnceInv /\ Signal => OnceInv'
<1> SUFFICES ASSUME TypeInv, OnceInv, Signal PROVE OnceInv'
  OBVIOUS
<1> DEFINE fr == [Top EXCEPT !.todo = << >>]
           last == Last(Top.todo)
           todo == <<last>>
<1>1. /\ Doing("action") /\ UNCHANGED <<pc, heap, offers, begun>>
      /\ \/ stack' = ReplaceTop(fr) /\ stopped' = stopped \cup {<<Top.node, Top.item>>}
         \/ stack' = ReplaceTop([Top EXCEPT !.todo = todo]) /\ UNCHANGED stopped
  BY DEF Signal, Acting, Proceed, Stop
<1>2. Top \in Frames
  BY <1>1, OnceServes DEF Doing
<1>3. fr \in Frames /\ fr.node = Top.node /\ fr.todo = << >>
  BY <1>2, EmptiedFrame DEF Frames
<1>4. last \in Tasks(heap, Top.node, Top.item)
  BY <1>1, RuleSteps
<1>5. Grows(heap, heap')
  BY <1>1 DEF Grows
<1>. HIDE DEF fr, last
<1>6. /\ todo \in Seq(Tasks(heap, Top.node, Top.item)) /\ todo # << >> /\ Len(todo) = 1 /\ todo[1] = last
  BY <1>4
<1>7. todo[Len(todo)] = Last(Top.todo) /\ \A k \in 1 .. Len(todo) - 1 : todo[k].do \in {"rule", "action"}
  BY <1>6 DEF last
<1>. HIDE DEF todo
<1>. QED
  BY <1>1, <1>3, <1>5, <1>6, <1>7, ItemEnds, ItemStands

(* Converted metrics go on as they would have. *)
LEMMA ConvertMetricsOnce ==
    TypeInv /\ OnceInv /\ ConvertMetrics => OnceInv'
<1> SUFFICES ASSUME TypeInv, OnceInv, ConvertMetrics PROVE OnceInv'
  OBVIOUS
<1> DEFINE todo(converted) ==
              <<Call(Outputs[Top.node][1], <<Group("compact", Those(Entry.ids, converted)),
                                             Group("metric", Those(Entry.ids, ToSet(Entry.ids) \ converted))>>)>>
<1>1. PICK converted \in SUBSET ToSet(Entry.ids) : stack' = ReplaceTop([Top EXCEPT !.todo = todo(converted)])
  BY DEF ConvertMetrics, Proceed
<1>2. /\ Doing("convert") /\ UNCHANGED <<pc, heap, offers, begun, stopped>>
  BY DEF ConvertMetrics, history
<1>3. pc = "serve" /\ Top.todo # << >> /\ Head(Top.todo) = Entry /\ Head(Top.todo).do = "convert"
  BY <1>2 DEF Doing, Entry
<1>4. /\ stack \in Seq(Frames) /\ stack # << >> /\ Top = Last(stack) /\ FrameOK(heap, Top) /\ IsHeap(heap)
      /\ Top \in Frames /\ Neat(Top)
  BY <1>3, OnceServes
<1> DEFINE fr == [Top EXCEPT !.todo = todo(converted)]
<1>5. fr.node = Top.node /\ fr.todo = todo(converted)
  <2>. HIDE DEF todo
  <2>. QED
    BY <1>4 DEF Frames
<1>6. fr \in Frames
  <2>1. TypeInv'
    BY <1>3, ConvertMetricsTyped
  <2>2. stack' \in Seq(Frames) /\ stack' = Append(Front(stack), fr)
    BY <1>1, <2>1 DEF TypeInv, TypeOK, ReplaceTop
  <2>. HIDE DEF fr
  <2>3. Front(stack) \in Seq(Frames)
    BY <1>4, FrontLast
  <2>. QED
    BY <2>2, <2>3, AppendedIn
<1>7. Neat(fr) /\ \A e, i : Led(fr, e, i) = Led(Top, e, i)
  <2>1. fr.todo = <<Call(Outputs[Top.node][1],
                         <<Group("compact", Those(Head(Top.todo).ids, converted)),
                           Group("metric", Those(Head(Top.todo).ids, ToSet(Head(Top.todo).ids) \ converted))>>)>>
    BY <1>3, <1>5
  <2>. HIDE DEF fr, todo
  <2>. QED
    BY <1>3, <1>4, <1>5, <1>6, <2>1, Converted
<1>8. stack' = ReplaceTop(fr) /\ Grows(heap, heap')
  BY <1>1, <1>2 DEF Grows
<1>. HIDE DEF fr, todo
<1>9. /\ stack' = Append(Front(stack), fr) /\ stack' \in Seq(Frames)
      /\ \A k \in DOMAIN stack' : Neat(stack'[k])
      /\ \A k \in DOMAIN stack \cap DOMAIN stack' : stack'[k].node = stack[k].node
  BY <1>3, <1>5, <1>6, <1>7, <1>8, ReplacedFacts
<1>10. \A e, i : Ahead(stack', e, i) = Ahead(stack, e, i)
  BY <1>4, <1>5, <1>6, <1>7, <1>9, TopAhead
<1>. QED
  BY <1>2, <1>3, <1>8, <1>9, <1>10, OnceSame

(* A caller that takes a result goes on with what comes next, unless it is an action's. *)
LEMMA TookTail ==
    ASSUME NEW h, IsHeap(h), NEW fr, FrameOK(h, fr), Neat(fr), fr.todo # << >>, NEW r \in Results,
           \/ Head(fr.todo).do \in {"call", "process"}
           \/ Head(fr.todo).do = "action" /\ ~r.error
    PROVE  Took(fr, r) \in Frames /\ Took(fr, r).node = fr.node /\ Took(fr, r).todo = Tail(fr.todo)
           /\ Neat(Took(fr, r))
<1>1. fr \in Frames /\ fr.todo \in Seq(Entries)
  BY FrameType DEF Frames
<1>2. Took(fr, r) \in Frames /\ Took(fr, r).node = fr.node /\ Took(fr, r).item = fr.item
  BY TookFrame, FrameType
<1>3. Len(fr.todo) \in Nat \ {0} /\ DOMAIN fr.todo = 1 .. Len(fr.todo) /\ Head(fr.todo) = fr.todo[1]
  BY <1>1, LenProperties, EmptySeq
<1>4. /\ Tail(fr.todo) \in Seq(Entries) /\ Len(Tail(fr.todo)) = Len(fr.todo) - 1
      /\ \A k \in 1 .. Len(fr.todo) - 1 : Tail(fr.todo)[k] = fr.todo[k + 1]
      /\ DOMAIN Tail(fr.todo) = 1 .. Len(fr.todo) - 1
  <2>1. /\ Tail(fr.todo) \in Seq(Entries) /\ Len(Tail(fr.todo)) = Len(fr.todo) - 1
        /\ \A k \in 1 .. Len(Tail(fr.todo)) : Tail(fr.todo)[k] = fr.todo[k + 1]
    BY <1>1, HeadTailProperties
  <2>. QED
    BY <2>1, LenProperties
<1>5. Took(fr, r).todo = Tail(fr.todo)
  <2>1. CASE fr.item = None
    BY <1>1, <2>1 DEF Took, Frames
  <2>2. CASE fr.item # None /\ ~r.error
    BY <1>1, <2>2 DEF Took, Frames
  <2>3. CASE fr.item # None /\ r.error
    <3>1. Head(fr.todo).do = "call"
      BY <2>3, ProcessFacts
    <3>2. Role[fr.node] = "zenoss" \/ Role[fr.node] = "processor"
      BY <2>3 DEF FrameOK, ItemOf
    <3>3. Len(fr.todo) = 1
      <4>1. CASE Role[fr.node] = "zenoss"
        BY <4>1 DEF Neat
      <4>2. CASE Role[fr.node] = "processor"
        <5>1. \A k \in 1 .. Len(fr.todo) - 1 : fr.todo[k].do \in {"rule", "action"}
          BY <2>3, <4>2 DEF Neat
        <5>2. SUFFICES ASSUME Len(fr.todo) # 1 PROVE FALSE
          OBVIOUS
        <5>3. 1 \in 1 .. Len(fr.todo) - 1
          <6> DEFINE m == Len(fr.todo)
          <6>1. m \in Nat \ {0} /\ m # 1
            BY <1>3, <5>2
          <6>. HIDE DEF m
          <6>2. 1 \in 1 .. m - 1
            BY <6>1
          <6>. QED
            BY <6>2 DEF m
        <5>. QED
          BY <1>3, <3>1, <5>1, <5>3
      <4>. QED
        BY <3>2, <4>1, <4>2
    <3>4. Tail(fr.todo) = << >>
      BY <1>4, <3>3, EmptySeq
    <3>. QED
      BY <1>1, <2>3, <3>4 DEF Took, Frames
  <2>. QED
    BY <2>1, <2>2, <2>3
<1> DEFINE t == Took(fr, r)
           tail == Tail(fr.todo)
<1>. HIDE DEF t, tail
<1>6. Neat(t)
  <2>1. t.node = fr.node /\ t.item = fr.item /\ t.todo = tail
    BY <1>2, <1>5 DEF t, tail
  <2>2. /\ Len(tail) = Len(fr.todo) - 1 /\ DOMAIN tail = 1 .. Len(fr.todo) - 1
        /\ \A k \in 1 .. Len(fr.todo) - 1 : tail[k] = fr.todo[k + 1]
    BY <1>4 DEF tail
  <2>3. \A k \in DOMAIN tail : Plain(tail[k])
    <3>1. \A k \in 1 .. Len(fr.todo) - 1 : k + 1 \in 1 .. Len(fr.todo)
      BY <1>3
    <3>. QED
      BY <1>3, <2>2, <3>1 DEF Neat
  <2>4. Role[t.node] = "zenoss" => tail = << >>
    <3>1. Role[fr.node] = "zenoss" => Len(fr.todo) = 1
      BY DEF Neat
    <3>2. Role[fr.node] = "zenoss" => Len(tail) = 0
      BY <1>4, <3>1 DEF tail
    <3>3. tail \in Seq(Entries)
      BY <1>4 DEF tail
    <3>. QED
      BY <2>1, <3>2, <3>3, EmptySeq
  <2>5. ASSUME Role[t.node] = "processor", t.item # None, tail # << >>
        PROVE  /\ \E kind \in RuleKinds :
                      tail[Len(tail)] = Call(Outputs[t.node][1], <<Group(kind, <<t.item>>)>>)
               /\ \A k \in 1 .. Len(tail) - 1 : tail[k].do \in {"rule", "action"}
    <3>1. Len(tail) \in Nat /\ Len(tail) > 0
      BY <1>4, <2>5, EmptySeq DEF tail
    <3>2. Len(tail) + 1 = Len(fr.todo) /\ Len(tail) \in 1 .. Len(fr.todo) - 1
      BY <1>3, <2>2, <3>1
    <3>3. /\ \E kind \in RuleKinds :
                fr.todo[Len(fr.todo)] = Call(Outputs[fr.node][1], <<Group(kind, <<fr.item>>)>>)
          /\ \A k \in 1 .. Len(fr.todo) - 1 : fr.todo[k].do \in {"rule", "action"}
      BY <2>1, <2>5 DEF Neat
    <3>4. tail[Len(tail)] = fr.todo[Len(fr.todo)]
      BY <2>2, <3>2
    <3>5. ASSUME NEW k \in 1 .. Len(tail) - 1 PROVE tail[k].do \in {"rule", "action"}
      <4>1. k \in 1 .. Len(fr.todo) - 1 /\ k + 1 \in 1 .. Len(fr.todo) - 1
        BY <3>1, <3>2
      <4>. QED
        BY <2>2, <3>3, <4>1
    <3>. QED
      BY <2>1, <3>3, <3>4, <3>5
  <2>. QED
    BY <2>1, <2>3, <2>4, <2>5 DEF Neat
<1>. QED
  BY <1>2, <1>5, <1>6 DEF t

(* Who a call with items is for. *)
LEMMA CallAims ==
    ASSUME TypeInv, OnceInv, Doing("call")
    PROVE  /\ pc = "serve" /\ Top.todo # << >> /\ Entry = Head(Top.todo) /\ Entry.do = "call"
           /\ Distinct(Entry.groups) /\ Target \in Nodes /\ Role[Target] # "proxy"
           /\ \A e, i : Tip(stack) \in Spots(stack, offers, e, i) <=>
                            e \in Reached(Entry.to) /\ i \in Items(Entry.groups)
           /\ Reached(Target) \subseteq Reached(Entry.to) /\ Reached(Entry.to) \subseteq Endpoints
           /\ Firm(stack, Tip(stack)) => Entry.to = Target
<1>1. /\ pc = "serve" /\ Top.todo # << >> /\ Entry = Head(Top.todo) /\ Entry.do = "call"
      /\ Target \in Nodes
      /\ \/ Target = Entry.to
         \/ Role[Top.node] = "proxy" /\ Target \in Receivers
      /\ Role[Top.node] = "writer" => Role[Target] \in {"log", "zenoss"}
      /\ Role[Top.node] # "writer" => Target \in Receivers
  BY CallFacts DEF Entry
<1>2. /\ stack \in Seq(Frames) /\ stack # << >> /\ Top = Last(stack) /\ FrameOK(heap, Top) /\ IsHeap(heap)
      /\ Top \in Frames /\ Neat(Top) /\ Len(stack) \in Nat \ {0}
  BY <1>1, OnceServes
<1>3. /\ Top.todo \in Seq(Entries) /\ Len(Top.todo) \in Nat \ {0} /\ DOMAIN Top.todo = 1 .. Len(Top.todo)
      /\ Entry = Top.todo[1] /\ Top.node \in Nodes
  <2>1. Top.todo \in Seq(Entries) /\ Top.node \in Nodes
    BY <1>2 DEF Frames
  <2>. QED
    BY <1>1, <2>1, LenProperties, EmptySeq
<1>4. Distinct(Entry.groups)
  <2>1. Plain(Entry)
    BY <1>2, <1>3 DEF Neat
  <2>. QED
    BY <1>1, <2>1 DEF Plain
<1>5. Role[Target] # "proxy"
  BY <1>1 DEF Receivers
<1>6. ASSUME NEW e, NEW i
      PROVE  Tip(stack) \in Spots(stack, offers, e, i) <=> e \in Reached(Entry.to) /\ i \in Items(Entry.groups)
  <2>1. Tip(stack) \in Ahead(stack, e, i) <=> e \in Reached(Entry.to) /\ i \in Items(Entry.groups)
    BY <1>1, <1>2, TipLeads, BringsWhat
  <2>2. Tip(stack)[1] # 0
    BY <1>2 DEF Tip
  <2>. QED
    BY <2>1, <2>2 DEF Spots
<1>7. Role[Top.node] = "proxy" => Role[Entry.to] = "proxy"
  <2>1. SUFFICES ASSUME Role[Top.node] = "proxy" PROVE Role[Entry.to] = "proxy"
    OBVIOUS
  <2>2. Entry \in Singles(heap, {Top.node})
    <3>1. Entry \in Tasks(heap, Top.node, Top.item)
      BY <1>1, <1>2, TaskFacts
    <3>. QED
      BY <2>1, <3>1 DEF Tasks
  <2>. QED
    BY <1>2, <1>3, <2>1, <2>2, SingleFacts
<1>8. Reached(Target) \subseteq Reached(Entry.to)
  <2>1. Reached(Target) \subseteq Endpoints
    BY <1>1, ReachedEndpoints
  <2>2. Role[Entry.to] = "proxy" => Reached(Entry.to) = Endpoints
    BY DEF Reached
  <2>. QED
    BY <1>1, <1>7, <2>1, <2>2
<1>9. Firm(stack, Tip(stack)) => Entry.to = Target
  <2>1. Tip(stack)[1] = Len(stack) /\ stack[Len(stack)] = Top
    BY <1>2, FrontLast DEF Tip
  <2>. QED
    BY <1>1, <1>2, <2>1 DEF Firm
<1>10. Reached(Entry.to) \subseteq Endpoints
  <2>1. Role[Entry.to] = "proxy" => Reached(Entry.to) = Endpoints
    BY DEF Reached
  <2>. QED
    BY <1>1, <1>7, <2>1, ReachedEndpoints
<1>. QED
  BY <1>1, <1>4, <1>5, <1>6, <1>8, <1>9, <1>10

(* A step that moves on what the entry under way brings, and nothing else. *)
LEMMA OnceMoves ==
    ASSUME TypeInv, OnceInv, pc = "serve", UNCHANGED <<pc, begun, stopped>>, Grows(heap, heap'),
           stack' \in Seq(Frames), \A k \in DOMAIN stack' : Neat(stack'[k]),
           \A k \in DOMAIN stack \cap DOMAIN stack' : stack'[k].node = stack[k].node,
           \A j \in DOMAIN offers' : offers'[j].item \in DOMAIN heap' /\ offers'[j].at \in Endpoints,
           \A e \in Endpoints : \A i : \A p, q \in Spots(stack', offers', e, i) : p = q,
           \A e \in Endpoints : \A i \in DOMAIN heap :
               Tip(stack) \notin Spots(stack, offers, e, i) =>
                   Spots(stack', offers', e, i) = Spots(stack, offers, e, i),
           \A e \in Endpoints : \A i \in OfKinds(heap, RuleKinds) :
               Tip(stack) \in Spots(stack, offers, e, i) /\ Firm(stack, Tip(stack)) =>
                   Sent(stack', offers', e, i)
    PROVE  OnceInv'
<1>1. stack \in Seq(Frames)
  BY DEF TypeInv, TypeOK
<1>2. ASSUME NEW e \in Endpoints, NEW i \in OfKinds(heap, RuleKinds), Sent(stack, offers, e, i)
      PROVE  Sent(stack', offers', e, i)
  <2>1. PICK p \in Spots(stack, offers, e, i) : Firm(stack, p)
    BY <1>2 DEF Sent
  <2>2. CASE Tip(stack) \in Spots(stack, offers, e, i)
    <3>1. p = Tip(stack)
      BY <2>2 DEF OnceInv, Sole
    <3>. QED
      BY <2>1, <2>2, <3>1
  <2>3. CASE Tip(stack) \notin Spots(stack, offers, e, i)
    <3>1. p \in Spots(stack, offers, e, i) \cap Spots(stack', offers', e, i)
      BY <2>3 DEF OfKinds
    <3>2. Firm(stack', p)
      BY <1>1, <2>1, <3>1, FirmStays
    <3>. QED
      BY <3>1, <3>2 DEF Sent
  <2>. QED
    BY <2>2, <2>3
<1>3. \A e \in Endpoints : \A i \in DOMAIN heap :
          Spots(stack, offers, e, i) = {} => Spots(stack', offers', e, i) = {}
  OBVIOUS
<1>4. begun' \ begun = {} /\ stopped' \ stopped = {} /\ begun \subseteq begun' /\ stopped \subseteq stopped'
  OBVIOUS
<1>5. /\ Barred(stack', offers', stopped' \ stopped)
      /\ Promised(stack', offers', begun' \ begun, stopped')
  BY <1>4 DEF Barred, Promised
<1>. QED
  BY <1>2, <1>3, <1>4, <1>5, OnceStep

(* A call moves what it is made with into its own frame, or makes new items for it. *)
LEMMA CallOutputOnce ==
    ASSUME OnePath
    PROVE  TypeInv /\ OnceInv /\ CallOutput => OnceInv'
<1> SUFFICES ASSUME TypeInv, OnceInv, CallOutput PROVE OnceInv'
  OBVIOUS
<1> DEFINE to == Target
           groups == Entry.groups
           fr == Enter(to, groups)
<1>1. /\ Doing("call") /\ Role[to] # "endpoint" /\ ~Unimplemented(to, groups)
      /\ stack' = Append(stack, fr) /\ heap' = EnterHeap(to, groups)
      /\ UNCHANGED <<pc, offers, begun, stopped>>
  BY DEF CallOutput
<1>2. /\ pc = "serve" /\ Top.todo # << >> /\ Distinct(groups) /\ to \in Nodes /\ Role[to] # "proxy"
      /\ \A e, i : Tip(stack) \in Spots(stack, offers, e, i) <=> e \in Reached(Entry.to) /\ i \in Items(groups)
      /\ Reached(to) \subseteq Reached(Entry.to) /\ Reached(Entry.to) \subseteq Endpoints
      /\ Firm(stack, Tip(stack)) => Entry.to = to
  BY <1>1, CallAims
<1>3. /\ stack \in Seq(Frames) /\ stack # << >> /\ Top = Last(stack) /\ IsHeap(heap)
      /\ Len(stack) \in Nat \ {0} /\ Len(stack) + 1 # 0
  BY <1>2, OnceServes
<1>4. Acceptable(heap, to, groups)
  BY <1>1, CallFacts
<1>5. /\ IsHeap(EnterHeap(to, groups)) /\ Keeps(heap, EnterHeap(to, groups))
      /\ FrameOK(EnterHeap(to, groups), fr) /\ fr.node = to
  BY <1>1, EnteredCall
<1>. HIDE DEF to, groups, fr
<1>6. IsHeap(heap') /\ Grows(heap, heap') /\ fr \in Frames
  BY <1>1, <1>5, FrameType DEF Keeps
<1>7. Neat(fr)
  BY <1>2, <1>3, <1>4, EnteredLeads, ZenossLeads DEF fr
<1>8. /\ stack' \in Seq(Frames) /\ DOMAIN stack' = 1 .. Len(stack) + 1 /\ stack'[Len(stack) + 1] = fr
      /\ \A k \in DOMAIN stack' : Neat(stack'[k])
      /\ \A k \in DOMAIN stack \cap DOMAIN stack' : stack'[k].node = stack[k].node
  BY <1>1, <1>3, <1>6, <1>7, AppendFacts, NeatStack DEF OnceInv
<1>9. \A e, i : Ahead(stack', e, i) = (Ahead(stack, e, i) \ {Tip(stack)}) \cup ({Len(stack) + 1} \X Led(fr, e, i))
  BY <1>1, <1>2, <1>3, <1>6, AheadPushed
<1>10. \A j \in DOMAIN offers' : offers'[j].item \in DOMAIN heap' /\ offers'[j].at \in Endpoints
  BY <1>1, <1>6 DEF OnceInv, Grows
<1>11. \A e, i : \A b, c \in Led(fr, e, i) : b = c
  BY <1>2, <1>3, <1>4, EnteredLeads, ZenossLeads DEF fr
(* What is not under way stays, and what is has the frame for its only place. *)
<1>12. ASSUME NEW e, NEW i
       PROVE  /\ Led(fr, e, i) = {} /\ Tip(stack) \notin Spots(stack, offers, e, i) =>
                     Spots(stack', offers', e, i) = Spots(stack, offers, e, i)
              /\ Spots(stack, offers, e, i) \subseteq {Tip(stack)} =>
                     Spots(stack', offers', e, i) = {Len(stack) + 1} \X Led(fr, e, i)
              /\ Spots(stack, offers, e, i) \subseteq {Tip(stack)} =>
                     \A p, q \in Spots(stack', offers', e, i) : p = q
  <2>1. Tip(stack) \notin {0} \X Offered(offers, e, i)
    BY <1>3 DEF Tip
  <2>2. Spots(stack, offers, e, i) = ({0} \X Offered(offers, e, i)) \cup Ahead(stack, e, i)
    BY DEF Spots
  <2>3. Spots(stack', offers', e, i) =
            ({0} \X Offered(offers, e, i)) \cup (Ahead(stack, e, i) \ {Tip(stack)})
                \cup ({Len(stack) + 1} \X Led(fr, e, i))
    BY <1>1, <1>9 DEF Spots
  <2>4. Spots(stack, offers, e, i) \subseteq {Tip(stack)} =>
            Spots(stack', offers', e, i) = {Len(stack) + 1} \X Led(fr, e, i)
    BY <2>1, <2>2, <2>3
  <2>5. \A p, q \in {Len(stack) + 1} \X Led(fr, e, i) : p = q
    BY <1>11
  <2>. QED
    BY <2>2, <2>3, <2>4, <2>5
<1>13. CASE Role[to] # "zenoss"
  <2>1. ASSUME NEW e, NEW i
        PROVE  /\ Led(fr, e, i) # {} => e \in Reached(to) /\ i \in Items(groups)
               /\ e \in Reached(to) /\ i \in Items(groups) => Led(fr, e, i) # {}
    BY <1>2, <1>3, <1>4, <1>13, EnteredLeads DEF fr
  <2>2. \A e, i : Tip(stack) \notin Spots(stack, offers, e, i) => Led(fr, e, i) = {}
    BY <1>2, <2>1
  <2>3. ASSUME NEW e \in Endpoints, NEW i, Tip(stack) \in Spots(stack, offers, e, i)
        PROVE  Spots(stack, offers, e, i) = {Tip(stack)}
    BY <2>3 DEF OnceInv, Sole
  <2>4. \A e \in Endpoints : \A i : \A p, q \in Spots(stack', offers', e, i) : p = q
    <3>1. SUFFICES ASSUME NEW e \in Endpoints, NEW i PROVE \A p, q \in Spots(stack', offers', e, i) : p = q
      OBVIOUS
    <3>2. CASE Tip(stack) \in Spots(stack, offers, e, i)
      BY <1>12, <2>3, <3>2
    <3>3. CASE Tip(stack) \notin Spots(stack, offers, e, i)
      BY <1>12, <2>2, <3>3 DEF OnceInv, Sole
    <3>. QED
      BY <3>2, <3>3
  <2>5. \A e \in Endpoints : \A i \in DOMAIN heap :
            Tip(stack) \notin Spots(stack, offers, e, i) =>
                Spots(stack', offers', e, i) = Spots(stack, offers, e, i)
    BY <1>12, <2>2
  <2>6. ASSUME NEW e \in Endpoints, NEW i, Tip(stack) \in Spots(stack, offers, e, i), Firm(stack, Tip(stack))
        PROVE  Sent(stack', offers', e, i)
    <3>1. e \in Reached(to) /\ i \in Items(groups)
      BY <1>2, <2>6
    <3>2. PICK b \in Led(fr, e, i) : TRUE
      BY <2>1, <3>1
    <3>3. <<Len(stack) + 1, b>> \in Spots(stack', offers', e, i)
      BY <1>9, <3>2 DEF Spots
    <3>4. Firm(stack', <<Len(stack) + 1, b>>)
      BY <1>2, <1>5, <1>8 DEF Firm, fr
    <3>. QED
      BY <3>3, <3>4 DEF Sent
  <2>. QED
    BY <1>1, <1>2, <1>6, <1>8, <1>10, <2>4, <2>5, <2>6, OnceMoves
<1>14. CASE Role[to] = "zenoss"
  <2>1. \A e, i : Tip(stack) \notin Spots(stack, offers, e, i)
    <3>1. Role[Top.node] = "writer" /\ Entry.to = to
      <4>1. to \notin Receivers
        BY <1>14 DEF Receivers
      <4>. QED
        BY <1>1, <4>1, CallFacts DEF to, Entry
    <3>2. Reached(to) = {}
      BY <1>2, <1>14, ReachedEndpoints
    <3>. QED
      BY <1>2, <3>1, <3>2
  <2>2. \A e, i : Led(fr, e, i) # {} => i \notin DOMAIN heap
    BY <1>3, <1>4, <1>14, ZenossLeads DEF fr
  <2>3. ASSUME NEW e, NEW i, i \notin DOMAIN heap PROVE Spots(stack, offers, e, i) = {}
    BY <1>3, <2>3, SpotsKnown DEF OnceInv, TypeInv, Shape
  <2>4. \A e \in Endpoints : \A i : \A p, q \in Spots(stack', offers', e, i) : p = q
    <3>1. SUFFICES ASSUME NEW e \in Endpoints, NEW i PROVE \A p, q \in Spots(stack', offers', e, i) : p = q
      OBVIOUS
    <3>2. CASE i \notin DOMAIN heap
      BY <1>12, <2>3, <3>2
    <3>3. CASE i \in DOMAIN heap
      BY <1>12, <2>1, <2>2, <3>3 DEF OnceInv, Sole
    <3>. QED
      BY <3>2, <3>3
  <2>5. \A e \in Endpoints : \A i \in DOMAIN heap :
            Tip(stack) \notin Spots(stack, offers, e, i) =>
                Spots(stack', offers', e, i) = Spots(stack, offers, e, i)
    BY <1>12, <2>1, <2>2
  <2>. QED
    BY <1>1, <1>2, <1>6, <1>8, <1>10, <2>1, <2>4, <2>5, OnceMoves
<1>. QED
  BY <1>13, <1>14

(* The entry under way is over, and nothing else has changed on the stack. *)
LEMMA Delivered ==
    ASSUME TypeInv, OnceInv, Doing("call"), NEW r \in Results, stack' = Deliver(stack, r)
    PROVE  /\ stack' \in Seq(Frames) /\ \A k \in DOMAIN stack' : Neat(stack'[k])
           /\ \A k \in DOMAIN stack \cap DOMAIN stack' : stack'[k].node = stack[k].node
           /\ \A e, i : Ahead(stack', e, i) = Ahead(stack, e, i) \ {Tip(stack)}
<1> DEFINE fr == Took(Top, r)
<1>1. pc = "serve" /\ Top.todo # << >> /\ Head(Top.todo).do = "call"
  BY DEF Doing, Entry
<1>2. /\ stack \in Seq(Frames) /\ stack # << >> /\ Top = Last(stack) /\ FrameOK(heap, Top) /\ IsHeap(heap)
      /\ Neat(Top)
  BY <1>1, OnceServes
<1>3. fr \in Frames /\ fr.node = Top.node /\ fr.todo = Tail(Top.todo) /\ Neat(fr)
  BY <1>1, <1>2, TookTail
<1>4. stack' = ReplaceTop(fr)
  BY <1>2 DEF Deliver, ReplaceTop
<1>. HIDE DEF fr
<1>5. /\ stack' = Append(Front(stack), fr) /\ stack' \in Seq(Frames)
      /\ \A k \in DOMAIN stack' : Neat(stack'[k])
      /\ \A k \in DOMAIN stack \cap DOMAIN stack' : stack'[k].node = stack[k].node
  BY <1>1, <1>3, <1>4, ReplacedFacts
<1>6. \A e, i : Ahead(stack', e, i) = Ahead(stack, e, i) \ {Tip(stack)}
  BY <1>1, <1>2, <1>3, <1>5, TopAhead
<1>. QED
  BY <1>5, <1>6

(* Only events are turned away. *)
LEMMA CallUnimplementedOnce ==
    TypeInv /\ OnceInv /\ CallUnimplemented => OnceInv'
<1> SUFFICES ASSUME TypeInv, OnceInv, CallUnimplemented PROVE OnceInv'
  OBVIOUS
<1> DEFINE groups == Entry.groups
<1>1. /\ Doing("call") /\ Unimplemented(Target, groups) /\ stack' = Deliver(stack, Error)
      /\ UNCHANGED <<pc, heap, offers, begun, stopped>>
  BY DEF CallUnimplemented
<1>2. /\ pc = "serve" /\ Top.todo # << >> /\ Entry = Head(Top.todo) /\ Entry.do = "call"
      /\ \A e, i : Tip(stack) \in Spots(stack, offers, e, i) <=> e \in Reached(Entry.to) /\ i \in Items(groups)
  BY <1>1, CallAims
<1>3. Error \in Results /\ Grows(heap, heap')
  BY <1>1 DEF Error, Result, Results, Grows
<1>4. /\ stack' \in Seq(Frames) /\ \A k \in DOMAIN stack' : Neat(stack'[k])
      /\ \A k \in DOMAIN stack \cap DOMAIN stack' : stack'[k].node = stack[k].node
      /\ \A e, i : Ahead(stack', e, i) = Ahead(stack, e, i) \ {Tip(stack)}
  BY <1>1, <1>3, Delivered
<1>5. \A e, i : /\ Spots(stack', offers', e, i) \subseteq Spots(stack, offers, e, i)
                /\ Tip(stack) \notin Spots(stack, offers, e, i) =>
                       Spots(stack', offers', e, i) = Spots(stack, offers, e, i)
  BY <1>1, <1>4 DEF Spots
<1>6. ASSUME NEW i \in OfKinds(heap, RuleKinds) PROVE i \notin Items(groups)
  <2>1. Role[Target] \in {"proxy", "processor"} /\ \E g \in DOMAIN groups : groups[g].kind = "event"
    BY <1>1 DEF Unimplemented
  <2>2. Role[Top.node] # "writer" /\ groups \in Seq(Sendable(heap))
    BY <1>1, <2>1, CallFacts
  <2>3. Role[Top.node] # "zenoss"
    <3>1. Top \in Frames /\ Neat(Top) /\ Len(Top.todo) \in Nat \ {0} /\ Entry = Top.todo[1]
      <4>1. Top \in Frames /\ Neat(Top) /\ Top.todo \in Seq(Entries)
        BY <1>2, OnceServes DEF Frames
      <4>. QED
        BY <1>2, <4>1, LenProperties, EmptySeq
    <3>2. Role[Top.node] = "zenoss" => \A g \in DOMAIN groups : groups[g].kind # "event"
      BY <1>2, <3>1 DEF Neat
    <3>. QED
      BY <2>1, <3>2
  <2>4. groups = <<groups[1]>> /\ Len(groups) = 1
    BY <1>1, <2>2, <2>3, CallFacts
  <2>5. DOMAIN groups = {1} /\ groups[1] \in Sendable(heap)
    BY <2>2, <2>4, LenProperties, ElementOfSeq
  <2>. HIDE DEF groups
  <2>6. groups[1].kind = "event" /\ \A j \in DOMAIN groups[1].ids : heap[groups[1].ids[j]].kind = "event"
    BY <2>1, <2>5 DEF Sendable
  <2>7. i \in Items(groups) => heap[i].kind = "event"
    BY <2>5, <2>6 DEF Items, Range
  <2>. QED
    BY <2>7 DEF OfKinds, RuleKinds
<1>. HIDE DEF groups
<1>7. \A e \in Endpoints : \A i : \A p, q \in Spots(stack', offers', e, i) : p = q
  BY <1>5 DEF OnceInv, Sole
<1>8. \A j \in DOMAIN offers' : offers'[j].item \in DOMAIN heap' /\ offers'[j].at \in Endpoints
  BY <1>1 DEF OnceInv
<1>. QED
  BY <1>1, <1>2, <1>3, <1>4, <1>5, <1>6, <1>7, <1>8, OnceMoves

(* More offers. *)
LEMMA OfferedMore ==
    ASSUME NEW os \in Seq(Offers), NEW g \in Seq(Offers), NEW e, NEW i
    PROVE  /\ Len(os) \in Nat
           /\ Offered(os \o g, e, i) = Offered(os, e, i) \cup {Len(os) + j : j \in Offered(g, e, i)}
           /\ \A j \in DOMAIN (os \o g) : \/ j \in DOMAIN os /\ (os \o g)[j] = os[j]
                                          \/ \E k \in DOMAIN g : (os \o g)[j] = g[k]
<1> DEFINE t == os \o g
           m == Len(os)
           n == Len(g)
<1>1. /\ m \in Nat /\ n \in Nat /\ DOMAIN os = 1 .. m /\ DOMAIN g = 1 .. n
  BY LenProperties
<1>2. /\ t \in Seq(Offers) /\ Len(t) = m + n
      /\ \A k \in 1 .. m + n : t[k] = IF k <= m THEN os[k] ELSE g[k - m]
  BY ConcatProperties
<1>3. DOMAIN t = 1 .. m + n
  BY <1>2, LenProperties
<1>. HIDE DEF t, m, n
<1>4. ASSUME NEW j PROVE j \in Offered(t, e, i) <=> j \in Offered(os, e, i) \cup {m + k : k \in Offered(g, e, i)}
  <2>1. j \in Offered(t, e, i) <=> j \in 1 .. m + n /\ t[j].at = e /\ t[j].item = i
    BY <1>3 DEF Offered
  <2>2. j \in Offered(os, e, i) <=> j \in 1 .. m /\ os[j].at = e /\ os[j].item = i
    BY <1>1 DEF Offered
  <2>3. \A k : k \in Offered(g, e, i) <=> k \in 1 .. n /\ g[k].at = e /\ g[k].item = i
    BY <1>1 DEF Offered
  <2>4. j \in {m + k : k \in Offered(g, e, i)} <=> \E k \in 1 .. n : j = m + k /\ g[k].at = e /\ g[k].item = i
    BY <2>3
  <2>5. CASE j \in 1 .. m
    <3>1. j \in 1 .. m + n /\ t[j] = os[j] /\ \A k \in 1 .. n : j # m + k
      BY <1>1, <1>2, <2>5
    <3>. QED
      BY <2>1, <2>2, <2>4, <2>5, <3>1
  <2>6. CASE j \in m + 1 .. m + n
    <3>1. j \in 1 .. m + n /\ t[j] = g[j - m] /\ j - m \in 1 .. n /\ j = m + (j - m) /\ j \notin 1 .. m
          /\ \A k \in 1 .. n : j = m + k => k = j - m
      BY <1>1, <1>2, <2>6
    <3>. QED
      BY <2>1, <2>2, <2>4, <3>1
  <2>7. CASE j \notin 1 .. m /\ j \notin m + 1 .. m + n
    <3>1. j \notin 1 .. m + n /\ \A k \in 1 .. n : j # m + k
      BY <1>1, <2>7
    <3>. QED
      BY <2>1, <2>2, <2>4, <2>7, <3>1
  <2>. QED
    BY <2>5, <2>6, <2>7
<1>5. ASSUME NEW j \in DOMAIN t
      PROVE  \/ j \in DOMAIN os /\ t[j] = os[j]
             \/ \E k \in DOMAIN g : t[j] = g[k]
  <2>1. CASE j <= m
    BY <1>1, <1>2, <1>3, <2>1
  <2>2. CASE ~(j <= m)
    <3>1. j - m \in 1 .. n /\ t[j] = g[j - m]
      BY <1>1, <1>2, <1>3, <2>2
    <3>. QED
      BY <1>1, <3>1
  <2>. QED
    BY <2>1, <2>2
<1>. QED
  BY <1>1, <1>4, <1>5 DEF t, m

(* An endpoint is offered what is brought to it. *)
LEMMA CallEndpointOnce ==
    TypeInv /\ OnceInv /\ CallEndpoint => OnceInv'
<1> SUFFICES ASSUME TypeInv, OnceInv, CallEndpoint PROVE OnceInv'
  OBVIOUS
<1> DEFINE groups == Entry.groups
           to == Target
<1>1. /\ Doing("call") /\ Role[to] = "endpoint" /\ groups \in Seq(Sendable(heap))
      /\ UNCHANGED <<pc, heap, begun, stopped>>
  BY EndpointSteps
<1>2. PICK fates \in [1 .. Count(groups) -> Fates] :
         \E r \in Results : offers' = offers \o Given(to, groups, fates) /\ stack' = Deliver(stack, r)
  BY EndpointSteps
<1>3. PICK r \in Results : offers' = offers \o Given(to, groups, fates) /\ stack' = Deliver(stack, r)
  BY <1>2
<1>4. /\ pc = "serve" /\ Distinct(groups) /\ to \in Nodes
      /\ \A e, i : Tip(stack) \in Spots(stack, offers, e, i) <=> e \in Reached(Entry.to) /\ i \in Items(groups)
      /\ Reached(to) \subseteq Reached(Entry.to)
      /\ Firm(stack, Tip(stack)) => Entry.to = to
  BY <1>1, CallAims
<1>5. /\ stack' \in Seq(Frames) /\ \A k \in DOMAIN stack' : Neat(stack'[k])
      /\ \A k \in DOMAIN stack \cap DOMAIN stack' : stack'[k].node = stack[k].node
      /\ \A e, i : Ahead(stack', e, i) = Ahead(stack, e, i) \ {Tip(stack)}
  BY <1>1, <1>3, Delivered
<1>6. IsHeap(heap) /\ Grows(heap, heap') /\ offers \in Seq(Offers) /\ Tip(stack)[1] # 0
  BY <1>1, <1>4, OnceServes DEF Grows, TypeInv, TypeOK, Tip
<1> DEFINE given == Given(to, groups, fates)
<1>7. /\ given \in Seq(Offers)
      /\ \A j \in DOMAIN given : given[j].at = to /\ given[j].item \in DOMAIN heap
  BY <1>1, <1>4, <1>6, GivenFacts
<1>8. /\ \A j \in DOMAIN given : given[j].item \in Items(groups)
      /\ \A i \in Items(groups) : \E j \in DOMAIN given : given[j].item = i
      /\ \A j, k \in DOMAIN given : given[j].item = given[k].item => j = k
  <2>1. IsHeap(heap) /\ groups \in Seq(Sendable(heap)) /\ Distinct(groups)
    BY <1>1, <1>4, <1>6
  <2>. HIDE DEF to, groups
  <2>2. given = Given(to, groups, fates)
    OBVIOUS
  <2>. HIDE DEF given
  <2>. QED
    BY <2>1, <2>2, GivenItems
<1>9. to \in Endpoints /\ Reached(to) = {to}
  <2>1. to \in Endpoints
    BY <1>1, <1>4 DEF Endpoints
  <2>. QED
    BY <1>1, <2>1, BehindEndpoint DEF Reached
<1>. HIDE DEF to, groups, given
<1>10. ASSUME NEW e, NEW i
       PROVE  /\ Offered(given, e, i) # {} <=> e = to /\ i \in Items(groups)
              /\ \A j, k \in Offered(given, e, i) : j = k
  <2>1. \A j : j \in Offered(given, e, i) <=> j \in DOMAIN given /\ e = to /\ given[j].item = i
    BY <1>7 DEF Offered
  <2>. QED
    BY <1>8, <2>1
<1>11. \A e, i : Offered(offers', e, i) = Offered(offers, e, i) \cup {Len(offers) + j : j \in Offered(given, e, i)}
  BY <1>3, <1>6, <1>7, OfferedMore DEF given
<1>12. \A e, i : Tip(stack) \notin Spots(stack, offers, e, i) =>
             Spots(stack', offers', e, i) = Spots(stack, offers, e, i)
  <2>1. SUFFICES ASSUME NEW e, NEW i, Tip(stack) \notin Spots(stack, offers, e, i)
                 PROVE  Spots(stack', offers', e, i) = Spots(stack, offers, e, i)
    OBVIOUS
  <2>2. Offered(given, e, i) = {}
    BY <1>4, <1>9, <1>10, <2>1
  <2>3. Offered(offers', e, i) = Offered(offers, e, i)
    <3>1. Offered(offers', e, i) = Offered(offers, e, i) \cup {Len(offers) + j : j \in Offered(given, e, i)}
      BY <1>11
    <3>2. {Len(offers) + j : j \in Offered(given, e, i)} = {}
      BY <2>2
    <3>. QED
      BY <3>1, <3>2
  <2>. QED
    BY <1>5, <2>1, <2>3 DEF Spots
<1>13. ASSUME NEW e \in Endpoints, NEW i, Tip(stack) \in Spots(stack, offers, e, i)
       PROVE  Spots(stack', offers', e, i) = {0} \X {Len(offers) + j : j \in Offered(given, e, i)}
  <2>1. \A p \in Spots(stack, offers, e, i) : p = Tip(stack)
    BY <1>13 DEF OnceInv, Sole
  <2>2. Offered(offers, e, i) = {}
    <3>1. \A j \in Offered(offers, e, i) : <<0, j>> \in Spots(stack, offers, e, i) /\ <<0, j>>[1] = 0
      BY DEF Spots
    <3>. QED
      BY <1>6, <2>1, <3>1
  <2>3. Ahead(stack', e, i) = {}
    BY <1>5, <2>1 DEF Spots
  <2>4. Offered(offers', e, i) = {Len(offers) + j : j \in Offered(given, e, i)}
    BY <1>11, <2>2
  <2>. QED
    BY <2>3, <2>4 DEF Spots
<1>14. \A e \in Endpoints : \A i : \A p, q \in Spots(stack', offers', e, i) : p = q
  <2>1. SUFFICES ASSUME NEW e \in Endpoints, NEW i PROVE \A p, q \in Spots(stack', offers', e, i) : p = q
    OBVIOUS
  <2>2. CASE Tip(stack) \in Spots(stack, offers, e, i)
    BY <1>10, <1>13, <2>2
  <2>3. CASE Tip(stack) \notin Spots(stack, offers, e, i)
    BY <1>12, <2>3 DEF OnceInv, Sole
  <2>. QED
    BY <2>2, <2>3
<1>15. ASSUME NEW e \in Endpoints, NEW i, Tip(stack) \in Spots(stack, offers, e, i), Firm(stack, Tip(stack))
       PROVE  Sent(stack', offers', e, i)
  <2>1. e = to /\ i \in Items(groups)
    BY <1>4, <1>9, <1>15
  <2>2. PICK j \in Offered(given, e, i) : TRUE
    BY <1>10, <2>1
  <2>3. <<0, Len(offers) + j>> \in Spots(stack', offers', e, i) /\ <<0, Len(offers) + j>>[1] = 0
    BY <1>13, <1>15
  <2>. QED
    BY <2>3 DEF Sent, Firm
<1>16. \A j \in DOMAIN offers' : offers'[j].item \in DOMAIN heap' /\ offers'[j].at \in Endpoints
  <2>1. SUFFICES ASSUME NEW j \in DOMAIN offers' PROVE offers'[j].item \in DOMAIN heap /\ offers'[j].at \in Endpoints
    BY <1>1
  <2>2. \/ j \in DOMAIN offers /\ offers'[j] = offers[j]
        \/ \E k \in DOMAIN given : offers'[j] = given[k]
    BY <1>3, <1>6, <1>7, OfferedMore DEF given
  <2>. QED
    BY <1>7, <1>9, <2>2 DEF OnceInv
<1>. QED
  BY <1>1, <1>4, <1>5, <1>6, <1>12, <1>14, <1>15, <1>16, OnceMoves

(* A call that returns takes nothing along; an error of what an action made stops its item. *)
LEMMA ReturnOnce ==
    TypeInv /\ OnceInv /\ Return => OnceInv'
<1> SUFFICES ASSUME TypeInv, OnceInv, Return PROVE OnceInv'
  OBVIOUS
<1> DEFINE r == IF Top.item = None THEN Result(FALSE, Top.failed, Top.succeeded, Top.held)
                                   ELSE Result(Top.error, 0, 1, 0)
           f == Front(stack)
           caller == Last(f)
           fr == Took(caller, r)
<1>1. /\ pc = "serve" /\ Top.todo = << >> /\ r \in Results
      /\ UNCHANGED <<heap, offers, begun>>
      /\ IF Len(stack) = 1
         THEN pc' = "idle" /\ stack' = << >> /\ UNCHANGED stopped
         ELSE /\ stack' = Deliver(f, r)
              /\ stopped' = IF r.error /\ Head(caller.todo).do = "action"
                            THEN stopped \cup {<<caller.node, caller.item>>} ELSE stopped
              /\ UNCHANGED pc
              /\ FrameOK(heap, caller) /\ Linked(caller, Top) /\ f # << >>
  BY ReturnFacts
<1>2. /\ stack \in Seq(Frames) /\ stack # << >> /\ Top = Last(stack) /\ IsHeap(heap) /\ Top \in Frames
      /\ Neat(Top) /\ Len(stack) \in Nat \ {0} /\ DOMAIN stack = 1 .. Len(stack) /\ stack[Len(stack)] = Top
  BY <1>1, OnceServes, FrontLast
<1>3. Grows(heap, heap')
  BY <1>1 DEF Grows
<1>4. CASE Len(stack) = 1
  <2>1. stack' \in Seq(Frames) /\ DOMAIN stack' = {}
    BY <1>1, <1>4, EmptySeq
  <2>2. ASSUME NEW e, NEW i PROVE Ahead(stack', e, i) = Ahead(stack, e, i)
    <3>1. Ahead(stack', e, i) = {}
      BY <2>1 DEF Ahead
    <3>2. Led(stack[1], e, i) = {} /\ DOMAIN stack = {1}
      BY <1>1, <1>2, <1>4 DEF Led
    <3>3. Ahead(stack, e, i) = {}
      BY <3>2 DEF Ahead
    <3>. QED
      BY <3>1, <3>3
  <2>. QED
    BY <1>1, <1>3, <1>4, <2>1, <2>2, OnceSame
<1>5. CASE Len(stack) # 1
  <2>1. /\ stack' = Append(Front(f), fr) /\ UNCHANGED pc /\ FrameOK(heap, caller) /\ Linked(caller, Top)
        /\ f # << >> /\ caller.todo # << >>
    BY <1>1, <1>5 DEF Deliver, Linked
  <2>2. /\ f \in Seq(Frames) /\ Len(f) = Len(stack) - 1 /\ \A k \in 1 .. Len(stack) - 1 : f[k] = stack[k]
        /\ DOMAIN f = 1 .. Len(stack) - 1
    <3>1. /\ f \in Seq(Frames) /\ Len(f) = Len(stack) - 1 /\ \A k \in 1 .. Len(stack) - 1 : f[k] = stack[k]
      BY <1>2, FrontLast
    <3>. QED
      BY <3>1, LenProperties
  <2>3. \A k \in DOMAIN f : Neat(f[k])
    <3>1. \A k \in DOMAIN stack : Neat(stack[k])
      BY DEF OnceInv
    <3>2. \A k \in 1 .. Len(stack) - 1 : k \in 1 .. Len(stack)
      BY <1>2
    <3>. HIDE DEF f
    <3>. QED
      BY <1>2, <2>2, <3>1, <3>2
  <2>4. caller = f[Len(f)] /\ Len(f) \in DOMAIN f /\ caller \in Frames /\ Neat(caller) /\ Len(f) # 0
    <3>1. caller = f[Len(f)] /\ Len(f) \in DOMAIN f /\ caller \in Frames /\ Len(f) # 0
      BY <2>1, <2>2, FrontLast
    <3>. HIDE DEF caller, f
    <3>. QED
      BY <2>3, <3>1
  <2>5. fr \in Frames /\ fr.node = caller.node /\ fr.item = caller.item
    BY <1>1, <1>2, <2>1, TookFrame, FrameType
  <2>6. /\ stack' \in Seq(Frames) /\ DOMAIN stack' = DOMAIN f
        /\ Neat(fr) => \A k \in DOMAIN stack' : Neat(stack'[k])
        /\ \A k \in DOMAIN stack \cap DOMAIN stack' : stack'[k].node = stack[k].node
    <3>. HIDE DEF fr
    <3>1. stack' \in Seq(Frames) /\ DOMAIN stack' = DOMAIN f
      BY <2>1, <2>2, <2>5, FrontAppended, LenProperties
    <3>2. \A k \in 1 .. Len(f) - 1 : stack'[k] = f[k]
      BY <2>1, <2>2, <2>5, FrontAppended
    <3>3. stack'[Len(f)] = fr
      BY <2>1, <2>2, <2>5, FrontAppended
    <3>. HIDE DEF f, caller
    <3>4. \A k \in DOMAIN f : k \in 1 .. Len(f) - 1 \/ k = Len(f)
      BY <1>2, <2>2
    <3>5. Neat(fr) => \A k \in DOMAIN stack' : Neat(stack'[k])
      BY <2>3, <3>1, <3>2, <3>3, <3>4
    <3>6. \A k \in DOMAIN f : stack'[k].node = f[k].node
      BY <2>4, <2>5, <3>2, <3>3, <3>4
    <3>. QED
      BY <2>2, <3>1, <3>5, <3>6
  <2>7. \A e, i : Ahead(stack, e, i) = Ahead(f, e, i) \ {Tip(f)}
    BY <1>1, <1>2, <2>1, AheadPopped
  <2>8. Head(caller.todo).do \in {"call", "process", "action"}
    BY <2>1 DEF Linked
  <2>9. CASE ~(r.error /\ Head(caller.todo).do = "action")
    <3>1. UNCHANGED stopped
      BY <1>1, <1>5, <2>9
    <3>2. fr.todo = Tail(caller.todo) /\ Neat(fr)
      <4>1. \/ Head(caller.todo).do \in {"call", "process"}
            \/ Head(caller.todo).do = "action" /\ ~r.error
        BY <2>8, <2>9
      <4>. HIDE DEF caller, r
      <4>. QED
        BY <1>1, <1>2, <2>1, <2>4, <4>1, TookTail
    <3>3. ASSUME NEW e, NEW i PROVE Ahead(stack', e, i) = Ahead(stack, e, i)
      <4>1. Ahead(Append(Front(f), fr), e, i) = Ahead(f, e, i) \ {Tip(f)}
        <5>. HIDE DEF f, fr
        <5>. QED
          BY <2>1, <2>2, <2>5, <3>2, TopAhead DEF caller
      <4>. QED
        BY <2>1, <2>7, <4>1
    <3>. QED
      BY <1>1, <1>3, <2>1, <2>6, <3>1, <3>2, <3>3, OnceSame
  <2>10. CASE r.error /\ Head(caller.todo).do = "action"
    <3>1. stopped' = stopped \cup {<<caller.node, caller.item>>}
      BY <1>1, <1>5, <2>10
    <3>2. /\ caller.node \in Nodes /\ Role[caller.node] = "processor" /\ caller.item # None
          /\ caller.item \in OfKinds(heap, RuleKinds)
      <4>1. /\ caller.node \in Nodes /\ Role[caller.node] = "processor"
            /\ caller.item \in OfKinds(heap, RuleKinds) /\ caller.item \in Nat \ {0}
        BY <1>2, <2>1, <2>10, RuleFacts
      <4>. QED
        BY <4>1 DEF None
    <3>3. fr.todo = << >> /\ Neat(fr)
      <4>1. fr.todo = << >>
        <5>1. caller.item # None
          BY <3>2
        <5>. HIDE DEF caller, r
        <5>. QED
          BY <2>4, <2>10, <5>1 DEF Took, Frames
      <4>2. DOMAIN fr.todo = {}
        <5>. HIDE DEF fr
        <5>. QED
          BY <4>1
      <4>. QED
        BY <2>5, <3>2, <4>1, <4>2 DEF Neat
    <3>4. ASSUME NEW e, NEW i
          PROVE  IF e \in Behind[caller.node] /\ i = caller.item THEN Spots(stack', offers', e, i) = {}
                                                                 ELSE Ahead(stack', e, i) = Ahead(stack, e, i)
      <4>1. /\ Tip(f) \notin Ahead(f, e, i)
            /\ IF e \in Behind[caller.node] /\ i = caller.item
               THEN /\ <<Len(f), 0>> \in Ahead(f, e, i)
                    /\ Ahead(stack', e, i) = {p \in Ahead(f, e, i) : p[1] # Len(f)}
               ELSE Ahead(stack', e, i) = Ahead(f, e, i)
        <5>1. /\ f \in Seq(Frames) /\ f # << >> /\ Neat(Last(f)) /\ Role[Last(f).node] = "processor"
              /\ Last(f).item # None /\ Last(f).todo # << >> /\ Head(Last(f).todo).do = "action"
          BY <2>1, <2>2, <2>4, <2>10, <3>2
        <5>2. fr \in Frames /\ fr.node = Last(f).node /\ fr.todo = << >>
          BY <2>5, <3>3
        <5>3. caller = Last(f)
          OBVIOUS
        <5>. HIDE DEF f, fr, caller
        <5>4. /\ Tip(f) \notin Ahead(f, e, i)
              /\ IF e \in Behind[fr.node] /\ i = Last(f).item
                 THEN /\ <<Len(f), 0>> \in Ahead(f, e, i)
                      /\ Ahead(Append(Front(f), fr), e, i) = {p \in Ahead(f, e, i) : p[1] # Len(f)}
                 ELSE Ahead(Append(Front(f), fr), e, i) = Ahead(f, e, i)
          BY <5>1, <5>2, FrameEnds
        <5>. QED
          BY <2>1, <2>5, <5>3, <5>4
      <4>2. Ahead(stack, e, i) = Ahead(f, e, i)
        <5>1. Ahead(stack, e, i) = Ahead(f, e, i) \ {Tip(f)}
          BY <2>7
        <5>. HIDE DEF f
        <5>. QED
          BY <4>1, <5>1
      <4>. HIDE DEF f, fr, caller
      <4>3. ASSUME e \in Behind[caller.node], i = caller.item PROVE Spots(stack', offers', e, i) = {}
        <5>1. e \in Endpoints
          BY <3>2, <4>3, BehindFacts
        <5>2. \A p \in Spots(stack, offers, e, i) : p = <<Len(f), 0>>
          BY <4>1, <4>2, <4>3, <5>1 DEF OnceInv, Sole, Spots
        <5>3. Ahead(stack', e, i) = {}
          BY <4>1, <4>2, <4>3, <5>2 DEF Spots
        <5>4. <<Len(f), 0>> \notin {0} \X Offered(offers, e, i)
          BY <2>4
        <5>. QED
          BY <1>1, <5>2, <5>3, <5>4 DEF Spots
      <4>. QED
        BY <4>1, <4>2, <4>3
    <3>. HIDE DEF caller, f, fr, r
    <3>. QED
      BY <1>1, <2>1, <2>6, <3>1, <3>2, <3>3, <3>4, OnceStops
  <2>. QED
    BY <2>9, <2>10
<1>. QED
  BY <1>4, <1>5

(* When a request has come, or is let through, nothing of it is anywhere yet. *)
LEMMA OnceFresh ==
    ASSUME begun' = {}, stopped' = {}, offers' = << >>,
           stack' = << >> \/ \E h, n, groups : /\ IsHeap(h) /\ Acceptable(h, n, groups) /\ Role[n] # "zenoss"
                                               /\ OnePath /\ Distinct(groups)
                                               /\ stack' = <<Enter(n, groups)>>
    PROVE  OnceInv'
<1>1. \A e, i : Spots(stack', offers', e, i) = Ahead(stack', e, i)
  <2>1. \A e, i : Offered(offers', e, i) = {}
    BY DEF Offered
  <2>. QED
    BY <2>1 DEF Spots
<1>2. SUFFICES /\ \A k \in DOMAIN stack' : Neat(stack'[k])
               /\ \A e, i : \A p, q \in Ahead(stack', e, i) : p = q
  BY <1>1 DEF OnceInv, Sole, Barred, Promised
<1>3. CASE stack' = << >>
  <2>1. DOMAIN stack' = {}
    BY <1>3
  <2>. QED
    BY <2>1 DEF Ahead
<1>4. ASSUME NEW h, NEW n, NEW groups, IsHeap(h), Acceptable(h, n, groups), Role[n] # "zenoss",
             OnePath, Distinct(groups), stack' = <<Enter(n, groups)>>
      PROVE  /\ \A k \in DOMAIN stack' : Neat(stack'[k])
             /\ \A e, i : \A p, q \in Ahead(stack', e, i) : p = q
  <2> DEFINE fr == Enter(n, groups)
  <2>1. Neat(fr) /\ \A e, i : \A b, c \in Led(fr, e, i) : b = c
    BY <1>4, EnteredLeads
  <2>2. fr \in Frames
    BY <1>4, Entered, FrameType
  <2>. HIDE DEF fr
  <2>3. stack' = <<fr>> /\ <<fr>> \in Seq(Frames) /\ DOMAIN <<fr>> = {1} /\ <<fr>>[1] = fr
    BY <1>4, <2>2 DEF fr
  <2>4. ASSUME NEW e, NEW i, NEW p \in Ahead(<<fr>>, e, i) PROVE p = <<1, p[2]>> /\ p[2] \in Led(fr, e, i)
    <3>1. p = <<p[1], p[2]>> /\ p[1] \in DOMAIN <<fr>> /\ p[2] \in Led(<<fr>>[p[1]], e, i)
      BY <2>3, AheadElements
    <3>. QED
      BY <2>3, <3>1
  <2>5. ASSUME NEW e, NEW i, NEW p \in Ahead(<<fr>>, e, i), NEW q \in Ahead(<<fr>>, e, i) PROVE p = q
    <3>1. p[2] = q[2]
      BY <2>1, <2>4
    <3>. QED
      BY <2>4, <3>1
  <2>. QED
    BY <2>1, <2>3, <2>5
<1>. QED
  BY <1>3, <1>4

(* Every step keeps the invariant. *)
LEMMA StepOnce ==
    ASSUME OnePath, DistinctItems
    PROVE  TypeInv /\ OnceInv /\ [Next]_vars => OnceInv'
<1> SUFFICES ASSUME TypeInv, OnceInv, [Next]_vars PROVE OnceInv'
  OBVIOUS
<1>1. CASE SetConfig \/ \E w \in setting : SetAllowed(w) \/ SetOutput(w)
  <2>1. UNCHANGED <<pc, heap, stack, offers, begun, stopped>>
    BY <1>1 DEF SetConfig, SetAllowed, SetOutput, history
  <2>. QED
    BY <2>1 DEF OnceInv, Sole, Barred, Promised
<1>2. ASSUME NEW q \in Requests, Receive(q) PROVE OnceInv'
  <2>1. /\ begun' = {} /\ stopped' = {} /\ offers' = << >>
        /\ \/ stack' = << >>
           \/ ~Unimplemented(q.node, q.groups) /\ stack' = <<Enter(q.node, q.groups)>>
    BY <1>2 DEF Receive
  <2>2. /\ IsHeap(q.items) /\ Role[q.node] # "zenoss" /\ Distinct(q.groups)
        /\ ~Unimplemented(q.node, q.groups) => Acceptable(q.items, q.node, q.groups)
    BY RequestFacts DEF DistinctItems
  <2>. QED
    BY <2>1, <2>2, OnceFresh
<1>3. CASE CheckAPIKey \/ LookUpAPIKey
  <2>1. /\ pc \in {"check", "lookUp"} /\ UNCHANGED <<offers, begun, stopped>>
        /\ UNCHANGED stack \/ stack' = <<Enter(request.node, request.groups)>>
    BY <1>3 DEF CheckAPIKey, LookUpAPIKey, Admit, Refuse, history
  <2>2. /\ IsHeap(heap) /\ Acceptable(heap, request.node, request.groups) /\ Role[request.node] # "zenoss"
        /\ request \in Requests /\ stack = << >>
    BY <2>1 DEF TypeInv, TypeOK, Shape
  <2>3. Distinct(request.groups) /\ begun = {} /\ stopped = {} /\ offers = << >>
    BY <2>1, <2>2 DEF DistinctItems, OnceInv
  <2>. QED
    BY <2>1, <2>2, <2>3, OnceFresh
<1>4. CASE UNCHANGED vars
  <2>1. UNCHANGED <<pc, heap, stack, offers, begun, stopped>>
    BY <1>4 DEF vars, history
  <2>. QED
    BY <2>1 DEF OnceInv, Sole, Barred, Promised
<1>5. CASE CallOutput \/ CallUnimplemented \/ CallEndpoint \/ Return
  BY <1>5, CallOutputOnce, CallUnimplementedOnce, CallEndpointOnce, ReturnOnce
<1>6. CASE TakeItem \/ ApplyRule \/ FailAction \/ Signal \/ Change \/ Create \/ ConvertMetrics
  BY <1>6, TakeItemOnce, ApplyRuleOnce, FailActionOnce, SignalOnce, ChangeOnce, CreateOnce,
     ConvertMetricsOnce
<1>7. CASE Panic
  <2>1. pc' = "panicked" /\ stack' = << >> /\ UNCHANGED <<heap, offers, begun, stopped>>
    BY <1>7, PanicFacts
  <2>2. DOMAIN stack' = {}
    BY <2>1
  <2>3. \A e, i : Spots(stack', offers, e, i) \subseteq Spots(stack, offers, e, i)
    BY <2>2 DEF Spots, Ahead
  <2>4. Sole(stack', offers) /\ Barred(stack', offers, stopped)
    BY <2>3 DEF OnceInv, Sole, Barred
  <2>. QED
    BY <2>1, <2>2, <2>4 DEF OnceInv
<1>. QED
  BY <1>1, <1>2, <1>3, <1>4, <1>5, <1>6, <1>7 DEF Next, Serve

(* What has been offered is at its endpoints; when the request is answered there is nothing    *)
(* else.                                                                                       *)
LEMMA OnceEnds ==
    TypeInv /\ OnceInv => EndsOnce
<1> SUFFICES ASSUME TypeInv, OnceInv PROVE EndsOnce
  OBVIOUS
<1>1. \A e, i : OffersOf(e, i) = Offered(offers, e, i)
  BY DEF OffersOf, Offered
<1>2. ASSUME NEW e, NEW i, NEW j \in OffersOf(e, i) PROVE <<0, j>> \in Spots(stack, offers, e, i)
  BY <1>1, <1>2 DEF Spots
<1>3. ASSUME NEW j \in DOMAIN offers, NEW k \in DOMAIN offers,
             offers[j].at = offers[k].at, offers[j].item = offers[k].item
      PROVE  j = k
  <2> DEFINE e == offers[j].at
             i == offers[j].item
  <2>1. e \in Endpoints /\ j \in OffersOf(e, i) /\ k \in OffersOf(e, i)
    BY <1>3 DEF OnceInv, OffersOf
  <2>. HIDE DEF e, i
  <2>2. <<0, j>> = <<0, k>>
    BY <1>2, <2>1 DEF OnceInv, Sole
  <2>. QED
    BY <2>2
<1>4. ASSUME NEW s \in stopped, NEW e \in Behind[s[1]] PROVE OffersOf(e, s[2]) = {}
  <2>1. Spots(stack, offers, e, s[2]) = {}
    BY DEF OnceInv, Barred
  <2>. QED
    BY <1>2, <2>1
<1>5. ASSUME Answered, NEW s \in begun, NEW e \in Behind[s[1]],
             ~ \E n \in Nodes : e \in Behind[n] /\ <<n, s[2]>> \in stopped
      PROVE  OffersOf(e, s[2]) # {}
  <2>1. stack = << >>
    BY <1>5 DEF Answered, TypeInv, TypeOK
  <2>2. Ahead(stack, e, s[2]) = {}
    <3>1. DOMAIN stack = {}
      BY <2>1
    <3>. QED
      BY <3>1 DEF Ahead
  <2>3. Unstopped(stopped, e, s[2])
    BY <1>5 DEF Unstopped
  <2>4. PICK p \in Spots(stack, offers, e, s[2]) : TRUE
    BY <1>5, <2>3 DEF Answered, OnceInv, Promised, Sent
  <2>5. p \in {0} \X Offered(offers, e, s[2])
    BY <2>2, <2>4 DEF Spots
  <2>. QED
    BY <1>1, <2>5
<1>. QED
  BY <1>3, <1>4, <1>5 DEF EndsOnce

(* No endpoint is given an item twice in a request, none an item that was stopped before it,   *)
(* and all that are behind a processor the others: in every network in which no endpoint is    *)
(* behind two outputs of a splitter, for requests that list no item twice, and any rules.      *)
THEOREM ReceiversEndOnce ==
    ASSUME OnePath, DistinctItems
    PROVE  Spec => []EndsOnce
<1>1. Init => OnceInv
  <2>1. SUFFICES ASSUME Init PROVE OnceInv
    OBVIOUS
  <2>2. offers = << >> /\ stack = << >> /\ begun = {} /\ stopped = {} /\ DOMAIN stack = {} /\ DOMAIN offers = {}
    BY <2>1 DEF Init
  <2>3. \A e, i : Spots(stack, offers, e, i) = {}
    BY <2>2 DEF Spots, Ahead, Offered
  <2>. QED
    BY <2>2, <2>3 DEF OnceInv, Sole, Barred, Promised
<1>2. TypeInv /\ OnceInv /\ [Next]_vars => OnceInv'
  BY StepOnce
<1>. QED
  BY <1>1, <1>2, InitTyped, StepKeepsType, OnceEnds, PTL DEF Spec

-----------------------------------------------------------------------------
(* What a report becomes. *)

Single(S) == \E x : S = {x}

(* Of some items, those with a name; and the offers of such to an endpoint. *)
Named(h, S, f)       == {i \in S : h[i].name = f}
SentAs(os, h, e, f)  == {j \in DOMAIN os : os[j].at = e /\ h[os[j].item].name = f}

(* The destinations a writer is done with; and whether it is done with sending to one. *)
Past(st, ds)       == Len(ds) - Len(st[1].todo)
Through(st, ds, o) == \/ o <= Past(st, ds)
                      \/ o = Past(st, ds) + 1 /\ Len(st) = 2 /\ st[2].todo = << >>

(* The writer calls every destination in turn.  What a Zenoss destination has to do is with    *)
(* one metric of every measure; it has sent none before it did that, and one of each after.    *)
ReportOK(st, os, h, ds) ==
    /\ \A j \in DOMAIN os : os[j].item \in DOMAIN h
    /\ Len(st) \in {1, 2} /\ Past(st, ds) \in Nat
    /\ \A k \in DOMAIN st[1].todo : st[1].todo[k].to = ds[Past(st, ds) + k]
    /\ Len(st) = 2 => st[2].node = ds[Past(st, ds) + 1] /\ Neat(st[2])
    /\ Len(st) = 2 /\ st[2].todo # << >> =>
          \A f \in Present(h, 1) : Single(Named(h, Carried(st[2].todo[1]), f))
    /\ \A o \in DOMAIN ds : Role[ds[o]] = "zenoss" =>
          \A f \in Present(h, 1) :
              IF Through(st, ds, o) THEN Single(SentAs(os, h, Outputs[ds[o]][1], f))
                                    ELSE SentAs(os, h, Outputs[ds[o]][1], f) = {}

Reporting == pc = "serve" /\ Role[request.node] = "writer" /\ heap[1].kind = "health"

ReportInv ==
    /\ pc = "serve" /\ Role[request.node] = "writer" => 1 \in DOMAIN heap
    /\ Reporting => ReportOK(stack, offers, heap, Outputs[request.node])
    /\ HealthSentOnce

(* Every measure of a report is listed once. *)
LEMMA MeasuresAll ==
    ASSUME NEW i
    PROVE  LET m == Measures(i)
           IN  /\ m \in Seq(Fields) /\ Range(m) = Present(heap, i)
               /\ \A j, k \in DOMAIN m : m[j] = m[k] => j = k
<1> DEFINE S == Present(heap, i)
           n == Cardinality(S)
           m == SetToSeq(S)
<1>1. IsFiniteSet(S)
  BY RulesAssumption, FS_Subset DEF Present
<1>. HIDE DEF S
<1>2. n \in Nat /\ ExistsBijection(1 .. n, S) /\ IsFiniteSet(1 .. n) /\ Cardinality(1 .. n) = n
  BY <1>1, FS_CardinalityType, FS_NatBijection, FS_CountingElements, FS_Interval
<1>. HIDE DEF n
<1>3. \E f \in [1 .. n -> S] : IsInjective(f)
  BY <1>2 DEF ExistsBijection, Bijection, Injection
<1>4. m \in [1 .. n -> S] /\ IsInjective(m)
  BY <1>3 DEF SetToSeq, n
<1>. HIDE DEF m
<1>5. m \in Surjection(1 .. n, S)
  BY <1>1, <1>2, <1>4, FS_Injection DEF Injection, n
<1>6. Range(m) = S
  BY <1>4, <1>5 DEF Surjection, Range
<1>7. \A j, k \in DOMAIN m : m[j] = m[k] => j = k
  BY <1>4 DEF IsInjective
<1>8. Measures(i) = m
  BY DEF Measures, m, S
<1>. QED
  BY <1>6, <1>7, <1>8, MeasuresType DEF S

(* The metrics a Zenoss destination makes of a report are one of every measure. *)
LEMMA BuiltNames ==
    ASSUME IsHeap(heap), 1 \in DOMAIN heap, heap[1].kind = "health", NEW f \in Present(heap, 1)
    PROVE  Single(Named(heap \o Built(1), Range(FreshIds(Len(Built(1)))), f))
<1> DEFINE m == Measures(1)
           t == Built(1)
           g == heap \o t
           ids == FreshIds(Len(t))
<1>1. m \in Seq(Fields) /\ Range(m) = Present(heap, 1) /\ \A j, k \in DOMAIN m : m[j] = m[k] => j = k
  BY MeasuresAll
<1>2. DOMAIN m = 1 .. Len(m) /\ Len(m) \in Nat
  BY <1>1, LenProperties
<1>3. t \in Seq(Item) /\ Len(t) = Len(m) /\ \A k \in 1 .. Len(m) : t[k].name = m[k]
  <2>1. t = [k \in DOMAIN m |-> NewItem("metric", m[k], [c \in Fields |-> Absent])]
    BY DEF Built
  <2>2. t \in Seq(Item)
    BY BuiltType
  <2>3. DOMAIN t = 1 .. Len(t) /\ Len(t) \in Nat
    BY <2>2, LenProperties
  <2>. HIDE DEF m
  <2>4. DOMAIN t = DOMAIN m /\ \A k \in DOMAIN m : t[k].name = m[k]
    BY <2>1 DEF NewItem
  <2>. HIDE DEF t
  <2>5. \A a, b \in Nat : 1 .. a = 1 .. b => a = b
    OBVIOUS
  <2>6. Len(t) = Len(m)
    BY <1>2, <2>3, <2>4, <2>5
  <2>. QED
    BY <1>2, <2>2, <2>4, <2>6
<1>4. Len(heap) \in Nat /\ heap \in Seq(Item)
  BY LenProperties DEF IsHeap
<1>. HIDE DEF m, t
<1>5. \A k \in 1 .. Len(m) : g[Len(heap) + k].name = m[k]
  <2>1. \A k \in 1 .. Len(heap) + Len(t) : g[k] = IF k <= Len(heap) THEN heap[k] ELSE t[k - Len(heap)]
    BY <1>3, <1>4, ConcatProperties
  <2>2. ASSUME NEW k \in 1 .. Len(m) PROVE g[Len(heap) + k] = t[k]
    <3>1. Len(heap) + k \in 1 .. Len(heap) + Len(t) /\ ~(Len(heap) + k <= Len(heap)) /\ (Len(heap) + k) - Len(heap) = k
      BY <1>2, <1>3, <1>4
    <3>. QED
      BY <2>1, <3>1
  <2>. HIDE DEF g
  <2>. QED
    BY <1>3, <2>2
<1>. HIDE DEF g
<1>6. Range(ids) = {Len(heap) + k : k \in 1 .. Len(m)}
  BY <1>3 DEF FreshIds, Range
<1>. HIDE DEF ids
<1>7. PICK k \in 1 .. Len(m) : m[k] = f
  BY <1>1, <1>2 DEF Range
<1>8. Named(g, Range(ids), f) = {Len(heap) + k}
  <2>1. ASSUME NEW i \in Range(ids), g[i].name = f PROVE i = Len(heap) + k
    <3>1. PICK j \in 1 .. Len(m) : i = Len(heap) + j
      BY <1>6
    <3>2. m[j] = m[k]
      BY <1>5, <1>7, <2>1, <3>1
    <3>. QED
      BY <1>1, <1>2, <3>1, <3>2
  <2>2. Len(heap) + k \in Range(ids) /\ g[Len(heap) + k].name = f
    BY <1>5, <1>6, <1>7
  <2>. QED
    BY <2>1, <2>2 DEF Named
<1>. QED
  BY <1>8 DEF Single, g, t, ids

(* The frame of the writer while a report is written. *)
LEMMA WriterFacts ==
    ASSUME TypeInv, ReportInv, Reporting
    PROVE  LET ds == Outputs[request.node]
               w  == stack[1]
               o  == Past(stack, ds) + 1
           IN  /\ IsHeap(heap) /\ stack \in Seq(Frames) /\ stack # << >> /\ DOMAIN stack = 1 .. Len(stack)
               /\ Len(stack) \in {1, 2} /\ Top = stack[Len(stack)] /\ 1 \in DOMAIN heap
               /\ Len(ds) \in Nat /\ DOMAIN ds = 1 .. Len(ds)
               /\ FrameOK(heap, w) /\ w \in Frames /\ w.node = request.node /\ w.item = None
               /\ w.todo # << >> =>
                     /\ Head(w.todo).do = "call" /\ Head(w.todo).to = ds[o]
                     /\ o \in DOMAIN ds /\ ds[o] \in Nodes /\ Role[ds[o]] \in {"log", "zenoss"}
<1> DEFINE ds == Outputs[request.node]
           w  == stack[1]
           m  == Len(w.todo)
           o  == Past(stack, ds) + 1
<1>1. /\ IsHeap(heap) /\ stack \in Seq(Frames) /\ stack # << >> /\ DOMAIN stack = 1 .. Len(stack)
      /\ Top = stack[Len(stack)] /\ Len(stack) \in Nat \ {0} /\ StackOK(heap, request.node, stack)
  BY ServeFacts DEF Reporting
<1>2. 1 \in DOMAIN stack
  BY <1>1
<1>3. FrameOK(heap, w) /\ w \in Frames /\ w.node = request.node /\ w.item = None
  BY <1>1, <1>2, FrameType DEF StackOK
<1>4. /\ Len(stack) \in {1, 2} /\ 1 \in DOMAIN heap /\ Past(stack, ds) \in Nat
      /\ \A k \in DOMAIN w.todo : w.todo[k].to = ds[Past(stack, ds) + k]
  BY DEF ReportInv, ReportOK, Reporting
<1>5. request.node \in Nodes /\ Role[request.node] = "writer"
  BY <1>3 DEF FrameOK, Reporting
<1>6. Len(ds) \in Nat /\ DOMAIN ds = 1 .. Len(ds)
  BY <1>5, OutputFacts
<1>7. ASSUME w.todo # << >>
      PROVE  /\ Head(w.todo).do = "call" /\ Head(w.todo).to = ds[o]
             /\ o \in DOMAIN ds /\ ds[o] \in Nodes /\ Role[ds[o]] \in {"log", "zenoss"}
  <2>1. w.todo \in Seq(Entries)
    BY <1>3 DEF Frames
  <2>2. m \in Nat \ {0} /\ DOMAIN w.todo = 1 .. m /\ Head(w.todo) = w.todo[1]
    BY <1>7, <2>1, LenProperties, EmptySeq
  <2>3. Head(w.todo) \in Tasks(heap, request.node, None)
    BY <1>1, <1>3, <1>7, TaskFacts
  <2>4. Head(w.todo).do = "call"
    BY <1>5, <2>3 DEF Tasks, Call
  <2>5. Head(w.todo).to = ds[o]
    BY <1>4, <2>2
  <2>6. o \in 1 .. Len(ds)
    <3>1. Past(stack, ds) = Len(ds) - m
      BY DEF Past
    <3>. HIDE DEF m, ds
    <3>. QED
      BY <1>4, <1>6, <2>2, <3>1
  <2>7. \A k \in DOMAIN ds : ds[k] \in Nodes /\ Role[ds[k]] \in {"log", "zenoss"}
    BY <1>5, OutputFacts
  <2>. HIDE DEF o, ds, w
  <2>. QED
    BY <1>6, <2>4, <2>5, <2>6, <2>7
<1>. QED
  BY <1>1, <1>3, <1>4, <1>6, <1>7

(* The frame of a destination. *)
LEMMA DestinationFacts ==
    ASSUME TypeInv, ReportInv, Reporting, Len(stack) = 2
    PROVE  LET d == stack[2]
               ds == Outputs[request.node]
           IN  /\ Top = d /\ FrameOK(heap, d) /\ d \in Frames /\ Neat(d) /\ stack[1].todo # << >>
               /\ d.node = ds[Past(stack, ds) + 1] /\ d.node \in Nodes
               /\ d.todo # << >> =>
                     /\ Role[d.node] = "zenoss" /\ d.item # None /\ Len(d.todo) = 1
                     /\ Head(d.todo) = d.todo[1] /\ d.todo[1].do \in {"call", "convert"}
                     /\ d.todo[1].do = "call" => d.todo[1].to = Outputs[d.node][1]
                     /\ Role[Outputs[d.node][1]] = "endpoint" /\ Outputs[d.node][1] \in Nodes
<1> DEFINE d == stack[2]
           ds == Outputs[request.node]
<1>1. /\ IsHeap(heap) /\ stack \in Seq(Frames) /\ stack # << >> /\ DOMAIN stack = 1 .. Len(stack)
      /\ Top = stack[Len(stack)]
      /\ stack[1].todo # << >> => Role[ds[Past(stack, ds) + 1]] \in {"log", "zenoss"}
  BY WriterFacts
<1>2. StackOK(heap, request.node, stack)
  BY ServeFacts DEF Reporting
<1>3. 2 \in DOMAIN stack /\ 1 \in 1 .. Len(stack) - 1
  BY <1>1
<1>4. FrameOK(heap, d) /\ d \in Frames /\ Linked(stack[1], d)
  <2>1. Linked(stack[1], stack[1 + 1])
    BY <1>2, <1>3 DEF StackOK
  <2>. QED
    BY <1>1, <1>2, <1>3, <2>1, FrameType DEF StackOK
<1>5. stack[1].todo # << >> /\ d.node \in Nodes /\ ItemOf(heap, d.node, d.item)
  BY <1>4 DEF Linked, FrameOK
<1>6. d.node = ds[Past(stack, ds) + 1] /\ Neat(d) /\ Role[d.node] \in {"log", "zenoss"}
  BY <1>1, <1>5 DEF ReportInv, ReportOK
<1>. HIDE DEF d, ds
<1>7. ASSUME d.todo # << >>
      PROVE  /\ Role[d.node] = "zenoss" /\ d.item # None /\ Len(d.todo) = 1
             /\ Head(d.todo) = d.todo[1] /\ d.todo[1].do \in {"call", "convert"}
             /\ d.todo[1].do = "call" => d.todo[1].to = Outputs[d.node][1]
             /\ Role[Outputs[d.node][1]] = "endpoint" /\ Outputs[d.node][1] \in Nodes
  <2>1. d.todo \in Seq(Entries) /\ Head(d.todo) \in Tasks(heap, d.node, d.item)
    BY <1>1, <1>4, <1>7, TaskFacts DEF Frames
  <2>2. Head(d.todo) = d.todo[1]
    BY <1>7, <2>1, EmptySeq
  <2>3. Role[d.node] = "zenoss"
    BY <1>6, <2>1 DEF Tasks
  <2>4. Len(d.todo) = 1
    BY <1>6, <1>7, <2>3 DEF Neat
  <2>5. Head(d.todo) \in CallsTo(heap, Range(Outputs[d.node])) \cup
                         {Convert(ids) : ids \in Seq(OfKinds(heap, {"metric"}))}
    BY <2>1, <2>3 DEF Tasks
  <2>6. /\ Head(d.todo).do \in {"call", "convert"}
        /\ Head(d.todo).do = "call" => Head(d.todo).to \in Range(Outputs[d.node])
    BY <2>5 DEF CallsTo, Call, Convert
  <2>7. \A o \in Range(Outputs[d.node]) : o = Outputs[d.node][1]
    <3>1. DOMAIN Outputs[d.node] = 1 .. Len(Outputs[d.node]) /\ Len(Outputs[d.node]) = 1
      BY <1>5, <2>3, OutputFacts, NetworkAssumption
    <3>. QED
      BY <3>1 DEF Range
  <2>8. Role[Outputs[d.node][1]] = "endpoint" /\ Outputs[d.node][1] \in Nodes
    <3>1. Role[Outputs[d.node][1]] = "endpoint"
      BY <1>5, <2>3, DestinationsAssumption
    <3>2. Range(Outputs[d.node]) \subseteq Nodes /\ 1 \in DOMAIN Outputs[d.node]
      BY <1>5, <2>3, OutputFacts, NetworkAssumption
    <3>. QED
      BY <3>1, <3>2 DEF Range
  <2>9. d.item # None
    <3>1. d.item \in DOMAIN heap /\ DOMAIN heap = 1 .. Len(heap)
      BY <1>1, <1>5, <2>3, HeapFacts DEF ItemOf
    <3>. QED
      BY <3>1 DEF None
  <2>. QED
    BY <2>2, <2>3, <2>4, <2>6, <2>7, <2>8, <2>9
<1>. QED
  BY <1>1, <1>4, <1>5, <1>6, <1>7 DEF d, ds

(* Another frame of the destination. *)
LEMMA DestinationReplaced ==
    ASSUME NEW st \in Seq(Frames), NEW fr \in Frames
    PROVE  LET t == Append(Front(st), fr)
           IN  Len(st) = 2 => /\ Len(t) = 2 /\ t[1] = st[1] /\ t[2] = fr
                              /\ \A ds : Past(t, ds) = Past(st, ds)
<1> DEFINE t == Append(Front(st), fr)
<1>1. st # << >> => /\ Len(t) = Len(st)
                    /\ \A k \in 1 .. Len(st) - 1 : t[k] = st[k]
                    /\ t[Len(st)] = fr
  BY FrontAppended
<1>. HIDE DEF t
<1>2. ASSUME Len(st) = 2 PROVE Len(t) = 2 /\ t[1] = st[1] /\ t[2] = fr
  <2>1. st # << >>
    BY <1>2
  <2>. QED
    BY <1>1, <1>2, <2>1
<1>. QED
  BY <1>2 DEF t, Past

(* Metrics that are converted are still listed. *)
LEMMA ConvertReport ==
    ASSUME TypeInv, ReportInv, Reporting, ConvertMetrics
    PROVE  ReportOK(stack', offers', heap', Outputs[request.node])
<1> DEFINE ds == Outputs[request.node]
           d == stack[2]
           todo(converted) ==
              <<Call(Outputs[Top.node][1], <<Group("compact", Those(Entry.ids, converted)),
                                             Group("metric", Those(Entry.ids, ToSet(Entry.ids) \ converted))>>)>>
<1>1. PICK converted \in SUBSET ToSet(Entry.ids) : stack' = ReplaceTop([Top EXCEPT !.todo = todo(converted)])
  BY DEF ConvertMetrics, Proceed
<1>2. /\ Doing("convert") /\ UNCHANGED <<heap, offers>> /\ pc = "serve"
  BY DEF ConvertMetrics, history, Doing
<1>3. Top.todo # << >> /\ Head(Top.todo) = Entry /\ Head(Top.todo).do = "convert"
  BY <1>2 DEF Doing, Entry
<1>4. /\ IsHeap(heap) /\ stack \in Seq(Frames) /\ stack # << >> /\ Len(stack) = 2
  <2>1. Len(stack) = 1 => Top = stack[1] /\ Head(Top.todo).do = "call"
    BY <1>3, WriterFacts
  <2>. QED
    BY <1>3, <2>1, WriterFacts
<1>5. /\ Top = d /\ FrameOK(heap, d) /\ d \in Frames /\ Neat(d)
      /\ d.node = ds[Past(stack, ds) + 1] /\ Head(d.todo) = d.todo[1]
  BY <1>3, <1>4, DestinationFacts
<1> DEFINE fr == [Top EXCEPT !.todo = todo(converted)]
<1>6. fr.node = Top.node /\ fr.todo = todo(converted)
  <2>. HIDE DEF todo
  <2>. QED
    BY <1>5 DEF Frames
<1>7. fr \in Frames
  <2>1. TypeInv'
    BY <1>2, ConvertMetricsTyped
  <2>2. stack' \in Seq(Frames) /\ stack' = Append(Front(stack), fr)
    BY <1>1, <2>1 DEF TypeInv, TypeOK, ReplaceTop
  <2>. HIDE DEF fr
  <2>3. Front(stack) \in Seq(Frames)
    BY <1>4, FrontLast
  <2>. QED
    BY <2>2, <2>3, AppendedIn
<1>8. Neat(fr) /\ Carried(fr.todo[1]) = Carried(d.todo[1])
  <2>1. fr.todo = <<Call(Outputs[d.node][1],
                         <<Group("compact", Those(Head(d.todo).ids, converted)),
                           Group("metric", Those(Head(d.todo).ids, ToSet(Head(d.todo).ids) \ converted))>>)>>
    BY <1>3, <1>5, <1>6
  <2>2. fr.node = d.node /\ d.todo # << >> /\ Head(d.todo).do = "convert"
    BY <1>3, <1>5, <1>6
  <2>. HIDE DEF fr, todo, d
  <2>. QED
    BY <1>4, <1>5, <1>7, <2>1, <2>2, Converted
<1>9. fr.todo # << >> /\ d.todo # << >>
  BY <1>3, <1>5, <1>6
<1>10. stack' = Append(Front(stack), fr)
  BY <1>1 DEF ReplaceTop
<1>. HIDE DEF fr, todo
<1>11. /\ Len(stack') = 2 /\ stack'[1] = stack[1] /\ stack'[2] = fr
       /\ Past(stack', ds) = Past(stack, ds)
  BY <1>4, <1>7, <1>10, DestinationReplaced
<1>12. fr.node = d.node
  BY <1>5, <1>6
<1>13. \A o : Through(stack', ds, o) <=> Through(stack, ds, o)
  BY <1>4, <1>9, <1>11 DEF Through
<1>14. ReportOK(stack, offers, heap, ds)
  BY DEF ReportInv
<1>. HIDE DEF d, ds
<1>15. ReportOK(stack', offers, heap, ds)
  BY <1>4, <1>8, <1>9, <1>11, <1>12, <1>13, <1>14 DEF ReportOK, d
<1>. QED
  BY <1>2, <1>15 DEF ds

(* What an endpoint is given is one of every measure, if the call lists one of each. *)
LEMMA GivenOnce ==
    ASSUME IsHeap(heap), NEW to \in Nodes, NEW groups \in Seq(Sendable(heap)), Distinct(groups),
           NEW fates \in [1 .. Count(groups) -> Fates], NEW os \in Seq(Offers), NEW e, NEW f
    PROVE  LET given == Given(to, groups, fates)
               new   == os \o given
           IN  /\ \A j \in DOMAIN new : (j \in DOMAIN os /\ new[j] = os[j]) \/ new[j].item \in DOMAIN heap
               /\ e # to => SentAs(new, heap, e, f) = SentAs(os, heap, e, f)
               /\ SentAs(os, heap, to, f) = {} /\ Single(Named(heap, Items(groups), f)) =>
                     Single(SentAs(new, heap, to, f))
<1> DEFINE given == Given(to, groups, fates)
           new   == os \o given
           n     == Len(os)
<1>1. /\ given \in Seq(Offers)
      /\ \A j \in DOMAIN given : given[j].at = to /\ given[j].item \in DOMAIN heap
  BY GivenFacts
<1>2. /\ \A j \in DOMAIN given : given[j].item \in Items(groups)
      /\ \A i \in Items(groups) : \E j \in DOMAIN given : given[j].item = i
      /\ \A j, k \in DOMAIN given : given[j].item = given[k].item => j = k
  <2>1. /\ \A j \in DOMAIN given : given[j].item \in Items(groups)
        /\ \A i \in Items(groups) : \E j \in DOMAIN given : given[j].item = i
        /\ Distinct(groups) =>
              \A j, k \in DOMAIN given : given[j].item = given[k].item => j = k
    BY GivenItems
  <2>. HIDE DEF given
  <2>. QED
    BY <2>1
<1>. HIDE DEF given
<1>3. /\ n \in Nat /\ DOMAIN os = 1 .. n /\ Len(given) \in Nat /\ DOMAIN given = 1 .. Len(given)
  BY <1>1, LenProperties
<1>4. /\ new \in Seq(Offers) /\ Len(new) = n + Len(given)
      /\ \A k \in 1 .. n + Len(given) : new[k] = IF k <= n THEN os[k] ELSE given[k - n]
  BY <1>1, ConcatProperties
<1>5. DOMAIN new = 1 .. n + Len(given)
  BY <1>4, LenProperties
<1>. HIDE DEF new, n
<1>6. /\ \A j \in DOMAIN os : j \in DOMAIN new /\ new[j] = os[j]
      /\ \A j \in DOMAIN given : n + j \in DOMAIN new /\ new[n + j] = given[j] /\ n + j \notin DOMAIN os
      /\ \A j \in DOMAIN new : j \in DOMAIN os \/ \E k \in DOMAIN given : j = n + k
  <2>1. \A j \in DOMAIN os : j \in DOMAIN new /\ new[j] = os[j]
    BY <1>3, <1>4, <1>5
  <2>2. ASSUME NEW j \in DOMAIN given PROVE n + j \in DOMAIN new /\ new[n + j] = given[j] /\ n + j \notin DOMAIN os
    <3>1. n + j \in 1 .. n + Len(given) /\ ~(n + j <= n) /\ (n + j) - n = j
      BY <1>3
    <3>. QED
      BY <1>3, <1>4, <1>5, <3>1
  <2>3. ASSUME NEW j \in DOMAIN new PROVE j \in DOMAIN os \/ \E k \in DOMAIN given : j = n + k
    <3>1. j \in 1 .. n + Len(given)
      BY <1>5
    <3>2. j \in 1 .. n \/ (j - n \in 1 .. Len(given) /\ j = n + (j - n))
      BY <1>3, <3>1
    <3>. QED
      BY <1>3, <3>2
  <2>. QED
    BY <2>1, <2>2, <2>3
<1>7. \A j \in DOMAIN new : (j \in DOMAIN os /\ new[j] = os[j]) \/ new[j].item \in DOMAIN heap
  BY <1>1, <1>6
<1>8. e # to => SentAs(new, heap, e, f) = SentAs(os, heap, e, f)
  BY <1>1, <1>6 DEF SentAs
<1>9. ASSUME SentAs(os, heap, to, f) = {}, Single(Named(heap, Items(groups), f))
      PROVE  Single(SentAs(new, heap, to, f))
  <2>1. PICK x : Named(heap, Items(groups), f) = {x}
    BY <1>9 DEF Single
  <2>2. x \in Items(groups) /\ heap[x].name = f /\ \A i \in Items(groups) : heap[i].name = f => i = x
    BY <2>1 DEF Named
  <2>3. PICK j \in DOMAIN given : given[j].item = x
    BY <1>2, <2>2
  <2>4. n + j \in SentAs(new, heap, to, f)
    BY <1>1, <1>6, <2>2, <2>3 DEF SentAs
  <2>5. ASSUME NEW k \in SentAs(new, heap, to, f) PROVE k = n + j
    <3>1. k \in DOMAIN new /\ new[k].at = to /\ heap[new[k].item].name = f
      BY DEF SentAs
    <3>2. k \notin DOMAIN os
      BY <1>6, <1>9, <3>1 DEF SentAs
    <3>3. PICK m \in DOMAIN given : k = n + m
      BY <1>6, <3>1, <3>2
    <3>4. given[m].item = x
      BY <1>2, <1>6, <2>2, <3>1, <3>3
    <3>. QED
      BY <1>2, <2>3, <3>3, <3>4
  <2>. QED
    BY <2>4, <2>5 DEF Single
<1>. QED
  BY <1>7, <1>8, <1>9 DEF new, given

(* The endpoint of a destination is given one of every measure; those of others are given     *)
(* nothing then.                                                                               *)
LEMMA EndpointReport ==
    ASSUME DestinationsOnce, TypeInv, ReportInv, Reporting, CallEndpoint
    PROVE  ReportOK(stack', offers', heap', Outputs[request.node])
<1> DEFINE ds == Outputs[request.node]
           d == stack[2]
           groups == Entry.groups
           p == Past(stack, ds) + 1
           e == Outputs[d.node][1]
<1>1. /\ Doing("call") /\ Role[Target] = "endpoint" /\ groups \in Seq(Sendable(heap))
      /\ UNCHANGED heap
  BY EndpointSteps
<1>2. PICK fates \in [1 .. Count(groups) -> Fates], r \in Results :
         offers' = offers \o Given(Target, groups, fates) /\ stack' = Deliver(stack, r)
  BY EndpointSteps
<1>3. Top.todo # << >> /\ Entry = Head(Top.todo) /\ Entry.do = "call"
  BY <1>1 DEF Doing, Entry
<1>4. /\ IsHeap(heap) /\ stack \in Seq(Frames) /\ stack # << >> /\ Len(stack) = 2
      /\ Len(ds) \in Nat /\ DOMAIN ds = 1 .. Len(ds) /\ p \in DOMAIN ds
  <2>1. Len(stack) = 1 => FALSE
    <3>1. SUFFICES ASSUME Len(stack) = 1 PROVE FALSE
      OBVIOUS
    <3>2. Top = stack[1] /\ Top.node = request.node /\ Entry.to = ds[p] /\ Role[ds[p]] \in {"log", "zenoss"}
      BY <1>3, <3>1, WriterFacts
    <3>3. Target = Entry.to
      BY <3>2 DEF Target, Reporting
    <3>. QED
      BY <1>1, <3>2, <3>3
  <2>2. Len(stack) = 2
    BY <2>1, WriterFacts
  <2>3. stack[1].todo # << >>
    BY <2>2, DestinationFacts
  <2>. QED
    BY <2>2, <2>3, WriterFacts
<1>5. /\ Top = d /\ FrameOK(heap, d) /\ d \in Frames /\ Neat(d) /\ d.node = ds[p] /\ d.node \in Nodes
      /\ d.todo # << >> /\ Role[d.node] = "zenoss" /\ d.item # None /\ Len(d.todo) = 1
      /\ Entry = d.todo[1] /\ Entry.to = e /\ Role[e] = "endpoint" /\ e \in Nodes
  BY <1>3, <1>4, DestinationFacts
<1>6. Target = e
  BY <1>5 DEF Target
<1>7. Distinct(groups) /\ Carried(Entry) = Items(groups)
  <2>1. 1 \in DOMAIN d.todo
    <3>1. d.todo \in Seq(Entries)
      BY <1>5 DEF Frames
    <3>. QED
      BY <1>5, <3>1, LenProperties
  <2>2. Plain(Entry)
    BY <1>5, <2>1 DEF Neat
  <2>. QED
    BY <1>3, <2>2 DEF Plain, Carried, Items
<1> DEFINE fr == Took(d, r)
<1>8. fr \in Frames /\ fr.node = d.node /\ fr.todo = << >> /\ Neat(fr)
  <2>1. fr \in Frames /\ fr.node = d.node
    BY <1>2, <1>4, <1>5, TookFrame, FrameType
  <2>2. Tail(d.todo) = << >>
    <3>1. d.todo \in Seq(Entries)
      BY <1>5 DEF Frames
    <3>2. d.todo # << >> /\ Len(d.todo) = 1
      BY <1>5
    <3>. HIDE DEF d
    <3>3. Tail(d.todo) \in Seq(Entries) /\ Len(Tail(d.todo)) = Len(d.todo) - 1
      BY <3>1, <3>2, HeadTailProperties
    <3>4. Len(Tail(d.todo)) \notin Nat \ {0}
      BY <3>2, <3>3
    <3>. QED
      BY <3>3, <3>4, EmptySeq
  <2>3. fr.todo = << >>
    <3>. HIDE DEF d
    <3>. QED
      BY <1>5, <2>2 DEF Took, Frames
  <2>4. DOMAIN fr.todo = {}
    <3>. HIDE DEF fr
    <3>. QED
      BY <2>3
  <2>. HIDE DEF fr, d
  <2>. QED
    BY <1>5, <2>1, <2>3, <2>4 DEF Neat
<1>9. stack' = Append(Front(stack), fr)
  BY <1>2, <1>4, <1>5 DEF Deliver, Top
<1>. HIDE DEF fr
<1>10. /\ Len(stack') = 2 /\ stack'[1] = stack[1] /\ stack'[2] = fr
       /\ Past(stack', ds) = Past(stack, ds)
  BY <1>4, <1>8, <1>9, DestinationReplaced
<1>11. ReportOK(stack, offers, heap, ds)
  BY DEF ReportInv
<1>12. Past(stack, ds) \in Nat /\ offers \in Seq(Offers)
  BY <1>11 DEF ReportOK, TypeInv, TypeOK
<1>13. ASSUME NEW f, NEW x
       PROVE  /\ \A j \in DOMAIN offers' : (j \in DOMAIN offers /\ offers'[j] = offers[j])
                                           \/ offers'[j].item \in DOMAIN heap
              /\ x # e => SentAs(offers', heap, x, f) = SentAs(offers, heap, x, f)
              /\ SentAs(offers, heap, e, f) = {} /\ Single(Named(heap, Items(groups), f)) =>
                    Single(SentAs(offers', heap, e, f))
  <2>1. groups \in Seq(Sendable(heap)) /\ Distinct(groups) /\ offers' = offers \o Given(e, groups, fates)
    BY <1>1, <1>2, <1>6, <1>7
  <2>. HIDE DEF e, groups
  <2>2. IsHeap(heap) /\ e \in Nodes /\ offers \in Seq(Offers)
    BY <1>4, <1>5, <1>12
  <2> DEFINE new == offers \o Given(e, groups, fates)
  <2>3. /\ \A j \in DOMAIN new : (j \in DOMAIN offers /\ new[j] = offers[j]) \/ new[j].item \in DOMAIN heap
        /\ x # e => SentAs(new, heap, x, f) = SentAs(offers, heap, x, f)
        /\ SentAs(offers, heap, e, f) = {} /\ Single(Named(heap, Items(groups), f)) =>
              Single(SentAs(new, heap, e, f))
    <3>1. fates \in [1 .. Count(groups) -> Fates]
      BY <1>2
    <3>. QED
      BY <2>1, <2>2, <3>1, GivenOnce
  <2>4. new = offers'
    BY <2>1
  <2>. HIDE DEF new
  <2>. QED
    BY <2>3, <2>4
<1>14. \A o \in DOMAIN ds : Role[ds[o]] = "zenoss" => (Outputs[ds[o]][1] = e <=> o = p)
  <2>1. SUFFICES ASSUME NEW o \in DOMAIN ds, Role[ds[o]] = "zenoss", Outputs[ds[o]][1] = e PROVE o = p
    BY <1>5
  <2>2. ds[o] \in Nodes /\ request.node \in Nodes /\ Role[request.node] = "writer"
    <3>1. request.node \in Nodes /\ Role[request.node] = "writer"
      BY WriterFacts DEF FrameOK, Reporting
    <3>. QED
      BY <3>1, OutputFacts
  <2>3. ds[o] = d.node
    BY <1>5, <2>1, <2>2, DestinationsAssumption
  <2>4. IsInjective(ds)
    BY <2>2 DEF DestinationsOnce
  <2>. HIDE DEF ds, d, p
  <2>. QED
    BY <1>4, <1>5, <2>1, <2>3, <2>4 DEF IsInjective
<1>15. \A o \in DOMAIN ds : (Through(stack', ds, o) <=> Through(stack, ds, o) \/ o = p)
                            /\ ~Through(stack, ds, p)
  <2>1. Past(stack, ds) = p - 1 /\ p \in Int
    BY <1>12
  <2>. HIDE DEF ds, d, p
  <2>. QED
    BY <1>4, <1>5, <1>8, <1>10, <1>12, <2>1 DEF Through, d
<1>16. \A j \in DOMAIN offers' : offers'[j].item \in DOMAIN heap
  BY <1>11, <1>13 DEF ReportOK
<1>17. ASSUME NEW o \in DOMAIN ds, Role[ds[o]] = "zenoss", NEW f \in Present(heap, 1)
       PROVE  IF Through(stack', ds, o) THEN Single(SentAs(offers', heap, Outputs[ds[o]][1], f))
                                        ELSE SentAs(offers', heap, Outputs[ds[o]][1], f) = {}
  <2>1. IF Through(stack, ds, o) THEN Single(SentAs(offers, heap, Outputs[ds[o]][1], f))
                                 ELSE SentAs(offers, heap, Outputs[ds[o]][1], f) = {}
    BY <1>11, <1>17 DEF ReportOK
  <2>2. CASE o = p
    <3>1. Single(Named(heap, Items(groups), f))
      BY <1>4, <1>5, <1>7, <1>11, <1>17 DEF ReportOK
    <3>2. Outputs[ds[o]][1] = e
      BY <1>5, <2>2
    <3>. HIDE DEF ds, d, p, e, groups
    <3>. QED
      BY <1>13, <1>15, <2>1, <2>2, <3>1, <3>2
  <2>3. CASE o # p
    <3>1. Outputs[ds[o]][1] # e
      BY <1>14, <1>17, <2>3
    <3>. HIDE DEF ds, d, p, e, groups
    <3>. QED
      BY <1>13, <1>15, <2>1, <2>3, <3>1
  <2>. QED
    BY <2>2, <2>3
<1>. HIDE DEF ds, d, p, e, groups
<1>18. ReportOK(stack', offers', heap, ds)
  <2>1. d = stack[2]
    BY DEF d
  <2>2. fr.node = ds[Past(stack, ds) + 1]
    BY <1>5, <1>8 DEF p
  <2>. QED
    BY <1>8, <1>10, <1>11, <1>12, <1>16, <1>17, <2>2 DEF ReportOK
<1>. QED
  BY <1>1, <1>18 DEF ds

(* The writer calls a destination: nothing of it has been sent yet.  A Zenoss destination      *)
(* makes one metric of every measure.                                                          *)
LEMMA OutputReport ==
    ASSUME TypeInv, ReportInv, Reporting, CallOutput
    PROVE  /\ ReportOK(stack', offers', heap', Outputs[request.node])
           /\ 1 \in DOMAIN heap' /\ heap'[1] = heap[1]
<1> DEFINE ds == Outputs[request.node]
           to == Target
           groups == Entry.groups
           fr == Enter(to, groups)
           p == Past(stack, ds) + 1
<1>1. /\ Doing("call") /\ Role[to] # "endpoint" /\ ~Unimplemented(to, groups)
      /\ stack' = Append(stack, fr) /\ heap' = EnterHeap(to, groups)
      /\ UNCHANGED offers
  BY DEF CallOutput
<1>2. Top.todo # << >> /\ Entry = Head(Top.todo) /\ Entry.do = "call"
  BY <1>1 DEF Doing, Entry
<1>3. Len(stack) = 1
  <2>1. Len(stack) = 2 => FALSE
    <3>1. SUFFICES ASSUME Len(stack) = 2 PROVE FALSE
      OBVIOUS
    <3>2. Role[Top.node] = "zenoss" /\ Role[Entry.to] = "endpoint"
      BY <1>2, <3>1, DestinationFacts
    <3>3. to = Entry.to
      BY <3>2 DEF Target
    <3>. QED
      BY <1>1, <3>2, <3>3
  <2>. QED
    BY <2>1, WriterFacts
<1>4. /\ IsHeap(heap) /\ stack \in Seq(Frames) /\ Top = stack[1] /\ 1 \in DOMAIN heap
      /\ Entry.to = ds[p] /\ p \in DOMAIN ds /\ Role[ds[p]] \in {"log", "zenoss"} /\ Role[Top.node] # "proxy"
  BY <1>2, <1>3, WriterFacts DEF Reporting
<1>5. to = ds[p]
  BY <1>4 DEF Target
<1>6. Acceptable(heap, to, groups)
  BY <1>1, CallFacts
<1>7. FrameOK(EnterHeap(to, groups), fr) /\ IsHeap(EnterHeap(to, groups)) /\ fr.node = to
  BY <1>1, EnteredCall
<1>8. fr \in Frames
  BY <1>7, FrameType
<1>9. ReportOK(stack, offers, heap, ds)
  BY DEF ReportInv
<1>10. /\ Neat(fr) /\ heap' \in Seq(Item)
       /\ DOMAIN heap \subseteq DOMAIN heap' /\ \A i \in DOMAIN heap : heap'[i] = heap[i]
       /\ Role[to] = "zenoss" => fr.todo # << >>
       /\ fr.todo # << >> => \A f \in Present(heap, 1) : Single(Named(heap', Carried(fr.todo[1]), f))
  <2>1. CASE Role[to] = "log"
    <3>1. fr.todo = << >> /\ heap' = heap
      BY <1>1, <2>1 DEF Enter, Frame, EnterHeap
    <3>2. DOMAIN fr.todo = {}
      <4>. HIDE DEF fr
      <4>. QED
        BY <3>1
    <3>. HIDE DEF fr, to
    <3>. QED
      BY <1>4, <1>7, <2>1, <3>1, <3>2 DEF Neat, IsHeap
  <2>2. CASE Role[to] = "zenoss"
    <3> DEFINE ids == FreshIds(Len(Built(1)))
               entry == fr.todo[1]
    <3>1. /\ Len(Built(1)) \in Nat /\ EnterHeap(to, groups) = heap \o Built(1)
          /\ Len(fr.todo) = 1
          /\ IF heap[1].kind = "component" THEN entry = Call(Outputs[to][1], <<Group("model", ids)>>)
             ELSE IF to \in Compact THEN entry = Convert(ids)
             ELSE entry = Call(Outputs[to][1], <<Group("metric", ids)>>)
      <4>. HIDE DEF to, groups
      <4>. QED
        BY <1>4, <1>6, <2>2, ZenossBegins
    <3>2. heap[1].kind = "health"
      BY DEF Reporting
    <3>3. Carried(entry) = Range(ids)
      <4>1. entry = Convert(ids) \/ entry = Call(Outputs[to][1], <<Group("metric", ids)>>)
        BY <3>1, <3>2
      <4>. HIDE DEF ids, entry
      <4>2. Carried(Convert(ids)) = Range(ids)
        BY DEF Carried, Convert
      <4>3. Carried(Call(Outputs[to][1], <<Group("metric", ids)>>)) = Range(ids)
        <5>1. \A x, g : Call(x, g).do = "call" /\ Call(x, g).groups = g
          BY DEF Call
        <5> DEFINE g == <<Group("metric", ids)>>
        <5>2. DOMAIN g = {1} /\ g[1].ids = ids
          BY DEF Group
        <5>. HIDE DEF g
        <5>3. Carried(Call(Outputs[to][1], g)) = UNION {Range(g[k].ids) : k \in DOMAIN g}
          BY <5>1 DEF Carried
        <5>4. Carried(Call(Outputs[to][1], g)) = Range(ids)
          BY <5>2, <5>3
        <5>. QED
          BY <5>4 DEF g
      <4>. QED
        BY <4>1, <4>2, <4>3
    <3>4. \A f \in Present(heap, 1) : Single(Named(heap \o Built(1), Range(ids), f))
      BY <1>4, <3>2, BuiltNames
    <3>5. heap' = heap \o Built(1)
      BY <1>1, <3>1
    <3>6. Neat(fr)
      <4>. HIDE DEF to, groups
      <4>. QED
        BY <1>4, <1>6, <2>2, ZenossLeads
    <3>7. /\ heap' \in Seq(Item)
          /\ DOMAIN heap \subseteq DOMAIN heap' /\ \A i \in DOMAIN heap : heap'[i] = heap[i]
      <4>1. Built(1) \in Seq(Item) /\ heap \in Seq(Item)
        BY <1>4, <3>2, BuiltType DEF IsHeap
      <4>2. /\ heap' \in Seq(Item) /\ Len(heap') = Len(heap) + Len(Built(1))
            /\ \A k \in 1 .. Len(heap) + Len(Built(1)) :
                  heap'[k] = IF k <= Len(heap) THEN heap[k] ELSE Built(1)[k - Len(heap)]
        BY <3>5, <4>1, ConcatProperties
      <4>3. /\ DOMAIN heap = 1 .. Len(heap) /\ Len(heap) \in Nat /\ Len(Built(1)) \in Nat
            /\ DOMAIN heap' = 1 .. Len(heap')
        BY <4>1, <4>2, LenProperties
      <4>. QED
        BY <4>2, <4>3
    <3>8. fr.todo # << >>
      <4>. HIDE DEF fr
      <4>. QED
        BY <3>1
    <3>. HIDE DEF fr, ids
    <3>. QED
      BY <3>3, <3>4, <3>5, <3>6, <3>7, <3>8 DEF entry
  <2>. QED
    BY <1>4, <1>5, <2>1, <2>2
<1>11. Present(heap', 1) = Present(heap, 1)
  BY <1>4, <1>10 DEF Present
<1>12. \A j \in DOMAIN offers : offers[j].item \in DOMAIN heap
  BY <1>9 DEF ReportOK
<1>13. \A x, f : SentAs(offers', heap', x, f) = SentAs(offers, heap, x, f)
  BY <1>1, <1>10, <1>12 DEF SentAs
<1>. HIDE DEF fr
<1>14. Len(stack') = 2 /\ stack'[1] = stack[1] /\ stack'[2] = fr
  <2>1. /\ Len(Append(stack, fr)) = Len(stack) + 1 /\ Append(stack, fr)[Len(stack) + 1] = fr
        /\ \A k \in 1 .. Len(stack) : Append(stack, fr)[k] = stack[k]
    BY <1>4, <1>8, AppendFacts
  <2>. QED
    BY <1>1, <1>3, <2>1
<1>15. Past(stack', ds) = Past(stack, ds)
  BY <1>14 DEF Past
<1>16. \A o \in DOMAIN ds : Role[ds[o]] = "zenoss" => (Through(stack', ds, o) <=> Through(stack, ds, o))
  <2>1. \A o : o = p => ds[o] = to
    BY <1>5
  <2>. QED
    BY <1>3, <1>5, <1>10, <1>14, <1>15 DEF Through
<1>17. fr.node = ds[Past(stack, ds) + 1]
  BY <1>5, <1>7 DEF fr
<1>. HIDE DEF ds, to, p, groups
<1>18. ReportOK(stack', offers', heap', ds)
  <2>1. \A j \in DOMAIN offers' : offers'[j].item \in DOMAIN heap'
    BY <1>1, <1>10, <1>12
  <2>2. Past(stack', ds) \in Nat /\ \A k \in DOMAIN stack'[1].todo : stack'[1].todo[k].to = ds[Past(stack', ds) + k]
    BY <1>9, <1>14, <1>15 DEF ReportOK
  <2>3. stack'[2].node = ds[Past(stack', ds) + 1] /\ Neat(stack'[2])
    BY <1>10, <1>14, <1>15, <1>17
  <2>4. stack'[2].todo # << >> =>
           \A f \in Present(heap', 1) : Single(Named(heap', Carried(stack'[2].todo[1]), f))
    BY <1>10, <1>11, <1>14
  <2>5. \A o \in DOMAIN ds : Role[ds[o]] = "zenoss" =>
          \A f \in Present(heap', 1) :
              IF Through(stack', ds, o) THEN Single(SentAs(offers', heap', Outputs[ds[o]][1], f))
                                        ELSE SentAs(offers', heap', Outputs[ds[o]][1], f) = {}
    BY <1>9, <1>11, <1>13, <1>16 DEF ReportOK
  <2>. QED
    BY <1>14, <2>1, <2>2, <2>3, <2>4, <2>5 DEF ReportOK
<1>. QED
  BY <1>4, <1>10, <1>18 DEF ds

(* A receiver that was called returns to its caller. *)
LEMMA ReturnsToCaller ==
    ASSUME TypeInv, Return, Len(stack) # 1
    PROVE  LET r == IF Top.item = None THEN Result(FALSE, Top.failed, Top.succeeded, Top.held)
                                       ELSE Result(Top.error, 0, 1, 0)
               f == Front(stack)
           IN  /\ Top.todo = << >> /\ r \in Results /\ UNCHANGED <<heap, offers>>
               /\ stack' = Deliver(f, r) /\ f # << >> /\ Last(f) = stack[Len(stack) - 1]
BY ReturnFacts

(* A destination that returns has sent what it had to; the writer goes on with the next.       *)
LEMMA ReturnReport ==
    ASSUME TypeInv, ReportInv, Reporting, Return, Len(stack) = 2
    PROVE  ReportOK(stack', offers', heap', Outputs[request.node])
<1> DEFINE ds == Outputs[request.node]
           w  == stack[1]
           r == IF Top.item = None THEN Result(FALSE, Top.failed, Top.succeeded, Top.held)
                                   ELSE Result(Top.error, 0, 1, 0)
           fr == Took(w, r)
           f  == Front(stack)
<1>1. /\ Top.todo = << >> /\ r \in Results /\ UNCHANGED <<heap, offers>>
      /\ stack' = Deliver(f, r) /\ f # << >> /\ Last(f) = stack[Len(stack) - 1]
  <2>1. Len(stack) # 1
    OBVIOUS
  <2>. QED
    BY <2>1, ReturnsToCaller
<1>2. /\ IsHeap(heap) /\ stack \in Seq(Frames) /\ stack # << >> /\ FrameOK(heap, w) /\ w \in Frames
      /\ w.item = None /\ Len(ds) \in Nat
  BY WriterFacts
<1>3. Top = stack[2] /\ w.todo # << >>
  BY DestinationFacts
<1>4. f \in Seq(Frames) /\ Len(f) = 1 /\ Last(f) = w
  <2>1. Len(stack) - 1 = 1
    OBVIOUS
  <2>2. f \in Seq(Frames) /\ Len(f) = Len(stack) - 1
    BY <1>2, FrontLast
  <2>. HIDE DEF f
  <2>. QED
    BY <1>1, <2>1, <2>2
<1>5. fr \in Frames /\ fr.todo = Tail(w.todo)
  <2>1. fr \in Frames
    BY <1>1, <1>2, <1>3, TookFrame, FrameType
  <2>. HIDE DEF w, r
  <2>. QED
    BY <1>2, <2>1 DEF Took, Frames
<1>6. stack' = Append(Front(f), fr)
  BY <1>1, <1>4 DEF Deliver
<1>. HIDE DEF r, f, fr
<1>7. Len(stack') = 1 /\ stack'[1] = fr
  <2>1. Len(Append(Front(f), fr)) = Len(f) /\ Append(Front(f), fr)[Len(f)] = fr
    BY <1>1, <1>4, <1>5, FrontAppended
  <2>. QED
    BY <1>4, <1>6, <2>1
<1>8. /\ Len(w.todo) \in Nat \ {0} /\ Len(fr.todo) = Len(w.todo) - 1
      /\ DOMAIN w.todo = 1 .. Len(w.todo) /\ DOMAIN fr.todo = 1 .. Len(w.todo) - 1
      /\ \A k \in 1 .. Len(w.todo) - 1 : fr.todo[k] = w.todo[k + 1]
  <2>1. w.todo \in Seq(Entries)
    BY <1>2 DEF Frames
  <2> DEFINE s == w.todo
             t == Tail(s)
  <2>2. s \in Seq(Entries) /\ s # << >> /\ fr.todo = t
    BY <1>3, <1>5, <2>1
  <2>. HIDE DEF s
  <2>3. t \in Seq(Entries) /\ Len(t) = Len(s) - 1 /\ \A k \in 1 .. Len(t) : t[k] = s[k + 1]
    BY <2>2, HeadTailProperties
  <2>4. Len(s) \in Nat \ {0} /\ DOMAIN s = 1 .. Len(s) /\ DOMAIN t = 1 .. Len(t)
    BY <2>2, <2>3, LenProperties, EmptySeq
  <2>. HIDE DEF t
  <2>. QED
    BY <2>2, <2>3, <2>4 DEF s
<1>9. ReportOK(stack, offers, heap, ds)
  BY DEF ReportInv
<1> DEFINE m == Len(w.todo)
           n == Len(ds)
           past == Past(stack, ds)
<1>10. past = n - m /\ past \in Nat /\ Past(stack', ds) = past + 1
  <2>1. past \in Nat
    BY <1>9 DEF ReportOK
  <2>2. past = n - m /\ Past(stack', ds) = n - Len(fr.todo) /\ Len(fr.todo) = m - 1 /\ n \in Nat /\ m \in Nat
    BY <1>2, <1>7, <1>8 DEF Past
  <2>. HIDE DEF past, n, m
  <2>. QED
    BY <2>1, <2>2
<1>11. \A k \in DOMAIN fr.todo : fr.todo[k].to = ds[Past(stack', ds) + k]
  <2>1. SUFFICES ASSUME NEW k \in DOMAIN fr.todo PROVE fr.todo[k].to = ds[Past(stack', ds) + k]
    OBVIOUS
  <2>2. k \in 1 .. m - 1 /\ m \in Nat
    BY <1>8
  <2>3. k + 1 \in 1 .. m /\ past + (k + 1) = Past(stack', ds) + k
    <3>. HIDE DEF past, m, n
    <3>. QED
      BY <1>10, <2>2
  <2>4. w.todo[k + 1].to = ds[past + (k + 1)]
    BY <1>8, <1>9, <2>3 DEF ReportOK
  <2>. QED
    BY <1>8, <2>2, <2>3, <2>4
<1>12. \A o : o \in DOMAIN ds => (Through(stack', ds, o) <=> Through(stack, ds, o))
  <2>1. stack[2].todo = << >>
    BY <1>1, <1>3
  <2>2. \A o : Through(stack, ds, o) <=> o <= past \/ o = past + 1
    BY <2>1 DEF Through
  <2>3. \A o : Through(stack', ds, o) <=> o <= past + 1
    BY <1>7, <1>10 DEF Through
  <2>4. DOMAIN ds \subseteq Int
    BY WriterFacts
  <2>. HIDE DEF past, ds
  <2>5. \A o \in Int : o <= past + 1 <=> o <= past \/ o = past + 1
    BY <1>10
  <2>. QED
    BY <2>2, <2>3, <2>4, <2>5
<1>. HIDE DEF ds, w, past, n, m
<1>13. Len(stack') \in {1, 2} /\ ~(Len(stack') = 2)
  BY <1>7
<1>14. ReportOK(stack', offers, heap, ds)
  <2>1. \A j \in DOMAIN offers : offers[j].item \in DOMAIN heap
    BY <1>9 DEF ReportOK
  <2>2. Past(stack', ds) \in Nat /\ \A k \in DOMAIN stack'[1].todo : stack'[1].todo[k].to = ds[Past(stack', ds) + k]
    <3>1. past + 1 \in Nat
      BY <1>10
    <3>. QED
      BY <1>7, <1>10, <1>11, <3>1
  <2>3. \A o \in DOMAIN ds : Role[ds[o]] = "zenoss" =>
          \A x \in Present(heap, 1) :
              IF Through(stack', ds, o) THEN Single(SentAs(offers, heap, Outputs[ds[o]][1], x))
                                        ELSE SentAs(offers, heap, Outputs[ds[o]][1], x) = {}
    BY <1>9, <1>12 DEF ReportOK
  <2>. QED
    BY <1>13, <2>1, <2>2, <2>3 DEF ReportOK
<1>. QED
  BY <1>1, <1>14 DEF ds

(* When the writer returns all destinations have. *)
LEMMA WriterReturns ==
    ASSUME TypeInv, ReportInv, Reporting, Return, Len(stack) = 1
    PROVE  HealthSentOnce'
<1> DEFINE ds == Outputs[request.node]
<1>1. Top.todo = << >> /\ UNCHANGED <<heap, offers, request>>
  BY ReturnFacts
<1>2. Top = stack[1] /\ Len(ds) \in Nat /\ DOMAIN ds = 1 .. Len(ds) /\ 1 \in DOMAIN heap
  BY WriterFacts
<1>3. Past(stack, ds) = Len(ds)
  <2>1. Len(stack[1].todo) = 0
    BY <1>1, <1>2
  <2>. QED
    BY <1>2, <2>1 DEF Past
<1>4. ASSUME NEW o \in DOMAIN ds, Role[ds[o]] = "zenoss", NEW f \in Present(heap, 1)
      PROVE  Cardinality(SentAs(offers, heap, Outputs[ds[o]][1], f)) = 1
  <2>1. Through(stack, ds, o)
    BY <1>2, <1>3 DEF Through
  <2>2. Single(SentAs(offers, heap, Outputs[ds[o]][1], f))
    BY <1>4, <2>1 DEF ReportInv, ReportOK
  <2>3. PICK x : SentAs(offers, heap, Outputs[ds[o]][1], f) = {x}
    BY <2>2 DEF Single
  <2>. QED
    BY <2>3, FS_Singleton
<1>5. \A d \in ToSet(ds) : \E o \in DOMAIN ds : d = ds[o]
  BY DEF ToSet
<1>6. ASSUME NEW d \in ToSet(ds), Role[d] = "zenoss", NEW f \in Present(heap, 1)
      PROVE  Cardinality({j \in DOMAIN offers : /\ offers[j].at = Outputs[d][1]
                                                /\ heap[offers[j].item].name = f}) = 1
  <2>1. PICK o \in DOMAIN ds : d = ds[o]
    BY <1>5, <1>6
  <2>. QED
    BY <1>4, <1>6, <2>1 DEF SentAs
<1>. QED
  BY <1>1, <1>6 DEF HealthSentOnce

(* A report that has come. *)
LEMMA ReceiveReport ==
    ASSUME NEW q \in Requests, Receive(q)
    PROVE  ReportInv'
<1>1. /\ request' = q /\ heap' = q.items /\ offers' = << >>
      /\ pc' = "serve" => ~Unimplemented(q.node, q.groups) /\ stack' = <<Enter(q.node, q.groups)>>
      /\ pc' = "idle" => Unimplemented(q.node, q.groups)
  BY DEF Receive
<1>2. pc' = "idle" => Role[q.node] # "writer"
  BY <1>1 DEF Unimplemented
<1>3. ASSUME pc' = "serve", Role[q.node] = "writer"
      PROVE  /\ 1 \in DOMAIN q.items
             /\ ReportOK(<<Enter(q.node, q.groups)>>, << >>, q.items, Outputs[q.node])
  <2> DEFINE ds == Outputs[q.node]
             fr == Enter(q.node, q.groups)
  <2>1. q.node \in Nodes /\ Acceptable(q.items, q.node, q.groups)
    BY <1>1, <1>3, RequestFacts
  <2>2. 1 \in DOMAIN q.items
    BY <1>3, <2>1 DEF Acceptable, ReportKind
  <2>3. Len(ds) \in Nat /\ DOMAIN ds = 1 .. Len(ds)
    BY <2>1, OutputFacts
  <2>4. fr.todo = [o \in DOMAIN ds |-> Call(ds[o], q.groups)]
    BY <1>3 DEF Enter, Frame, WriterAgenda
  <2>5. fr.todo \in Seq(Entries)
    <3>1. fr \in Frames
      BY <1>3, <2>1, RequestFacts, Entered, FrameType
    <3>. HIDE DEF fr
    <3>. QED
      BY <3>1 DEF Frames
  <2>6. DOMAIN fr.todo = 1 .. Len(fr.todo) /\ Len(fr.todo) \in Nat
    <3>. HIDE DEF fr
    <3>. QED
      BY <2>5, LenProperties
  <2>. HIDE DEF ds, fr
  <2>7. \A a, b \in Nat : 1 .. a = 1 .. b => a = b
    OBVIOUS
  <2>8. Len(fr.todo) = Len(ds)
    BY <2>3, <2>4, <2>6, <2>7
  <2>9. \A k \in DOMAIN fr.todo : fr.todo[k].to = ds[k]
    BY <2>4 DEF Call
  <2> DEFINE st == <<fr>>
  <2>10. Len(st) = 1 /\ st[1] = fr
    OBVIOUS
  <2>. HIDE DEF st
  <2>11. Past(st, ds) = 0
    BY <2>3, <2>8, <2>10 DEF Past
  <2>12. \A k \in DOMAIN st[1].todo : st[1].todo[k].to = ds[Past(st, ds) + k]
    BY <2>6, <2>9, <2>10, <2>11
  <2>13. \A o \in DOMAIN ds : ~Through(st, ds, o)
    BY <2>3, <2>10, <2>11 DEF Through
  <2>14. \A h, x, f : SentAs(<< >>, h, x, f) = {}
    BY DEF SentAs
  <2>15. ReportOK(st, << >>, q.items, ds)
    BY <2>10, <2>11, <2>12, <2>13, <2>14 DEF ReportOK
  <2>. QED
    BY <2>2, <2>15 DEF st, ds, fr
<1>. QED
  BY <1>1, <1>2, <1>3 DEF ReportInv, Reporting, HealthSentOnce

(* Every step keeps the invariant. *)
LEMMA StepReport ==
    ASSUME DestinationsOnce
    PROVE  TypeInv /\ ReportInv /\ [Next]_vars => ReportInv'
<1> SUFFICES ASSUME TypeInv, ReportInv, [Next]_vars PROVE ReportInv'
  OBVIOUS
<1>1. CASE SetConfig \/ \E w \in setting : SetAllowed(w) \/ SetOutput(w)
  <2>1. UNCHANGED <<pc, heap, stack, offers, request, answer>>
    BY <1>1 DEF SetConfig, SetAllowed, SetOutput, history
  <2>. QED
    BY <2>1 DEF ReportInv, Reporting, HealthSentOnce
<1>2. ASSUME NEW q \in Requests, Receive(q) PROVE ReportInv'
  BY <1>2, ReceiveReport
<1>3. CASE CheckAPIKey \/ LookUpAPIKey
  <2>1. Role[request.node] = "proxy" /\ UNCHANGED request
    BY <1>3 DEF CheckAPIKey, LookUpAPIKey, TypeInv, Shape
  <2>. QED
    BY <2>1 DEF ReportInv, Reporting, HealthSentOnce
<1>4. CASE UNCHANGED vars
  <2>1. UNCHANGED <<pc, heap, stack, offers, request, answer>>
    BY <1>4 DEF vars, history
  <2>. QED
    BY <2>1 DEF ReportInv, Reporting, HealthSentOnce
<1>5. CASE CallStep
  <2>1. /\ pc = "serve" /\ UNCHANGED request /\ Grows(heap, heap')
        /\ pc' = "serve" \/ (Return /\ Len(stack) = 1 /\ pc' = "idle")
    BY <1>5, CallSteps DEF Keeps
  <2>2. CASE Role[request.node] # "writer"
    BY <2>1, <2>2 DEF ReportInv, Reporting, HealthSentOnce
  <2>3. CASE Role[request.node] = "writer" /\ heap[1].kind # "health"
    <3>1. 1 \in DOMAIN heap
      BY <2>1, <2>3 DEF ReportInv
    <3>2. 1 \in DOMAIN heap' /\ heap'[1].kind # "health"
      BY <2>1, <2>3, <3>1 DEF Grows
    <3>. QED
      BY <2>1, <2>3, <3>2 DEF ReportInv, Reporting, HealthSentOnce
  <2>4. CASE Role[request.node] = "writer" /\ heap[1].kind = "health"
    <3>1. Reporting
      BY <2>1, <2>4 DEF Reporting
    <3>2. 1 \in DOMAIN heap
      BY <2>1, <2>4 DEF ReportInv
    <3>3. 1 \in DOMAIN heap'
      BY <2>1, <3>2 DEF Grows
    <3>4. CASE Return /\ Len(stack) = 1
      <4>1. HealthSentOnce' /\ pc' = "idle"
        BY <3>1, <3>4, WriterReturns, ReturnFacts
      <4>. QED
        BY <4>1 DEF ReportInv, Reporting
    <3>5. CASE ~(Return /\ Len(stack) = 1)
      <4>1. pc' = "serve"
        BY <2>1, <3>5
      <4>2. SUFFICES ReportOK(stack', offers', heap', Outputs[request.node])
        BY <2>1, <3>3, <4>1 DEF ReportInv, Reporting, HealthSentOnce
      <4>3. CASE CallOutput
        BY <3>1, <4>3, OutputReport
      <4>4. CASE CallEndpoint
        BY <3>1, <4>4, EndpointReport
      <4>5. CASE Return
        BY <3>1, <3>5, <4>5, WriterFacts, ReturnReport
      <4>6. CASE ConvertMetrics
        BY <3>1, <4>6, ConvertReport
      <4>7. CASE CallUnimplemented
        <5>1. Role[Target] \in {"proxy", "processor"} /\ Doing("call")
          BY <4>7 DEF CallUnimplemented, Unimplemented
        <5>2. Top.todo # << >> /\ Entry = Head(Top.todo) /\ Entry.do = "call"
          BY <5>1 DEF Doing, Entry
        <5>3. Role[Top.node] # "proxy" /\ Role[Entry.to] \in {"log", "zenoss", "endpoint"}
          BY <3>1, <5>2, WriterFacts, DestinationFacts DEF Reporting
        <5>. QED
          BY <5>1, <5>3 DEF Target
      <4>8. CASE TakeItem \/ ApplyRule \/ FailAction \/ Signal \/ Change \/ Create
        <5>1. Role[Top.node] = "processor" /\ Top.todo # << >>
          BY <4>8, ItemSteps DEF TakeItem, ApplyRule, FailAction, Signal, Change, Create, Acting, Doing
        <5>2. Role[Top.node] \in {"writer", "log", "zenoss"}
          BY <3>1, <5>1, WriterFacts, DestinationFacts DEF Reporting
        <5>. QED
          BY <5>1, <5>2
      <4>. QED
        BY <1>5, <4>3, <4>4, <4>5, <4>6, <4>7, <4>8 DEF CallStep
    <3>. QED
      BY <3>4, <3>5
  <2>. QED
    BY <2>2, <2>3, <2>4
<1>6. CASE Panic
  <2>1. pc = "serve" /\ pc' = "panicked" /\ UNCHANGED <<request, heap, offers, answer>>
    BY <1>6, PanicFacts
  <2>. QED
    BY <2>1 DEF ReportInv, Reporting, HealthSentOnce
<1>. QED
  BY <1>1, <1>2, <1>3, <1>4, <1>5, <1>6 DEF Next, Serve, CallStep

(* Every Zenoss destination sends every measure of a report once, whatever its endpoint could  *)
(* convert and whichever destinations fail, if the writer has no destination twice.            *)
THEOREM ReceiversSendHealthOnce ==
    ASSUME DestinationsOnce
    PROVE  Spec => []HealthSentOnce
<1>1. Init => ReportInv
  BY DEF Init, ReportInv, Reporting, HealthSentOnce
<1>2. TypeInv /\ ReportInv /\ [Next]_vars => ReportInv'
  BY StepReport
<1>3. ReportInv => HealthSentOnce
  BY DEF ReportInv
<1>. QED
  BY <1>1, <1>2, <1>3, InitTyped, StepKeepsType, PTL DEF Spec
=============================================================================
