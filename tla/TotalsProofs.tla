----------------------------- MODULE TotalsProofs -----------------------------
(***************************************************************************)
(* Facts about totals and flattened sequences, for the modules that prove. *)
(* What holds of every natural number is proved with a set of numbers.     *)
(***************************************************************************)
EXTENDS Totals, SequencesExt, TLAPS, SequenceTheorems, FiniteSetTheorems, WellFoundedInduction

LEMMA NatSetInduction ==
    ASSUME NEW S, 0 \in S, \A n \in Nat : n \in S => n + 1 \in S
    PROVE  Nat \subseteq S
<1> DEFINE T == Nat \ S
<1>1. SUFFICES ASSUME T # {} PROVE FALSE
  OBVIOUS
<1>2. \E x \in T : \A y \in T : ~(<<y, x>> \in OpToRel(<, Nat))
  BY <1>1, NatLessThanWellFounded, WFMin
<1>3. PICK x \in T : \A y \in T : ~(y < x)
  <2>1. \A x, y \in Nat : <<y, x>> \in OpToRel(<, Nat) <=> y < x
    BY DEF OpToRel
  <2>. QED
    BY <1>2, <2>1
<1>4. x # 0 /\ x - 1 \in Nat /\ x - 1 < x
  BY <1>3
<1>5. x - 1 \in S
  BY <1>3, <1>4
<1>. QED
  BY <1>3, <1>4, <1>5

-----------------------------------------------------------------------------
(* Totals. *)

Pairs(h) == UNION {{x} \X (1 .. h[x]) : x \in DOMAIN h}

LEMMA ColumnCardinality ==
    ASSUME NEW x, NEW n \in Nat
    PROVE  IsFiniteSet({x} \X (1 .. n)) /\ Cardinality({x} \X (1 .. n)) = n
<1>1. IsFiniteSet({x}) /\ Cardinality({x}) = 1
  BY FS_Singleton
<1>2. IsFiniteSet(1 .. n) /\ Cardinality(1 .. n) = n
  BY FS_Interval
<1> DEFINE S == {x}
           T == 1 .. n
<1>. HIDE DEF S, T
<1>3. IsFiniteSet(S \X T) /\ Cardinality(S \X T) = Cardinality(S) * Cardinality(T)
  BY <1>1, <1>2, FS_Product DEF S, T
<1>4. Cardinality(S) = 1 /\ Cardinality(T) = n
  BY <1>1, <1>2 DEF S, T
<1>5. Cardinality(S) * Cardinality(T) = n
  BY <1>4
<1>. QED
  BY <1>3, <1>5 DEF S, T

LEMMA PairsFinite ==
    ASSUME NEW I, IsFiniteSet(I), NEW h \in [I -> Nat]
    PROVE  IsFiniteSet(Pairs(h)) /\ Total(h) = Cardinality(Pairs(h)) /\ Total(h) \in Nat
<1> DEFINE columns == {{x} \X (1 .. h[x]) : x \in I}
           column  == [x \in I |-> {x} \X (1 .. h[x])]
<1>1. column \in Surjection(I, columns)
  BY DEF Surjection
<1>2. IsFiniteSet(columns)
  <2>. HIDE DEF column, columns
  <2>. QED
    BY <1>1, FS_Surjection
<1>3. ASSUME NEW T \in columns PROVE IsFiniteSet(T)
  <2>1. PICK x \in I : T = {x} \X (1 .. h[x])
    OBVIOUS
  <2>2. h[x] \in Nat
    OBVIOUS
  <2>. QED
    BY <2>1, <2>2, ColumnCardinality
<1>4. Pairs(h) = UNION columns
  BY DEF Pairs
<1>. HIDE DEF columns
<1>5. IsFiniteSet(Pairs(h))
  BY <1>2, <1>3, <1>4, FS_UNION
<1>. QED
  BY <1>5, FS_CardinalityType DEF Total, Pairs

(* A total is that of any part of the function and that of the rest. *)
LEMMA TotalSplit ==
    ASSUME NEW I, IsFiniteSet(I), NEW h \in [I -> Nat], NEW x \in I
    PROVE  Total(h) = Total([y \in I \ {x} |-> h[y]]) + h[x]
<1> DEFINE rest == [y \in I \ {x} |-> h[y]]
           column == {x} \X (1 .. h[x])
<1>1. IsFiniteSet(I \ {x}) /\ rest \in [I \ {x} -> Nat]
  BY FS_RemoveElement
<1>2. Pairs(h) = Pairs(rest) \cup column
  BY DEF Pairs
<1>3. Pairs(rest) \cap column = {}
  BY DEF Pairs
<1>. HIDE DEF rest
<1>4. /\ IsFiniteSet(Pairs(rest)) /\ Total(rest) = Cardinality(Pairs(rest))
      /\ Total(rest) \in Nat /\ Total(h) = Cardinality(Pairs(h))
  BY <1>1, PairsFinite
<1>5. IsFiniteSet(column) /\ Cardinality(column) = h[x]
  BY ColumnCardinality
<1>. HIDE DEF column
<1>6. Cardinality(Pairs(rest) \cap column) = 0
  BY <1>3, FS_EmptySet
<1>7. Cardinality(Pairs(h)) = Cardinality(Pairs(rest)) + Cardinality(column) - 0
  BY <1>2, <1>4, <1>5, <1>6, FS_Union
<1>8. Total(h) = Total(rest) + h[x]
  BY <1>4, <1>5, <1>7
<1>. QED
  BY <1>8 DEF rest

(* One value changed. *)
LEMMA TotalExcept ==
    ASSUME NEW I, IsFiniteSet(I), NEW h \in [I -> Nat], NEW g \in [I -> Nat],
           NEW x \in I, \A y \in I \ {x} : g[y] = h[y]
    PROVE  Total(g) = Total(h) + g[x] - h[x]
<1> DEFINE rest == [y \in I \ {x} |-> h[y]]
<1>1. rest = [y \in I \ {x} |-> g[y]] /\ rest \in [I \ {x} -> Nat] /\ IsFiniteSet(I \ {x})
  BY FS_RemoveElement
<1>. HIDE DEF rest
<1>2. Total(rest) \in Nat
  BY <1>1, PairsFinite
<1>3. Total(h) = Total(rest) + h[x]
  BY TotalSplit DEF rest
<1>4. Total(g) = Total(rest) + g[x]
  BY <1>1, TotalSplit
<1>. QED
  BY <1>2, <1>3, <1>4

(* The same values under other names. *)
LEMMA TotalRenamed ==
    ASSUME NEW I, NEW J, IsFiniteSet(I), NEW h \in [I -> Nat], NEW g \in [J -> Nat],
           NEW f \in Bijection(I, J), \A x \in I : g[f[x]] = h[x]
    PROVE  Total(g) = Total(h)
<1> DEFINE F == [p \in Pairs(h) |-> <<f[p[1]], p[2]>>]
<1>1. /\ f \in [I -> J]
      /\ \A x, y \in I : f[x] = f[y] => x = y
      /\ \A z \in J : \E x \in I : f[x] = z
  BY DEF Bijection, Injection, IsInjective, Surjection
<1>2. /\ \A p \in Pairs(h) : p = <<p[1], p[2]>> /\ p[1] \in I /\ p[2] \in 1 .. h[p[1]]
      /\ \A x \in I : \A n \in 1 .. h[x] : <<x, n>> \in Pairs(h)
      /\ \A p \in Pairs(g) : p = <<p[1], p[2]>> /\ p[1] \in J /\ p[2] \in 1 .. g[p[1]]
      /\ \A z \in J : \A n \in 1 .. g[z] : <<z, n>> \in Pairs(g)
  BY DEF Pairs
<1>3. F \in [Pairs(h) -> Pairs(g)]
  BY <1>1, <1>2
<1>4. ASSUME NEW p \in Pairs(h), NEW q \in Pairs(h), F[p] = F[q] PROVE p = q
  BY <1>1, <1>2, <1>4
<1>5. ASSUME NEW q \in Pairs(g) PROVE \E p \in Pairs(h) : F[p] = q
  <2>1. PICK x \in I : f[x] = q[1]
    BY <1>1, <1>2
  <2>2. <<x, q[2]>> \in Pairs(h)
    BY <1>2, <2>1
  <2>. QED
    BY <1>2, <2>1, <2>2
<1>6. F \in Bijection(Pairs(h), Pairs(g))
  <2>. HIDE DEF F
  <2>. QED
    BY <1>3, <1>4, <1>5 DEF Bijection, Injection, IsInjective, Surjection
<1>7. IsFiniteSet(J)
  BY FS_Bijection DEF ExistsBijection
<1>8. IsFiniteSet(Pairs(h)) /\ Total(h) = Cardinality(Pairs(h)) /\ Total(g) = Cardinality(Pairs(g))
  BY <1>7, PairsFinite
<1>. HIDE DEF F
<1>. QED
  BY <1>6, <1>8, FS_Bijection DEF ExistsBijection

LEMMA TotalOfNone ==
    ASSUME NEW h, \A x \in DOMAIN h : h[x] = 0
    PROVE  Total(h) = 0
<1>1. UNION {{x} \X (1 .. h[x]) : x \in DOMAIN h} = {}
  BY SMT
<1>. QED
  BY <1>1, FS_EmptySet DEF Total

-----------------------------------------------------------------------------
(* Flattened sequences. *)

(* The prefixes of a flattened sequence, as FlattenSeq makes them. *)
CountingPrefixes(seqs, n, g) ==
    g = [i \in 1 .. n |-> IF i = 1 THEN seqs[i] ELSE g[i - 1] \o seqs[i]]

LEMMA PrefixesExist ==
    ASSUME NEW seqs
    PROVE  \A n \in Nat : \E g : CountingPrefixes(seqs, n, g)
<1> DEFINE D == {n \in Nat : \E g : CountingPrefixes(seqs, n, g)}
<1>1. 0 \in D
  <2> DEFINE g == [i \in {} |-> 0]
  <2>1. CountingPrefixes(seqs, 0, g)
    BY DEF CountingPrefixes
  <2>. QED
    BY <2>1
<1>2. ASSUME NEW n \in Nat, n \in D PROVE n + 1 \in D
  <2>1. PICK g : CountingPrefixes(seqs, n, g)
    BY <1>2
  <2> DEFINE last == IF n = 0 THEN seqs[1] ELSE g[n] \o seqs[n + 1]
             h    == [i \in 1 .. n + 1 |-> IF i = n + 1 THEN last ELSE g[i]]
  <2>2. \A i \in 1 .. n : g[i] = IF i = 1 THEN seqs[i] ELSE g[i - 1] \o seqs[i]
    BY <2>1 DEF CountingPrefixes
  <2>3. ASSUME NEW i \in 1 .. n + 1
        PROVE  h[i] = IF i = 1 THEN seqs[i] ELSE h[i - 1] \o seqs[i]
    <3>1. CASE i = n + 1
      BY <3>1
    <3>2. CASE i # n + 1
      <4>1. i \in 1 .. n /\ (i = 1 \/ i - 1 \in 1 .. n)
        BY <3>2
      <4>. HIDE DEF last
      <4>2. h[i] = g[i] /\ (i # 1 => h[i - 1] = g[i - 1])
        BY <3>2, <4>1
      <4>. QED
        BY <2>2, <4>1, <4>2
    <3>. QED
      BY <3>1, <3>2
  <2>4. h = [i \in 1 .. n + 1 |-> h[i]]
    OBVIOUS
  <2>. HIDE DEF h
  <2>5. CountingPrefixes(seqs, n + 1, h)
    BY <2>3, <2>4 DEF CountingPrefixes
  <2>. QED
    BY <2>5
<1>. HIDE DEF D
<1>3. Nat \subseteq D
  BY <1>1, <1>2, NatSetInduction
<1>. QED
  BY <1>3 DEF D

(* The places in a sequence of sequences, up to the n-th. *)
Places(seqs, n) == UNION {{i} \X DOMAIN seqs[i] : i \in 1 .. n}

(* A sequence has what is at the places of a sequence of sequences, each of it once. *)
Flattens(s, seqs, n) ==
    \E f \in Bijection(DOMAIN s, Places(seqs, n)) :
        \A j \in DOMAIN s : s[j] = seqs[f[j][1]][f[j][2]]

LEMMA FlattensOne ==
    ASSUME NEW S, NEW seqs, seqs[1] \in Seq(S)
    PROVE  Flattens(seqs[1], seqs, 1)
<1> DEFINE s == seqs[1]
           f == [j \in DOMAIN s |-> <<1, j>>]
<1>1. Places(seqs, 1) = {1} \X DOMAIN s
  BY DEF Places
<1>2. f \in Bijection(DOMAIN s, Places(seqs, 1))
  <2>1. f \in [DOMAIN s -> {1} \X DOMAIN s]
    OBVIOUS
  <2>2. \A x, y \in DOMAIN s : f[x] = f[y] => x = y
    OBVIOUS
  <2>3. \A p \in {1} \X DOMAIN s : \E x \in DOMAIN s : f[x] = p
    OBVIOUS
  <2>. HIDE DEF f, s
  <2>. QED
    BY <1>1, <2>1, <2>2, <2>3 DEF Bijection, Injection, IsInjective, Surjection
<1>3. \A j \in DOMAIN s : s[j] = seqs[f[j][1]][f[j][2]]
  OBVIOUS
<1>. QED
  BY <1>2, <1>3 DEF Flattens

LEMMA FlattensMore ==
    ASSUME NEW S, NEW seqs, NEW n \in Nat, NEW s \in Seq(S), NEW t \in Seq(S),
           seqs[n + 1] = t, Flattens(s, seqs, n)
    PROVE  Flattens(s \o t, seqs, n + 1)
<1>1. PICK f \in Bijection(DOMAIN s, Places(seqs, n)) :
          \A j \in DOMAIN s : s[j] = seqs[f[j][1]][f[j][2]]
  BY DEF Flattens
<1> DEFINE u == s \o t
           g == [j \in DOMAIN u |-> IF j <= Len(s) THEN f[j] ELSE <<n + 1, j - Len(s)>>]
<1>2. /\ Len(s) \in Nat /\ Len(t) \in Nat /\ DOMAIN s = 1 .. Len(s) /\ DOMAIN t = 1 .. Len(t)
      /\ u \in Seq(S) /\ Len(u) = Len(s) + Len(t) /\ DOMAIN u = 1 .. Len(s) + Len(t)
      /\ \A j \in DOMAIN u : u[j] = IF j <= Len(s) THEN s[j] ELSE t[j - Len(s)]
  BY ConcatProperties, LenProperties
<1>3. /\ f \in [DOMAIN s -> Places(seqs, n)]
      /\ \A x, y \in DOMAIN s : f[x] = f[y] => x = y
      /\ \A p \in Places(seqs, n) : \E x \in DOMAIN s : f[x] = p
  BY <1>1 DEF Bijection, Injection, IsInjective, Surjection
<1>4. /\ Places(seqs, n + 1) = Places(seqs, n) \cup ({n + 1} \X DOMAIN t)
      /\ \A p \in Places(seqs, n) : p[1] # n + 1
  <2>1. 1 .. n + 1 = (1 .. n) \cup {n + 1}
    OBVIOUS
  <2>. QED
    BY <2>1 DEF Places
<1>. HIDE DEF u
<1>5. ASSUME NEW j \in DOMAIN u
      PROVE  /\ j <= Len(s) => j \in DOMAIN s /\ g[j] = f[j] /\ g[j] \in Places(seqs, n)
             /\ ~(j <= Len(s)) => /\ j - Len(s) \in DOMAIN t
                                  /\ g[j] = <<n + 1, j - Len(s)>>
  BY <1>2, <1>3
<1>6. g \in [DOMAIN u -> Places(seqs, n + 1)]
  <2>1. \A j \in DOMAIN u : g[j] \in Places(seqs, n + 1)
    BY <1>4, <1>5
  <2>2. g = [j \in DOMAIN u |-> g[j]]
    OBVIOUS
  <2>. HIDE DEF g
  <2>. QED
    BY <2>1, <2>2
<1>7. ASSUME NEW x \in DOMAIN u, NEW y \in DOMAIN u, g[x] = g[y] PROVE x = y
  <2>. HIDE DEF g
  <2>1. CASE x <= Len(s) /\ y <= Len(s)
    BY <1>3, <1>5, <1>7, <2>1
  <2>2. CASE x <= Len(s) /\ ~(y <= Len(s))
    <3>1. g[x][1] # n + 1 /\ g[y][1] = n + 1
      BY <1>4, <1>5, <2>2
    <3>. QED
      BY <1>7, <3>1
  <2>3. CASE ~(x <= Len(s)) /\ y <= Len(s)
    <3>1. g[y][1] # n + 1 /\ g[x][1] = n + 1
      BY <1>4, <1>5, <2>3
    <3>. QED
      BY <1>7, <3>1
  <2>4. CASE ~(x <= Len(s)) /\ ~(y <= Len(s))
    <3>1. <<n + 1, x - Len(s)>> = <<n + 1, y - Len(s)>>
      BY <1>5, <1>7, <2>4
    <3>2. x - Len(s) = y - Len(s)
      BY <3>1
    <3>. QED
      BY <1>2, <3>2
  <2>. QED
    BY <2>1, <2>2, <2>3, <2>4
<1>8. ASSUME NEW p \in Places(seqs, n + 1) PROVE \E x \in DOMAIN u : g[x] = p
  <2>. HIDE DEF g
  <2>1. CASE p \in Places(seqs, n)
    <3>1. PICK x \in DOMAIN s : f[x] = p
      BY <1>3, <2>1
    <3>2. x \in DOMAIN u /\ x <= Len(s)
      BY <1>2
    <3>. QED
      BY <1>5, <3>1, <3>2
  <2>2. CASE p \in {n + 1} \X DOMAIN t
    <3>1. PICK y \in DOMAIN t : p = <<n + 1, y>>
      BY <2>2
    <3>2. y + Len(s) \in DOMAIN u /\ ~(y + Len(s) <= Len(s)) /\ (y + Len(s)) - Len(s) = y
      BY <1>2
    <3>. QED
      BY <1>5, <3>1, <3>2
  <2>. QED
    BY <1>4, <2>1, <2>2
<1>9. \A j \in DOMAIN u : u[j] = seqs[g[j][1]][g[j][2]]
  <2>. HIDE DEF g
  <2>1. ASSUME NEW j \in DOMAIN u PROVE u[j] = seqs[g[j][1]][g[j][2]]
    <3>1. CASE j <= Len(s)
      BY <1>1, <1>2, <1>5, <3>1
    <3>2. CASE ~(j <= Len(s))
      BY <1>2, <1>5, <3>2
    <3>. QED
      BY <3>1, <3>2
  <2>. QED
    BY <2>1
<1>. HIDE DEF g
<1>10. g \in Bijection(DOMAIN u, Places(seqs, n + 1))
  BY <1>6, <1>7, <1>8 DEF Bijection, Injection, IsInjective, Surjection
<1>. QED
  BY <1>9, <1>10 DEF Flattens, u

(* A flattened sequence has what its sequences have, each of it once. *)
LEMMA FlattenProperties ==
    ASSUME NEW S, NEW seqs \in Seq(Seq(S))
    PROVE  /\ FlattenSeq(seqs) \in Seq(S)
           /\ Flattens(FlattenSeq(seqs), seqs, Len(seqs))
<1> DEFINE N == Len(seqs)
<1>1. N \in Nat /\ \A i \in 1 .. N : seqs[i] \in Seq(S)
  BY ElementOfSeq
<1>2. CASE N = 0
  <2>1. seqs = << >> /\ FlattenSeq(seqs) = << >>
    BY <1>2, EmptySeq DEF FlattenSeq
  <2>2. Places(seqs, N) = {}
    BY <1>2 DEF Places
  <2> DEFINE f == [x \in {} |-> 0]
  <2>3. f \in Bijection({}, {})
    BY DEF Bijection, Injection, IsInjective, Surjection
  <2>4. DOMAIN << >> = {}
    OBVIOUS
  <2>. QED
    BY <2>1, <2>2, <2>3, <2>4, EmptySeq DEF Flattens
<1>3. CASE N # 0
  <2> DEFINE g == CHOOSE g : CountingPrefixes(seqs, N, g)
  <2>1. CountingPrefixes(seqs, N, g)
    BY <1>1, PrefixesExist
  <2>2. FlattenSeq(seqs) = g[N]
    BY <1>3 DEF FlattenSeq, CountingPrefixes
  <2>. HIDE DEF g
  <2>3. \A i \in 1 .. N : g[i] = IF i = 1 THEN seqs[i] ELSE g[i - 1] \o seqs[i]
    BY <2>1 DEF CountingPrefixes
  <2> DEFINE D == {n \in Nat : n + 1 \in 1 .. N => /\ g[n + 1] \in Seq(S)
                                                   /\ Flattens(g[n + 1], seqs, n + 1)}
  <2>4. 0 \in D
    <3>1. CASE 0 + 1 \in 1 .. N
      <4>1. g[1] = seqs[1] /\ seqs[1] \in Seq(S)
        BY <1>1, <2>3, <3>1
      <4>2. Flattens(g[1], seqs, 1)
        BY <4>1, FlattensOne
      <4>. QED
        BY <4>1, <4>2
    <3>. QED
      BY <3>1
  <2>5. ASSUME NEW n \in Nat, n \in D PROVE n + 1 \in D
    <3>1. CASE (n + 1) + 1 \in 1 .. N
      <4> DEFINE m == n + 1
      <4>1. m \in 1 .. N /\ m \in Nat /\ m + 1 \in 1 .. N
        BY <1>1, <3>1
      <4>2. g[m] \in Seq(S) /\ Flattens(g[m], seqs, m)
        BY <2>5, <4>1
      <4>3. g[m + 1] = g[m] \o seqs[m + 1] /\ seqs[m + 1] \in Seq(S)
        <5>1. (m + 1) - 1 = m /\ m + 1 # 1
          BY <4>1
        <5>. HIDE DEF m
        <5>. QED
          BY <1>1, <2>3, <4>1, <5>1
      <4>. HIDE DEF m
      <4>4. g[m + 1] \in Seq(S)
        BY <4>2, <4>3, ConcatProperties
      <4>5. Flattens(g[m + 1], seqs, m + 1)
        BY <4>1, <4>2, <4>3, FlattensMore
      <4>. QED
        BY <4>1, <4>4, <4>5 DEF m
    <3>. QED
      BY <3>1
  <2>. HIDE DEF D
  <2>6. Nat \subseteq D
    BY <2>4, <2>5, NatSetInduction
  <2>7. N - 1 \in D /\ (N - 1) + 1 = N /\ N \in 1 .. N
    BY <1>1, <1>3, <2>6
  <2>. QED
    BY <2>2, <2>7 DEF D
<1>. QED
  BY <1>2, <1>3

-----------------------------------------------------------------------------
(* Sums of sums. *)

(* What holds of no element, and of one more whenever it holds of some, holds of a finite set. *)
LEMMA SubsetInduction ==
    ASSUME NEW I, IsFiniteSet(I), NEW D, {} \in D,
           \A T \in D : \A x \in I \ T : T \subseteq I => T \cup {x} \in D
    PROVE  I \in D
<1> DEFINE E == {n \in Nat : \A T \in SUBSET I : IsFiniteSet(T) /\ Cardinality(T) = n => T \in D}
<1>1. 0 \in E
  BY FS_EmptySet
<1>2. ASSUME NEW n \in Nat, n \in E PROVE n + 1 \in E
  <2>1. SUFFICES ASSUME NEW T \in SUBSET I, IsFiniteSet(T), Cardinality(T) = n + 1
                 PROVE  T \in D
    OBVIOUS
  <2>2. T # {}
    <3>1. n + 1 # 0
      OBVIOUS
    <3>. QED
      BY <2>1, <3>1, FS_EmptySet
  <2>3. PICK x \in T : TRUE
    BY <2>2
  <2>4. IsFiniteSet(T \ {x}) /\ Cardinality(T \ {x}) = n
    <3>1. IsFiniteSet(T \ {x}) /\ Cardinality(T \ {x}) = Cardinality(T) - 1
      BY <2>1, <2>3, FS_RemoveElement
    <3>2. (n + 1) - 1 = n
      OBVIOUS
    <3>. QED
      BY <2>1, <3>1, <3>2
  <2>5. T \ {x} \in D
    BY <1>2, <2>4 DEF E
  <2>6. T = (T \ {x}) \cup {x} /\ x \in I \ (T \ {x}) /\ T \ {x} \subseteq I
    BY <2>3
  <2>. QED
    BY <2>5, <2>6
<1>3. Nat \subseteq E
  <2>. HIDE DEF E
  <2>. QED
    BY <1>1, <1>2, NatSetInduction
<1>. QED
  BY <1>3, FS_CardinalityType DEF E

LEMMA TotalScaled ==
    ASSUME NEW I, IsFiniteSet(I), NEW h \in [I -> Nat], NEW c \in Nat
    PROVE  Total([x \in I |-> h[x] * c]) = Total(h) * c
<1> DEFINE part(T)   == [x \in T |-> h[x]]
           scaled(T) == [x \in T |-> h[x] * c]
           D == {T \in SUBSET I : Total(scaled(T)) = Total(part(T)) * c}
<1>1. {} \in D
  BY TotalOfNone
<1>2. ASSUME NEW T \in D, NEW x \in I \ T, T \subseteq I PROVE T \cup {x} \in D
  <2> DEFINE U == T \cup {x}
  <2>1. IsFiniteSet(U) /\ IsFiniteSet(T) /\ U \ {x} = T /\ x \in U /\ U \subseteq I
    BY <1>2, FS_Subset
  <2>2. part(U) \in [U -> Nat] /\ scaled(U) \in [U -> Nat] /\ part(T) \in [T -> Nat]
    BY <2>1
  <2>3. Total(part(U)) = Total(part(T)) + h[x]
    <3>1. Total(part(U)) = Total([y \in U \ {x} |-> part(U)[y]]) + part(U)[x]
      <4>. HIDE DEF part, U
      <4>. QED
        BY <2>1, <2>2, TotalSplit
    <3>2. [y \in U \ {x} |-> part(U)[y]] = part(T) /\ part(U)[x] = h[x]
      BY <2>1
    <3>. QED
      BY <3>1, <3>2
  <2>4. Total(scaled(U)) = Total(scaled(T)) + h[x] * c
    <3>1. Total(scaled(U)) = Total([y \in U \ {x} |-> scaled(U)[y]]) + scaled(U)[x]
      <4>. HIDE DEF scaled, U
      <4>. QED
        BY <2>1, <2>2, TotalSplit
    <3>2. [y \in U \ {x} |-> scaled(U)[y]] = scaled(T) /\ scaled(U)[x] = h[x] * c
      BY <2>1
    <3>. QED
      BY <3>1, <3>2
  <2>5. Total(part(T)) \in Nat /\ h[x] \in Nat
    <3>. HIDE DEF part
    <3>. QED
      BY <1>2, <2>1, <2>2, PairsFinite
  <2>6. Total(scaled(T)) = Total(part(T)) * c
    BY <1>2
  <2>7. (Total(part(T)) + h[x]) * c = Total(part(T)) * c + h[x] * c
    BY <2>5
  <2>8. Total(scaled(U)) = Total(part(U)) * c
    BY <2>3, <2>4, <2>6, <2>7
  <2>. QED
    BY <2>1, <2>8
<1>3. I \in D
  <2>. HIDE DEF D
  <2>. QED
    BY <1>1, <1>2, SubsetInduction
<1>4. part(I) = h
  OBVIOUS
<1>. QED
  BY <1>3, <1>4

LEMMA PairElements ==
    ASSUME NEW h
    PROVE  /\ \A p \in Pairs(h) : p = <<p[1], p[2]>> /\ p[1] \in DOMAIN h /\ p[2] \in 1 .. h[p[1]]
           /\ \A x \in DOMAIN h : \A n \in 1 .. h[x] : <<x, n>> \in Pairs(h)
BY DEF Pairs

(* Under a name of their own, for the provers to find the functions that are summed. *)
Counts(I) == [I -> Nat]

LEMMA TotalMoved ==
    ASSUME NEW I, IsFiniteSet(I), NEW h, h \in Counts(I), NEW J, NEW g, g \in Counts(J),
           NEW f, f \in Bijection(I, J), \A x \in I : g[f[x]] = h[x]
    PROVE  Total(g) = Total(h)
BY TotalRenamed DEF Counts

(* The places of a family of sets, and the sum over them: family by family. *)
PlacesOf(I, J) == UNION {{i} \X J[i] : i \in I}

LEMMA TotalNested ==
    ASSUME NEW I, IsFiniteSet(I), NEW J, \A i \in I : IsFiniteSet(J[i]),
           NEW h, h \in Counts(PlacesOf(I, J))
    PROVE  /\ IsFiniteSet(PlacesOf(I, J))
           /\ Total(h) = Total([i \in I |-> Total([j \in J[i] |-> h[<<i, j>>]])])
<1>0. h \in [PlacesOf(I, J) -> Nat]
  BY DEF Counts
<1> DEFINE row(i) == [j \in J[i] |-> h[<<i, j>>]]
           rows == [i \in I |-> Total(row(i))]
<1>1. IsFiniteSet(PlacesOf(I, J))
  <2> DEFINE columns == {{i} \X J[i] : i \in I}
             column  == [i \in I |-> {i} \X J[i]]
  <2>1. column \in Surjection(I, columns)
    BY DEF Surjection
  <2>2. IsFiniteSet(columns)
    <3>. HIDE DEF column, columns
    <3>. QED
      BY <2>1, FS_Surjection
  <2>3. ASSUME NEW T \in columns PROVE IsFiniteSet(T)
    <3>1. PICK i \in I : T = {i} \X J[i]
      OBVIOUS
    <3>2. IsFiniteSet({i}) /\ IsFiniteSet(J[i])
      BY FS_Singleton
    <3>3. IsFiniteSet({i} \X J[i])
      BY <3>2, FS_Product
    <3>. QED
      BY <3>1, <3>3
  <2>. QED
    BY <2>2, <2>3, FS_UNION DEF PlacesOf
<1>2. ASSUME NEW i \in I
      PROVE  /\ row(i) \in [J[i] -> Nat] /\ Total(row(i)) \in Nat
             /\ \E b : b \in Bijection(1 .. Total(row(i)), Pairs(row(i)))
  <2>1. row(i) \in [J[i] -> Nat]
    BY <1>0 DEF PlacesOf
  <2>2. IsFiniteSet(Pairs(row(i))) /\ Total(row(i)) = Cardinality(Pairs(row(i))) /\ Total(row(i)) \in Nat
    <3>. HIDE DEF row
    <3>. QED
      BY <2>1, PairsFinite
  <2>3. ExistsBijection(1 .. Cardinality(Pairs(row(i))), Pairs(row(i)))
    <3>. HIDE DEF row
    <3>. QED
      BY <2>2, FS_NatBijection, FS_CountingElements
  <2>. QED
    BY <2>1, <2>2, <2>3 DEF ExistsBijection
<1> DEFINE B == [i \in I |-> CHOOSE b : b \in Bijection(1 .. Total(row(i)), Pairs(row(i)))]
<1>3. \A i \in I : B[i] \in Bijection(1 .. Total(row(i)), Pairs(row(i)))
  BY <1>2
<1>. HIDE DEF B
<1>4. \A i \in I : /\ \A m \in 1 .. rows[i] : B[i][m] \in Pairs(row(i))
                   /\ \A m, n \in 1 .. rows[i] : B[i][m] = B[i][n] => m = n
                   /\ \A p \in Pairs(row(i)) : \E m \in 1 .. rows[i] : B[i][m] = p
  BY <1>3 DEF Bijection, Injection, IsInjective, Surjection
<1>5. /\ \A p \in Pairs(rows) : p = <<p[1], p[2]>> /\ p[1] \in I /\ p[2] \in 1 .. rows[p[1]]
      /\ \A i \in I : \A m \in 1 .. rows[i] : <<i, m>> \in Pairs(rows)
  <2>1. DOMAIN rows = I
    OBVIOUS
  <2>. HIDE DEF rows
  <2>. QED
    BY <2>1, PairElements
<1>6. /\ \A i \in I : \A p \in Pairs(row(i)) :
            p = <<p[1], p[2]>> /\ p[1] \in J[i] /\ p[2] \in 1 .. h[<<i, p[1]>>]
      /\ \A i \in I : \A j \in J[i] : \A n \in 1 .. h[<<i, j>>] : <<j, n>> \in Pairs(row(i))
  <2>1. SUFFICES ASSUME NEW i \in I
                 PROVE  /\ \A p \in Pairs(row(i)) :
                              p = <<p[1], p[2]>> /\ p[1] \in J[i] /\ p[2] \in 1 .. h[<<i, p[1]>>]
                        /\ \A j \in J[i] : \A n \in 1 .. h[<<i, j>>] : <<j, n>> \in Pairs(row(i))
    BY Zenon
  <2>2. DOMAIN row(i) = J[i] /\ \A j \in J[i] : row(i)[j] = h[<<i, j>>]
    OBVIOUS
  <2>. HIDE DEF row
  <2>. QED
    BY <2>2, PairElements
<1>7. /\ \A q \in Pairs(h) : /\ q = <<<<q[1][1], q[1][2]>>, q[2]>>
                             /\ q[1][1] \in I /\ q[1][2] \in J[q[1][1]]
                             /\ q[2] \in 1 .. h[<<q[1][1], q[1][2]>>]
      /\ \A i \in I : \A j \in J[i] : \A n \in 1 .. h[<<i, j>>] : <<<<i, j>>, n>> \in Pairs(h)
  BY <1>0 DEF Pairs, PlacesOf
<1> DEFINE F == [p \in Pairs(rows) |-> <<<<p[1], B[p[1]][p[2]][1]>>, B[p[1]][p[2]][2]>>]
<1>. HIDE DEF row, rows
<1>8. ASSUME NEW p \in Pairs(rows) PROVE F[p] \in Pairs(h)
  <2>1. B[p[1]][p[2]] \in Pairs(row(p[1])) /\ p[1] \in I
    BY <1>4, <1>5
  <2>. QED
    BY <1>6, <1>7, <2>1
<1>9. ASSUME NEW p \in Pairs(rows), NEW q \in Pairs(rows), F[p] = F[q] PROVE p = q
  <2>1. p[1] \in I /\ q[1] \in I /\ p[2] \in 1 .. rows[p[1]] /\ q[2] \in 1 .. rows[q[1]]
    BY <1>5
  <2>2. p[1] = q[1] /\ B[p[1]][p[2]][1] = B[q[1]][q[2]][1] /\ B[p[1]][p[2]][2] = B[q[1]][q[2]][2]
    BY <1>9
  <2>3. B[p[1]][p[2]] \in Pairs(row(p[1])) /\ B[p[1]][q[2]] \in Pairs(row(p[1]))
    BY <1>4, <2>1, <2>2
  <2>4. B[p[1]][p[2]] = B[p[1]][q[2]]
    <3> DEFINE a == B[p[1]][p[2]]  b == B[p[1]][q[2]]
    <3>1. a = <<a[1], a[2]>> /\ b = <<b[1], b[2]>>
      BY <1>6, <2>1, <2>3
    <3>2. a[1] = b[1] /\ a[2] = b[2]
      BY <2>2
    <3>. HIDE DEF a, b
    <3>3. a = b
      BY <3>1, <3>2
    <3>. QED
      BY <3>3 DEF a, b
  <2>5. p[2] = q[2]
    BY <1>4, <2>1, <2>2, <2>4
  <2>. QED
    BY <1>5, <2>2, <2>5
<1>10. ASSUME NEW q \in Pairs(h) PROVE \E p \in Pairs(rows) : F[p] = q
  <2> DEFINE i == q[1][1]  j == q[1][2]  n == q[2]
  <2>1. q = <<<<i, j>>, n>> /\ i \in I /\ j \in J[i] /\ n \in 1 .. h[<<i, j>>]
    BY <1>7
  <2>. HIDE DEF i, j, n
  <2>2. <<j, n>> \in Pairs(row(i))
    BY <1>6, <2>1
  <2>3. PICK m \in 1 .. rows[i] : B[i][m] = <<j, n>>
    BY <1>4, <2>1, <2>2
  <2>4. <<i, m>> \in Pairs(rows)
    BY <1>5, <2>1
  <2>5. F[<<i, m>>] = q
    BY <2>1, <2>3, <2>4
  <2>. QED
    BY <2>4, <2>5
<1>11. F \in Bijection(Pairs(rows), Pairs(h))
  <2>1. F \in [Pairs(rows) -> Pairs(h)]
    BY <1>8
  <2>. HIDE DEF F
  <2>. QED
    BY <1>9, <1>10, <2>1 DEF Bijection, Injection, IsInjective, Surjection
<1>12. rows \in [I -> Nat]
  BY <1>2 DEF rows
<1>13. /\ IsFiniteSet(Pairs(rows)) /\ Total(rows) = Cardinality(Pairs(rows))
       /\ IsFiniteSet(Pairs(h)) /\ Total(h) = Cardinality(Pairs(h))
  BY <1>0, <1>1, <1>12, PairsFinite
<1>14. Cardinality(Pairs(rows)) = Cardinality(Pairs(h))
  <2>. HIDE DEF F
  <2>. QED
    BY <1>11, <1>13, FS_Bijection DEF ExistsBijection
<1>15. Total(h) = Total(rows)
  BY <1>13, <1>14
<1>. QED
  BY <1>1, <1>15 DEF rows, row

(* A double sum, in either order. *)
LEMMA TotalSwapped ==
    ASSUME NEW I, IsFiniteSet(I), NEW J, IsFiniteSet(J), NEW h, h \in Counts(I \X J)
    PROVE  Total([i \in I |-> Total([j \in J |-> h[<<i, j>>]])]) =
           Total([j \in J |-> Total([i \in I |-> h[<<i, j>>]])])
<1> DEFINE JJ == [i \in I |-> J]
           II == [j \in J |-> I]
           g  == [p \in J \X I |-> h[<<p[2], p[1]>>]]
           f  == [p \in I \X J |-> <<p[2], p[1]>>]
<1>1. PlacesOf(I, JJ) = I \X J /\ PlacesOf(J, II) = J \X I
  BY DEF PlacesOf
<1>2. h \in [I \X J -> Nat] /\ g \in [J \X I -> Nat]
  <2>1. h \in [I \X J -> Nat]
    BY DEF Counts
  <2>. QED
    BY <2>1
<1>3. IsFiniteSet(I \X J) /\ Total(h) = Total([i \in I |-> Total([j \in JJ[i] |-> h[<<i, j>>]])])
  <2>1. \A i \in I : IsFiniteSet(JJ[i])
    OBVIOUS
  <2>. HIDE DEF JJ
  <2>2. h \in Counts(PlacesOf(I, JJ))
    BY <1>1 DEF Counts
  <2>3. /\ IsFiniteSet(PlacesOf(I, JJ))
        /\ Total(h) = Total([i \in I |-> Total([j \in JJ[i] |-> h[<<i, j>>]])])
    BY <2>1, <2>2, TotalNested
  <2>. QED
    BY <1>1, <2>3
<1>4. Total(g) = Total([j \in J |-> Total([i \in II[j] |-> g[<<j, i>>]])])
  <2>1. \A j \in J : IsFiniteSet(II[j])
    OBVIOUS
  <2>. HIDE DEF II, g
  <2>2. g \in Counts(PlacesOf(J, II))
    BY <1>1, <1>2 DEF Counts
  <2>. QED
    BY <2>1, <2>2, TotalNested
<1>5. f \in Bijection(I \X J, J \X I)
  <2>1. f \in [I \X J -> J \X I]
    OBVIOUS
  <2>2. \A p, q \in I \X J : f[p] = f[q] => p = q
    OBVIOUS
  <2>3. \A q \in J \X I : \E p \in I \X J : f[p] = q
    <3>1. SUFFICES ASSUME NEW q \in J \X I PROVE \E p \in I \X J : f[p] = q
      OBVIOUS
    <3>2. <<q[2], q[1]>> \in I \X J /\ f[<<q[2], q[1]>>] = q
      OBVIOUS
    <3>. QED
      BY <3>2
  <2>. HIDE DEF f
  <2>. QED
    BY <2>1, <2>2, <2>3 DEF Bijection, Injection, IsInjective, Surjection
<1>6. \A p \in I \X J : g[f[p]] = h[p]
  OBVIOUS
<1>7. Total(g) = Total(h)
  <2>1. h \in Counts(I \X J) /\ g \in Counts(J \X I)
    BY <1>2 DEF Counts
  <2>. HIDE DEF g, f
  <2>. QED
    BY <1>3, <1>5, <1>6, <2>1, TotalMoved
<1>8. [j \in J |-> Total([i \in II[j] |-> g[<<j, i>>]])] = [j \in J |-> Total([i \in I |-> h[<<i, j>>]])]
  <2>1. \A j \in J : [i \in II[j] |-> g[<<j, i>>]] = [i \in I |-> h[<<i, j>>]]
    OBVIOUS
  <2>. HIDE DEF g, II
  <2>. QED
    BY <2>1
<1>9. [i \in I |-> Total([j \in JJ[i] |-> h[<<i, j>>]])] = [i \in I |-> Total([j \in J |-> h[<<i, j>>]])]
  <2>1. \A i \in I : [j \in JJ[i] |-> h[<<i, j>>]] = [j \in J |-> h[<<i, j>>]]
    OBVIOUS
  <2>. HIDE DEF JJ
  <2>. QED
    BY <2>1
<1>. QED
  BY <1>3, <1>4, <1>7, <1>8, <1>9

(* The sum of what the elements of a sequence are worth, and over a sequence of sequences. *)
SumOver(s, w) == Total([j \in DOMAIN s |-> w[s[j]]])
SumOverAll(seqs, w) == Total([i \in DOMAIN seqs |-> SumOver(seqs[i], w)])

(* The sum over a flattened sequence is that over its sequences. *)
LEMMA TotalFlattened ==
    ASSUME NEW S, NEW seqs \in Seq(Seq(S)), NEW w, w \in Counts(S)
    PROVE  /\ FlattenSeq(seqs) \in Seq(S)
           /\ SumOver(FlattenSeq(seqs), w) = SumOverAll(seqs, w)
<1> DEFINE flat == FlattenSeq(seqs)
           I == DOMAIN seqs
           J == [i \in I |-> DOMAIN seqs[i]]
           h == [p \in PlacesOf(I, J) |-> w[seqs[p[1]][p[2]]]]
           g == [j \in DOMAIN flat |-> w[flat[j]]]
<1>1. flat \in Seq(S) /\ Flattens(flat, seqs, Len(seqs))
  BY FlattenProperties
<1>2. /\ I = 1 .. Len(seqs) /\ Len(seqs) \in Nat /\ IsFiniteSet(I)
      /\ \A i \in I : seqs[i] \in Seq(S)
  BY LenProperties, ElementOfSeq, FS_Interval
<1>3. \A i \in I : IsFiniteSet(J[i]) /\ DOMAIN seqs[i] = 1 .. Len(seqs[i])
  BY <1>2, LenProperties, FS_Interval
<1>4. PlacesOf(I, J) = Places(seqs, Len(seqs))
  BY <1>2 DEF PlacesOf, Places
<1>5. PICK f \in Bijection(DOMAIN flat, PlacesOf(I, J)) :
          \A j \in DOMAIN flat : flat[j] = seqs[f[j][1]][f[j][2]]
  BY <1>1, <1>4 DEF Flattens
<1>6. /\ \A p \in PlacesOf(I, J) : p[1] \in I /\ p[2] \in J[p[1]] /\ seqs[p[1]][p[2]] \in S
      /\ \A i \in I : \A j \in J[i] : <<i, j>> \in PlacesOf(I, J)
  <2>1. \A i \in I : \A j \in DOMAIN seqs[i] : seqs[i][j] \in S
    BY <1>2, <1>3, ElementOfSeq
  <2>. QED
    BY <2>1 DEF PlacesOf
<1>7. h \in [PlacesOf(I, J) -> Nat]
  BY <1>6 DEF Counts
<1>8. IsFiniteSet(DOMAIN flat) /\ DOMAIN flat = 1 .. Len(flat)
  BY <1>1, LenProperties, FS_Interval
<1>9. g \in [DOMAIN flat -> Nat]
  <2>1. \A j \in DOMAIN flat : flat[j] \in S
    BY <1>1, <1>8, ElementOfSeq
  <2>. HIDE DEF flat
  <2>. QED
    BY <2>1 DEF Counts
<1>10. Total(g) = Total(h)
  <2>1. \A j \in DOMAIN flat : f[j] \in PlacesOf(I, J)
    BY <1>5 DEF Bijection, Injection
  <2>2. \A j \in DOMAIN flat : h[f[j]] = g[j]
    BY <1>5, <2>1
  <2>3. IsFiniteSet(DOMAIN flat)
    BY <1>8
  <2> DEFINE D == DOMAIN flat  P == PlacesOf(I, J)
  <2>4. f \in Bijection(D, P) /\ h \in Counts(P) /\ g \in Counts(D) /\ IsFiniteSet(D)
        /\ \A j \in D : h[f[j]] = g[j]
    BY <1>5, <1>7, <1>9, <2>2, <2>3 DEF Counts
  <2>. HIDE DEF g, h, D, P
  <2>. QED
    BY <2>4, TotalMoved
<1>11. Total(h) = Total([i \in I |-> Total([j \in J[i] |-> h[<<i, j>>]])])
  <2>1. IsFiniteSet(I) /\ \A i \in I : IsFiniteSet(J[i])
    BY <1>2, <1>3
  <2>2. h \in Counts(PlacesOf(I, J))
    BY <1>7 DEF Counts
  <2>. HIDE DEF h, I, J
  <2>. QED
    BY <2>1, <2>2, TotalNested
<1>12. [i \in I |-> Total([j \in J[i] |-> h[<<i, j>>]])] =
       [i \in I |-> Total([j \in DOMAIN seqs[i] |-> w[seqs[i][j]]])]
  <2>1. \A i \in I : [j \in J[i] |-> h[<<i, j>>]] = [j \in DOMAIN seqs[i] |-> w[seqs[i][j]]]
    BY <1>6
  <2>. HIDE DEF J, h
  <2>. QED
    BY <2>1
<1>. QED
  BY <1>1, <1>10, <1>11, <1>12 DEF SumOver, SumOverAll

(* The sum over a sequence is its first value and the sum over the rest. *)
LEMMA TotalHeadTail ==
    ASSUME NEW S, NEW s \in Seq(S), s # << >>, NEW w, w \in Counts(S)
    PROVE  /\ SumOver(Tail(s), w) \in Nat
           /\ SumOver(s, w) = w[Head(s)] + SumOver(Tail(s), w)
<1> DEFINE h == [j \in DOMAIN s |-> w[s[j]]]
           I == DOMAIN s \ {1}
           g == [j \in I |-> h[j]]
           t == [j \in DOMAIN Tail(s) |-> w[Tail(s)[j]]]
           f == [j \in DOMAIN Tail(s) |-> j + 1]
<1>1. /\ Len(s) \in Nat \ {0} /\ DOMAIN s = 1 .. Len(s) /\ \A j \in DOMAIN s : s[j] \in S
      /\ Tail(s) \in Seq(S) /\ Len(Tail(s)) = Len(s) - 1 /\ DOMAIN Tail(s) = 1 .. (Len(s) - 1)
      /\ \A j \in DOMAIN Tail(s) : Tail(s)[j] = s[j + 1]
      /\ Head(s) = s[1]
  BY EmptySeq, LenProperties, HeadTailProperties, ElementOfSeq
<1>2. IsFiniteSet(DOMAIN s) /\ IsFiniteSet(DOMAIN Tail(s))
  BY <1>1, FS_Interval
<1>3. h \in [DOMAIN s -> Nat] /\ t \in [DOMAIN Tail(s) -> Nat] /\ g \in [I -> Nat]
  BY <1>1 DEF Counts
<1>4. Total(h) = Total(g) + h[1]
  <2>1. 1 \in DOMAIN s
    BY <1>1
  <2>. HIDE DEF h
  <2>. QED
    BY <1>2, <1>3, <2>1, TotalSplit
<1>5. f \in Bijection(DOMAIN Tail(s), I)
  <2>1. f \in [DOMAIN Tail(s) -> I]
    BY <1>1
  <2>2. \A i, j \in DOMAIN Tail(s) : f[i] = f[j] => i = j
    BY <1>1
  <2>3. \A i \in I : \E j \in DOMAIN Tail(s) : f[j] = i
    <3>1. SUFFICES ASSUME NEW i \in I PROVE \E j \in DOMAIN Tail(s) : f[j] = i
      OBVIOUS
    <3>2. i - 1 \in DOMAIN Tail(s) /\ f[i - 1] = i
      BY <1>1
    <3>. QED
      BY <3>2
  <2>. HIDE DEF f, I
  <2>. QED
    BY <2>1, <2>2, <2>3 DEF Bijection, Injection, IsInjective, Surjection
<1>6. \A j \in DOMAIN Tail(s) : g[f[j]] = t[j]
  BY <1>1
<1>7. Total(g) = Total(t)
  <2> DEFINE D == DOMAIN Tail(s)
  <2>1. /\ f \in Bijection(D, I) /\ g \in Counts(I) /\ t \in Counts(D) /\ IsFiniteSet(D)
        /\ \A j \in D : g[f[j]] = t[j]
    BY <1>2, <1>3, <1>5, <1>6 DEF Counts
  <2>. HIDE DEF f, g, t, I, D
  <2>. QED
    BY <2>1, TotalMoved
<1>8. Total(t) \in Nat
  <2>. HIDE DEF t
  <2>. QED
    BY <1>2, <1>3, PairsFinite
<1>9. h[1] = w[Head(s)] /\ h[1] \in Nat
  <2>1. 1 \in DOMAIN s
    BY <1>1
  <2>. QED
    BY <1>1, <1>3, <2>1
<1>10. Total(h) = w[Head(s)] + Total(t) /\ Total(t) \in Nat
  <2>1. Total(h) = Total(t) + h[1]
    BY <1>4, <1>7
  <2>. HIDE DEF h, t
  <2>. QED
    BY <1>8, <1>9, <2>1
<1>. QED
  BY <1>10 DEF SumOver
=============================================================================
