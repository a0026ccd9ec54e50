---------------------------- MODULE TopologyProofs ----------------------------
(***************************************************************************)
(* Proofs about the classifier's tables and the refresher that fills them, *)
(* for every address width, every account and every set of ranges: the     *)
(* insertion-sorted prefix list finds the longest match, a call of         *)
(* Classify that meets one swap answers as of one moment, and no range of  *)
(* the local VPC is ever priced as a peering.                              *)
(***************************************************************************)
EXTENDS Topology, FoldProofs, SequenceTheorems, TLAPS

-----------------------------------------------------------------------------
(* PrefixTree.Build.                                                        *)

Ranked(E) == \A e \in E : e.prefix.bits \in Int
Sorted(t) == \A i, j \in 1 .. Len(t) : i <= j => t[i].prefix.bits >= t[j].prefix.bits

\* InsertAt moves the tail one to the right.
LEMMA Inserted ==
    ASSUME NEW E, NEW t \in Seq(E), NEW e \in E, NEW p \in 0 .. Len(t)
    PROVE  /\ InsertAt(t, 1 + p, e) \in Seq(E)
           /\ Len(InsertAt(t, 1 + p, e)) = Len(t) + 1
           /\ \A i \in 1 .. Len(t) + 1 :
                 InsertAt(t, 1 + p, e)[i] = IF i <= p THEN t[i]
                                            ELSE IF i = p + 1 THEN e ELSE t[i - 1]
<1>1. Len(t) \in Nat /\ DOMAIN t = 1 .. Len(t) /\ \A i \in 1 .. Len(t) : t[i] \in E
  OBVIOUS
<1> DEFINE l == SubSeq(t, 1, p)
           r == SubSeq(t, p + 1, Len(t))
<1>2. /\ l \in Seq(E) /\ Len(l) = p /\ \A i \in 1 .. p : l[i] = t[i]
  <2>1. \A i \in 1 .. p : t[i] \in E
    BY <1>1
  <2>2. /\ l \in Seq(E) /\ Len(l) = (IF 1 <= p THEN p - 1 + 1 ELSE 0)
        /\ \A i \in 1 .. p - 1 + 1 : l[i] = t[1 + i - 1]
    BY <1>1, <2>1, SubSeqProperties
  <2> QED BY <1>1, <2>2
<1>3. /\ r \in Seq(E) /\ Len(r) = Len(t) - p /\ \A i \in 1 .. Len(t) - p : r[i] = t[p + i]
  <2>1. \A i \in p + 1 .. Len(t) : t[i] \in E
    BY <1>1
  <2>2. /\ r \in Seq(E) /\ Len(r) = (IF p + 1 <= Len(t) THEN Len(t) - (p + 1) + 1 ELSE 0)
        /\ \A i \in 1 .. Len(t) - (p + 1) + 1 : r[i] = t[(p + 1) + i - 1]
    BY <1>1, <2>1, SubSeqProperties
  <2> HIDE DEF r
  <2>3. Len(r) = Len(t) - p
    <3> DEFINE a == Len(t)
               c == Len(r)
    <3>1. a \in Nat /\ p \in 0 .. a /\ c = (IF p + 1 <= a THEN a - (p + 1) + 1 ELSE 0)
      BY <1>1, <2>2
    <3> HIDE DEF a, c
    <3>2. c = a - p
      BY <3>1
    <3> QED BY <3>2 DEF a, c
  <2>4. ASSUME NEW i \in 1 .. Len(t) - p PROVE r[i] = t[p + i]
    <3>1. i \in 1 .. Len(t) - (p + 1) + 1 /\ (p + 1) + i - 1 = p + i
      BY <1>1
    <3> QED BY <2>2, <3>1
  <2> QED BY <2>2, <2>3, <2>4
<1> HIDE DEF l, r
<1>4. <<e>> \in Seq(E) /\ Len(<<e>>) = 1 /\ <<e>>[1] = e
  OBVIOUS
<1> DEFINE m == l \o <<e>>
<1>5. /\ m \in Seq(E) /\ Len(m) = p + 1
      /\ \A i \in 1 .. p + 1 : m[i] = IF i <= p THEN t[i] ELSE e
  <2>1. /\ m \in Seq(E) /\ Len(m) = Len(l) + Len(<<e>>)
        /\ \A i \in 1 .. Len(l) + Len(<<e>>) :
              m[i] = IF i <= Len(l) THEN l[i] ELSE <<e>>[i - Len(l)]
    BY <1>2, <1>4, ConcatProperties
  <2> HIDE DEF m
  <2> QED BY <1>2, <1>4, <2>1
<1> HIDE DEF m
<1> DEFINE u == m \o r
<1>6. /\ u \in Seq(E) /\ Len(u) = Len(m) + Len(r)
      /\ \A i \in 1 .. Len(m) + Len(r) : u[i] = IF i <= Len(m) THEN m[i] ELSE r[i - Len(m)]
  BY <1>3, <1>5, ConcatProperties
<1>7. u = InsertAt(t, 1 + p, e)
  <2>1. (1 + p) - 1 = p /\ 1 + p = p + 1
    BY <1>1
  <2>2. InsertAt(t, 1 + p, e) = SubSeq(t, 1, (1 + p) - 1) \o <<e>> \o SubSeq(t, 1 + p, Len(t))
    BY DEF InsertAt
  <2>3. SubSeq(t, 1, (1 + p) - 1) = l /\ SubSeq(t, 1 + p, Len(t)) = r
    BY <2>1 DEF l, r
  <2> QED BY <2>2, <2>3 DEF m
<1> HIDE DEF u
<1>8. Len(u) = Len(t) + 1
  BY <1>1, <1>3, <1>5, <1>6
<1>9. ASSUME NEW i \in 1 .. Len(t) + 1
      PROVE  u[i] = IF i <= p THEN t[i] ELSE IF i = p + 1 THEN e ELSE t[i - 1]
  <2>1. CASE i <= p + 1
    BY <1>1, <1>3, <1>5, <1>6, <2>1
  <2>2. CASE i > p + 1
    <3>0. Len(m) + Len(r) = Len(t) + 1 /\ Len(m) = p + 1
      BY <1>1, <1>3, <1>5
    <3>1. u[i] = r[i - (p + 1)] /\ i - (p + 1) \in 1 .. Len(t) - p
      BY <1>1, <1>6, <2>2, <3>0
    <3>2. p + (i - (p + 1)) = i - 1
      BY <1>1
    <3> QED BY <1>1, <1>3, <2>2, <3>1, <3>2
  <2> QED BY <1>1, <2>1, <2>2
<1> QED BY <1>6, <1>7, <1>8, <1>9

\* One round of the insertion sort.
LEMMA InsertKeepsSorted ==
    ASSUME NEW E, Ranked(E), NEW t \in Seq(E), Sorted(t), NEW e \in E
    PROVE  /\ InsertSorted(t, e) \in Seq(E) /\ Sorted(InsertSorted(t, e))
           /\ ToSet(InsertSorted(t, e)) = ToSet(t) \cup {e}
<1> DEFINE T == {0} \cup {i \in DOMAIN t : t[i].prefix.bits >= e.prefix.bits}
           p == Max(T)
           u == InsertSorted(t, e)
<1>1. Len(t) \in Nat /\ DOMAIN t = 1 .. Len(t) /\ \A i \in 1 .. Len(t) : t[i] \in E
  OBVIOUS
<1>2. T \in SUBSET (0 .. Len(t)) /\ T # {}
  BY <1>1
<1>3. p \in T /\ \A i \in T : i <= p
  BY <1>1, <1>2, MaxOf
<1>4. u = InsertAt(t, 1 + p, e)
  BY DEF InsertSorted
<1> HIDE DEF p, u
<1>5. p \in 0 .. Len(t)
  BY <1>2, <1>3
<1>6. /\ u \in Seq(E) /\ Len(u) = Len(t) + 1
      /\ \A i \in 1 .. Len(t) + 1 :
            u[i] = IF i <= p THEN t[i] ELSE IF i = p + 1 THEN e ELSE t[i - 1]
  <2> HIDE DEF T
  <2>1. /\ InsertAt(t, 1 + p, e) \in Seq(E)
        /\ Len(InsertAt(t, 1 + p, e)) = Len(t) + 1
        /\ \A i \in 1 .. Len(t) + 1 :
              InsertAt(t, 1 + p, e)[i] = IF i <= p THEN t[i]
                                         ELSE IF i = p + 1 THEN e ELSE t[i - 1]
    BY <1>5, Inserted
  <2> QED BY <1>4, <2>1
<1>7. e.prefix.bits \in Int /\ \A i \in 1 .. Len(t) : t[i].prefix.bits \in Int
  BY <1>1 DEF Ranked
<1>8. ASSUME NEW i \in 1 .. p PROVE i \in 1 .. Len(t) /\ t[i].prefix.bits >= e.prefix.bits
  <2>1. p \in DOMAIN t /\ t[p].prefix.bits >= e.prefix.bits /\ i \in 1 .. Len(t) /\ i <= p
    BY <1>1, <1>3, <1>5
  <2>2. t[i].prefix.bits >= t[p].prefix.bits
    BY <1>1, <2>1 DEF Sorted
  <2> QED BY <1>1, <1>7, <2>1, <2>2
<1>9. ASSUME NEW i \in p + 1 .. Len(t) PROVE i \in 1 .. Len(t) /\ e.prefix.bits > t[i].prefix.bits
  <2>1. i \in 1 .. Len(t) /\ i > p
    BY <1>1, <1>5
  <2>2. i \notin T
    BY <1>3, <1>5, <2>1
  <2> QED BY <1>1, <1>7, <2>1, <2>2
<1> HIDE DEF T
<1>10. Sorted(u)
  <2> SUFFICES ASSUME NEW i \in 1 .. Len(t) + 1, NEW j \in 1 .. Len(t) + 1, i <= j
               PROVE  u[i].prefix.bits >= u[j].prefix.bits
    BY <1>6 DEF Sorted
  <2> DEFINE b(k) == t[k].prefix.bits
  <2>1. \A k, l \in 1 .. Len(t) : k <= l => t[k].prefix.bits >= t[l].prefix.bits
    BY DEF Sorted
  <2>2. CASE j <= p
    <3>1. u[i] = t[i] /\ u[j] = t[j] /\ i \in 1 .. Len(t) /\ j \in 1 .. Len(t)
      BY <1>1, <1>5, <1>6, <2>2
    <3> QED BY <2>1, <3>1
  <2>3. CASE j = p + 1 /\ i = j
    BY <1>6, <1>7, <2>3, <1>5
  <2>4. CASE j = p + 1 /\ i < j
    <3>1. u[i] = t[i] /\ u[j] = e /\ i \in 1 .. p
      BY <1>1, <1>5, <1>6, <2>4
    <3> QED BY <1>8, <3>1
  <2>5. CASE j > p + 1 /\ i <= p
    <3>1. u[i] = t[i] /\ u[j] = t[j - 1] /\ i \in 1 .. Len(t) /\ j - 1 \in 1 .. Len(t) /\ i <= j - 1
      BY <1>1, <1>5, <1>6, <2>5
    <3> QED BY <2>1, <3>1
  <2>6. CASE j > p + 1 /\ i = p + 1
    <3>1. u[i] = e /\ u[j] = t[j - 1] /\ j - 1 \in p + 1 .. Len(t)
      BY <1>1, <1>5, <1>6, <2>6
    <3>2. e.prefix.bits > t[j - 1].prefix.bits
      BY <1>9, <3>1
    <3>3. j - 1 \in 1 .. Len(t)
      BY <1>9, <3>1
    <3> QED BY <1>7, <3>1, <3>2, <3>3
  <2>7. CASE j > p + 1 /\ i > p + 1
    <3>1. /\ u[i] = t[i - 1] /\ u[j] = t[j - 1] /\ i - 1 \in 1 .. Len(t)
          /\ j - 1 \in 1 .. Len(t) /\ i - 1 <= j - 1
      BY <1>1, <1>5, <1>6, <2>7
    <3> QED BY <2>1, <3>1
  <2> QED BY <1>1, <1>5, <2>2, <2>3, <2>4, <2>5, <2>6, <2>7
<1>11. ToSet(u) = ToSet(t) \cup {e}
  <2>1. DOMAIN u = 1 .. Len(t) + 1
    BY <1>6
  <2>2. ASSUME NEW v \in ToSet(u) PROVE v \in ToSet(t) \cup {e}
    <3>1. PICK i \in 1 .. Len(t) + 1 : v = u[i]
      BY <2>1 DEF ToSet
    <3>2. CASE i <= p
      <4>1. v = t[i] /\ i \in 1 .. Len(t)
        BY <1>1, <1>5, <1>6, <3>1, <3>2
      <4> QED BY <1>1, <4>1 DEF ToSet
    <3>3. CASE i = p + 1
      BY <1>1, <1>5, <1>6, <3>1, <3>3
    <3>4. CASE i > p + 1
      <4>1. v = t[i - 1] /\ i - 1 \in 1 .. Len(t)
        BY <1>1, <1>5, <1>6, <3>1, <3>4
      <4> QED BY <1>1, <4>1 DEF ToSet
    <3> QED BY <1>1, <1>5, <3>2, <3>3, <3>4
  <2>3. e \in ToSet(u)
    <3>1. p + 1 \in 1 .. Len(t) + 1 /\ u[p + 1] = e
      BY <1>1, <1>5, <1>6
    <3> QED BY <2>1, <3>1 DEF ToSet
  <2>4. ASSUME NEW v \in ToSet(t) PROVE v \in ToSet(u)
    <3>1. PICK i \in 1 .. Len(t) : v = t[i]
      BY <1>1 DEF ToSet
    <3>2. CASE i <= p
      <4>1. i \in 1 .. Len(t) + 1 /\ u[i] = t[i]
        BY <1>1, <1>5, <1>6, <3>2
      <4> QED BY <2>1, <3>1, <4>1 DEF ToSet
    <3>3. CASE i > p
      <4>1. i + 1 \in 1 .. Len(t) + 1 /\ u[i + 1] = t[i]
        BY <1>1, <1>5, <1>6, <3>3
      <4> QED BY <2>1, <3>1, <4>1 DEF ToSet
    <3> QED BY <1>1, <1>5, <3>2, <3>3
  <2> QED BY <2>2, <2>3, <2>4
<1> QED BY <1>6, <1>10, <1>11 DEF u

\* Build sorts: longest prefixes first, no entry lost, none invented.
LEMMA BuildSorts ==
    ASSUME NEW E, Ranked(E), NEW en \in Seq(E)
    PROVE  /\ Build(en) \in Seq(E) /\ Sorted(Build(en))
           /\ ToSet(Build(en)) = ToSet(en)
<1> DEFINE n == Len(en)
           V == {t \in Seq(E) : Sorted(t)}
           D == [i \in 1 .. n |-> [v \in V |-> InsertSorted(v, en[i])]]
           Eq(g) == g = [s \in SUBSET DOMAIN en |->
                            IF s = {} THEN <<>> ELSE InsertSorted(g[s \ {Max(s)}], en[Max(s)])]
<1>1. n \in Nat /\ DOMAIN en = 1 .. n /\ \A i \in 1 .. n : en[i] \in E
  OBVIOUS
<1>2. Build(en) = (CHOOSE g : Eq(g))[DOMAIN en]
  BY DEF Build, FoldLeft, MapThenFoldSet
<1>3. <<>> \in V
  BY DEF Sorted
<1>4. D \in [1 .. n -> [V -> V]]
  BY <1>1, InsertKeepsSorted
<1>5. \E g : Eq(g)
  <2>1. PICK g \in [SUBSET (1 .. n) -> V] :
           \A s \in SUBSET (1 .. n) : g[s] = IF s = {} THEN <<>> ELSE D[Max(s)][g[s \ {Max(s)}]]
    <3>1. n \in Nat
      BY <1>1
    <3> DEFINE nil == <<>>
    <3>2. nil \in V
      BY <1>3
    <3> HIDE DEF D, V, n, nil
    <3>3. \E g \in [SUBSET (1 .. n) -> V] : SolvesLeft(g, nil, D, n)
      BY <1>4, <3>1, <3>2, FoldLeftExists
    <3> QED BY <3>3 DEF nil, SolvesLeft
  <2>2. ASSUME NEW s \in SUBSET (1 .. n), s # {}
        PROVE  D[Max(s)][g[s \ {Max(s)}]] = InsertSorted(g[s \ {Max(s)}], en[Max(s)])
    <3>1. s \in SUBSET (0 .. n)
      OBVIOUS
    <3>2. Max(s) \in 1 .. n
      BY <1>1, <2>2, <3>1, MaxOf
    <3>3. g[s \ {Max(s)}] \in V
      BY <2>1
    <3> QED BY <3>2, <3>3
  <2> HIDE DEF D, V
  <2>3. g = [s \in SUBSET (1 .. n) |-> IF s = {} THEN <<>>
                                       ELSE InsertSorted(g[s \ {Max(s)}], en[Max(s)])]
    BY <2>1, <2>2
  <2> QED BY <1>1, <2>3
<1> DEFINE h == CHOOSE g : Eq(g)
<1>6. Eq(h)
  BY <1>5
<1>7. \A s \in SUBSET (1 .. n) :
         h[s] = IF s = {} THEN <<>> ELSE InsertSorted(h[s \ {Max(s)}], en[Max(s)])
  <2> HIDE DEF h
  <2> QED BY <1>1, <1>6
<1> HIDE DEF h
<1> DEFINE Pt(k) == {en[i] : i \in 1 .. k}
           Good == {k \in Nat : k <= n => /\ h[1 .. k] \in Seq(E) /\ Sorted(h[1 .. k])
                                       /\ ToSet(h[1 .. k]) = Pt(k)}
<1>8. 0 \in Good
  <2>1. 1 .. 0 = {} /\ {} \in SUBSET (1 .. n)
    OBVIOUS
  <2>2. h[1 .. 0] = <<>>
    BY <1>7, <2>1
  <2>3. <<>> \in Seq(E) /\ Sorted(<<>>) /\ ToSet(<<>>) = {} /\ Pt(0) = {}
    BY <2>1 DEF Sorted, ToSet
  <2> QED BY <2>2, <2>3
<1>9. ASSUME NEW k \in Nat, k \in Good PROVE k + 1 \in Good
  <2> SUFFICES ASSUME k + 1 <= n
               PROVE  /\ h[1 .. k + 1] \in Seq(E) /\ Sorted(h[1 .. k + 1])
                      /\ ToSet(h[1 .. k + 1]) = Pt(k + 1)
    OBVIOUS
  <2>1. /\ Max(1 .. k + 1) = k + 1 /\ (1 .. k + 1) \ {k + 1} = 1 .. k /\ 1 .. k + 1 # {}
    BY Initials
  <2>2. 1 .. k + 1 \in SUBSET (1 .. n) /\ k <= n /\ en[k + 1] \in E
    BY <1>1
  <2>3. h[1 .. k + 1] = InsertSorted(h[1 .. k], en[k + 1])
    BY <1>7, <2>1, <2>2
  <2>4. h[1 .. k] \in Seq(E) /\ Sorted(h[1 .. k]) /\ ToSet(h[1 .. k]) = Pt(k)
    BY <1>9, <2>2
  <2>5. Pt(k + 1) = Pt(k) \cup {en[k + 1]}
    OBVIOUS
  <2> HIDE DEF Pt
  <2>6. ASSUME NEW t0 \in Seq(E), Sorted(t0)
        PROVE
           /\ InsertSorted(t0, en[k + 1]) \in Seq(E) /\ Sorted(InsertSorted(t0, en[k + 1]))
           /\ ToSet(InsertSorted(t0, en[k + 1])) = ToSet(t0) \cup {en[k + 1]}
    <3> DEFINE e == en[k + 1]
    <3>1. e \in E
      BY <2>2
    <3> HIDE DEF e
    <3>2. /\ InsertSorted(t0, e) \in Seq(E) /\ Sorted(InsertSorted(t0, e))
          /\ ToSet(InsertSorted(t0, e)) = ToSet(t0) \cup {e}
      BY <2>6, <3>1, InsertKeepsSorted
    <3> QED BY <3>2 DEF e
  <2> QED BY <2>3, <2>4, <2>5, <2>6
<1>10. Nat \subseteq Good
  <2> HIDE DEF Good
  <2> QED BY <1>8, <1>9, Induction
<1>11. n \in Good
  BY <1>1, <1>10
<1>12. ToSet(en) = Pt(n)
  BY <1>1 DEF ToSet
<1>13. Build(en) = h[1 .. n]
  BY <1>1, <1>2 DEF h
<1> QED BY <1>1, <1>11, <1>12, <1>13

-----------------------------------------------------------------------------
(* The tree of the three sets.                                              *)

Category == {"VPCPeering", "TransitGateway", "VPCEndpoint"}
Entry == [prefix : Prefix, type : Category]
Typed(ps, type) == {[prefix |-> p, type |-> type] : p \in ps}
Ranges(ps) == ps \in SUBSET Prefix /\ IsFiniteSet(ps)

TreeOf(a, b, c, t) ==
    /\ t \in Seq(Entry) /\ Sorted(t)
    /\ ToSet(t) = Typed(a, "VPCPeering") \cup Typed(b, "TransitGateway") \cup Typed(c, "VPCEndpoint")

LEMMA WidthNat == Width \in Nat
  BY TopologyAssumption DEF ClassifierConstantsOK

LEMMA EntryRanked == Ranked(Entry)
  BY WidthNat DEF Ranked, Entry, Prefix

LEMMA SetAsSeq ==
    ASSUME NEW S, IsFiniteSet(S)
    PROVE  SetToSeq(S) \in Seq(S) /\ ToSet(SetToSeq(S)) = S
<1> DEFINE n == Cardinality(S)
           f == SetToSeq(S)
<1>1. n \in Nat /\ ExistsBijection(1 .. n, S)
  BY FS_CardinalityType
<1>2. \E g \in [1 .. n -> S] : IsInjective(g)
  BY <1>1 DEF ExistsBijection, Bijection, Injection
<1>3. f \in [1 .. n -> S] /\ IsInjective(f)
  BY <1>2 DEF SetToSeq
<1> HIDE DEF f, n
<1>4. f \in Injection(1 .. n, S)
  BY <1>3 DEF Injection
<1>5. Cardinality(1 .. n) = n
  <2>1. Cardinality(1 .. n) = IF 1 > n THEN 0 ELSE n - 1 + 1
    BY <1>1, FS_Interval
  <2> QED BY <1>1, <2>1
<1>6. f \in Surjection(1 .. n, S)
  <2>1. Cardinality(1 .. n) = Cardinality(S) <=> f \in Surjection(1 .. n, S)
    BY <1>4, FS_Injection
  <2> QED BY <1>5, <2>1 DEF n
<1>7. ToSet(f) = S
  BY <1>3, <1>6 DEF ToSet, Surjection
<1>8. f \in Seq(S)
  BY <1>1, <1>3
<1> QED BY <1>7, <1>8 DEF f

LEMMA SeqWider == ASSUME NEW S, NEW T, S \subseteq T, NEW s \in Seq(S) PROVE s \in Seq(T)
  OBVIOUS

LEMMA EntriesOf ==
    ASSUME NEW ps, Ranges(ps), NEW type \in Category
    PROVE  Entries(ps, type) \in Seq(Entry) /\ ToSet(Entries(ps, type)) = Typed(ps, type)
<1> DEFINE f == [p \in ps |-> [prefix |-> p, type |-> type]]
           S == Typed(ps, type)
<1>1. f \in Surjection(ps, S)
  BY DEF Typed, Surjection
<1>2. IsFiniteSet(S)
  <2> HIDE DEF f, S
  <2> QED BY <1>1, FS_Surjection DEF Ranges
<1>3. S \subseteq Entry
  BY DEF Typed, Entry, Ranges
<1>4. Entries(ps, type) = SetToSeq(S)
  BY DEF Entries, Typed
<1> HIDE DEF S
<1>5. SetToSeq(S) \in Seq(S) /\ ToSet(SetToSeq(S)) = S
  BY <1>2, SetAsSeq
<1>6. SetToSeq(S) \in Seq(Entry)
  BY <1>3, <1>5, SeqWider
<1> QED BY <1>4, <1>5, <1>6 DEF S

LEMMA ToSetConcat ==
    ASSUME NEW S, NEW s \in Seq(S), NEW t \in Seq(S)
    PROVE  s \o t \in Seq(S) /\ ToSet(s \o t) = ToSet(s) \cup ToSet(t)
<1> DEFINE u == s \o t
<1>1. /\ u \in Seq(S) /\ Len(u) = Len(s) + Len(t)
      /\ \A i \in 1 .. Len(s) + Len(t) : u[i] = IF i <= Len(s) THEN s[i] ELSE t[i - Len(s)]
  BY ConcatProperties
<1> HIDE DEF u
<1>2. /\ Len(s) \in Nat /\ Len(t) \in Nat /\ DOMAIN u = 1 .. Len(s) + Len(t)
      /\ DOMAIN s = 1 .. Len(s) /\ DOMAIN t = 1 .. Len(t)
  BY <1>1
<1>3. ASSUME NEW v \in ToSet(u) PROVE v \in ToSet(s) \cup ToSet(t)
  <2>1. PICK i \in 1 .. Len(s) + Len(t) : v = u[i]
    BY <1>2 DEF ToSet
  <2>2. CASE i <= Len(s)
    <3>1. i \in 1 .. Len(s) /\ v = s[i]
      BY <1>1, <1>2, <2>1, <2>2
    <3> QED BY <1>2, <3>1 DEF ToSet
  <2>3. CASE i > Len(s)
    <3>1. i - Len(s) \in 1 .. Len(t) /\ v = t[i - Len(s)]
      BY <1>1, <1>2, <2>1, <2>3
    <3> QED BY <1>2, <3>1 DEF ToSet
  <2> QED BY <1>2, <2>2, <2>3
<1>4. ASSUME NEW v \in ToSet(s) PROVE v \in ToSet(u)
  <2>1. PICK i \in 1 .. Len(s) : v = s[i]
    BY <1>2 DEF ToSet
  <2>2. i \in 1 .. Len(s) + Len(t) /\ u[i] = s[i]
    BY <1>1, <1>2
  <2> QED BY <1>2, <2>1, <2>2 DEF ToSet
<1>5. ASSUME NEW v \in ToSet(t) PROVE v \in ToSet(u)
  <2>1. PICK i \in 1 .. Len(t) : v = t[i]
    BY <1>2 DEF ToSet
  <2>2. Len(s) + i \in 1 .. Len(s) + Len(t) /\ ~(Len(s) + i <= Len(s)) /\ (Len(s) + i) - Len(s) = i
    BY <1>2
  <2>3. u[Len(s) + i] = t[i]
    BY <1>1, <2>2
  <2> QED BY <1>2, <2>1, <2>2, <2>3 DEF ToSet
<1> QED BY <1>1, <1>3, <1>4, <1>5 DEF u

\* Rebuild: the tree shows the three sets.
LEMMA TreeBuilt ==
    ASSUME NEW a, Ranges(a), NEW b, Ranges(b), NEW c, Ranges(c)
    PROVE  TreeOf(a, b, c, Build(Entries(a, "VPCPeering") \o Entries(b, "TransitGateway")
                                 \o Entries(c, "VPCEndpoint")))
<1> DEFINE ea == Entries(a, "VPCPeering")
           eb == Entries(b, "TransitGateway")
           ec == Entries(c, "VPCEndpoint")
           en == (ea \o eb) \o ec
<1>1. /\ ea \in Seq(Entry) /\ ToSet(ea) = Typed(a, "VPCPeering")
      /\ eb \in Seq(Entry) /\ ToSet(eb) = Typed(b, "TransitGateway")
      /\ ec \in Seq(Entry) /\ ToSet(ec) = Typed(c, "VPCEndpoint")
  BY EntriesOf DEF Category
<1> HIDE DEF ea, eb, ec
<1>2. ea \o eb \in Seq(Entry) /\ ToSet(ea \o eb) = ToSet(ea) \cup ToSet(eb)
  BY <1>1, ToSetConcat
<1> DEFINE d == ea \o eb
<1> HIDE DEF d
<1>3. d \in Seq(Entry) /\ ToSet(d) = ToSet(ea) \cup ToSet(eb)
  BY <1>2 DEF d
<1>4. d \o ec \in Seq(Entry) /\ ToSet(d \o ec) = ToSet(d) \cup ToSet(ec)
  BY <1>1, <1>3, ToSetConcat
<1>5. en \in Seq(Entry) /\ ToSet(en) = ToSet(ea) \cup ToSet(eb) \cup ToSet(ec)
  BY <1>3, <1>4 DEF d
<1> HIDE DEF en
<1>6. Build(en) \in Seq(Entry) /\ Sorted(Build(en)) /\ ToSet(Build(en)) = ToSet(en)
  BY <1>5, EntryRanked, BuildSorts
<1>7. TreeOf(a, b, c, Build(en))
  BY <1>1, <1>5, <1>6 DEF TreeOf
<1> QED BY <1>7 DEF en, ea, eb, ec

\* The first hit.
LEMMA FirstHit ==
    ASSUME NEW t \in Seq(Entry), NEW x
    PROVE  \/ /\ \A e \in ToSet(t) : ~Covers(e.prefix, x)
              /\ Lookup(t, x) = None
           \/ \E i \in 1 .. Len(t) : /\ Covers(t[i].prefix, x) /\ Lookup(t, x) = t[i].type
                                     /\ \A j \in 1 .. Len(t) : Covers(t[j].prefix, x) => i <= j
<1> DEFINE I == {i \in 1 .. Len(t) : Covers(t[i].prefix, x)}
           k == SelectInSeq(t, LAMBDA e : Covers(e.prefix, x))
<1>1. Len(t) \in Nat /\ DOMAIN t = 1 .. Len(t)
  OBVIOUS
<1>2. k = IF I # {} THEN Min(I) ELSE 0
  BY DEF SelectInSeq
<1>3. Lookup(t, x) = IF k = 0 THEN None ELSE t[k].type
  BY DEF Lookup
<1> HIDE DEF k
<1>4. CASE I = {}
  <2>1. Lookup(t, x) = None
    BY <1>2, <1>3, <1>4
  <2>2. ASSUME NEW e \in ToSet(t) PROVE ~Covers(e.prefix, x)
    <3>1. PICK i \in 1 .. Len(t) : e = t[i]
      BY <1>1 DEF ToSet
    <3> QED BY <1>4, <3>1
  <2> QED BY <2>1, <2>2
<1>5. CASE I # {}
  <2>1. I \in SUBSET Nat
    BY <1>1
  <2>2. Min(I) \in I /\ \A j \in I : Min(I) <= j
    <3> HIDE DEF I
    <3>1. \E i \in I : \A j \in I : i <= j
      BY <1>5, <2>1, LeastNat
    <3> QED BY <3>1 DEF Min
  <2>3. k \in I /\ \A j \in I : k <= j
    BY <1>2, <1>5, <2>2
  <2>4. k \in 1 .. Len(t) /\ k # 0
    BY <1>1, <2>3
  <2>5. Lookup(t, x) = t[k].type
    BY <1>3, <2>4
  <2> QED BY <2>3, <2>4, <2>5
<1> QED BY <1>4, <1>5

-----------------------------------------------------------------------------
(* What the tables hold.                                                    *)

\* The far sides of the peerings of the local VPC.
PeerRange ==
    {VpcCIDR[p.accepter] : p \in {p \in Peering : p.requester = LocalVpc}}
    \cup {VpcCIDR[p.requester] : p \in {p \in Peering : p.accepter = LocalVpc}}

RefresherOK ==
    /\ step \in {"nat", "route", "peerings", "transit", "zones", "idle"}
    /\ got # None => step # "idle"
    /\ peerings \subseteq Peering /\ subnets \subseteq Subnet
    /\ got # None /\ step = "peerings" => got.value \in SUBSET PeerRange
    /\ got # None /\ step = "transit" => got.value = {}

SetsOK ==
    /\ peeringCIDRs \in SUBSET PeerRange /\ tgwCIDRs = {} /\ endpointCIDRs \in SUBSET EndpointCIDR

TreeOK == TreeOf(peeringCIDRs, tgwCIDRs, endpointCIDRs, prefixTree)

TableInv == RefresherOK /\ SetsOK /\ TreeOK

LEMMA SetsFinite ==
    /\ \A ps \in SUBSET PeerRange : Ranges(ps)
    /\ \A ps \in SUBSET EndpointCIDR : Ranges(ps)
    /\ Ranges({})
<1> DEFINE Q == {p \in Peering : p.requester = LocalVpc}
           R == {p \in Peering : p.accepter = LocalVpc}
           F == {VpcCIDR[p.accepter] : p \in Q}
           H == {VpcCIDR[p.requester] : p \in R}
           f == [p \in Q |-> VpcCIDR[p.accepter]]
           h == [p \in R |-> VpcCIDR[p.requester]]
<1>1. /\ VpcCIDR \in [DOMAIN VpcCIDR -> Prefix]
      /\ Peering \subseteq [requester : DOMAIN VpcCIDR, accepter : DOMAIN VpcCIDR]
      /\ EndpointCIDR \subseteq Prefix /\ IsFiniteSet(Peering) /\ IsFiniteSet(EndpointCIDR)
  BY TopologyAssumption
<1>2. IsFiniteSet(Q) /\ IsFiniteSet(R)
  BY <1>1, FS_Subset
<1>3. f \in Surjection(Q, F) /\ h \in Surjection(R, H)
  BY DEF Surjection
<1>4. F \subseteq Prefix /\ H \subseteq Prefix /\ PeerRange = F \cup H
  BY <1>1 DEF PeerRange
<1> HIDE DEF Q, R, F, H, f, h
<1>5. IsFiniteSet(F) /\ IsFiniteSet(H)
  BY <1>2, <1>3, FS_Surjection
<1>6. IsFiniteSet(F \cup H)
  BY <1>5, FS_Union
<1>7. \A ps \in SUBSET PeerRange : Ranges(ps)
  BY <1>4, <1>6, FS_Subset DEF Ranges
<1>8. \A ps \in SUBSET EndpointCIDR : Ranges(ps)
  BY <1>1, FS_Subset DEF Ranges
<1>9. Ranges({})
  BY FS_EmptySet DEF Ranges
<1> QED BY <1>7, <1>8, <1>9

LEMMA AfterType ==
    \A s \in {"nat", "route", "peerings", "transit", "zones"} :
        After(s) \in {"nat", "route", "peerings", "transit", "zones", "idle"}
<1> SUFFICES ASSUME NEW s \in {"nat", "route", "peerings", "transit", "zones"}
             PROVE  After(s) \in {"nat", "route", "peerings", "transit", "zones", "idle"}
  OBVIOUS
<1> DEFINE I == {i \in 1 .. Len(Steps) : Steps[i] = s}
           k == SelectInSeq(Steps, LAMBDA x : x = s)
<1>1. Len(Steps) = 5 /\ \A i \in 1 .. 5 : Steps[i] \in {"nat", "route", "peerings", "transit", "zones"}
  BY DEF Steps
<1>2. k = (IF I # {} THEN Min(I) ELSE 0) /\ After(s) = IF k = 5 THEN "idle" ELSE Steps[k + 1]
  BY <1>1 DEF SelectInSeq, After
<1> HIDE DEF k
<1>3. I # {} /\ I \in SUBSET (1 .. 5) /\ I \in SUBSET Nat
  BY <1>1 DEF Steps
<1> HIDE DEF I
<1>4. Min(I) \in I
  <2>1. \E i \in I : \A j \in I : i <= j
    BY <1>3, LeastNat
  <2> QED BY <2>1 DEF Min
<1>5. k \in 1 .. 5
  BY <1>2, <1>3, <1>4
<1>6. CASE k = 5
  BY <1>2, <1>6
<1>7. CASE k # 5
  BY <1>1, <1>2, <1>5, <1>7
<1> QED BY <1>6, <1>7

LEMMA TableInitially == Init => TableInv
<1> SUFFICES ASSUME Init PROVE TableInv
  OBVIOUS
<1>1. /\ step = "nat" /\ got = None /\ peerings = Peering /\ subnets = Subnet
      /\ peeringCIDRs = {} /\ tgwCIDRs = {} /\ endpointCIDRs = {} /\ prefixTree = <<>>
  BY DEF Init, ClassifierInit, Steps
<1>2. RefresherOK /\ SetsOK
  BY <1>1 DEF RefresherOK, SetsOK
<1>3. TreeOK
  BY <1>1 DEF TreeOK, TreeOf, Sorted, ToSet, Typed
<1> QED BY <1>2, <1>3 DEF TableInv

\* A rebuild from sets of that kind.
LEMMA RebuildOK == SetsOK' /\ Rebuild => TreeOK'
<1> SUFFICES ASSUME SetsOK', Rebuild PROVE TreeOK'
  OBVIOUS
<1>1. Ranges(peeringCIDRs') /\ Ranges(tgwCIDRs') /\ Ranges(endpointCIDRs')
  BY SetsFinite DEF SetsOK
<1> QED BY <1>1, TreeBuilt DEF TreeOK, Rebuild

LEMMA GuardedSubset == ASSUME NEW a, NEW b PROVE Guarded(a, b) \subseteq a
  BY DEF Guarded

LEMMA TableStep == TableInv /\ [Next]_vars => TableInv'
<1> SUFFICES ASSUME TableInv, [Next]_vars PROVE TableInv'
  OBVIOUS
<1> USE DEF TableInv
<1>1. CASE UNCHANGED vars
  BY <1>1 DEF RefresherOK, SetsOK, TreeOK, vars, tables, account, refresher, prefixSets
<1>2. CASE Tick
  <2>1. UNCHANGED prefixSets
    BY <1>2 DEF Tick, tables
  <2>2. SetsOK' /\ TreeOK'
    BY <2>1 DEF SetsOK, TreeOK, prefixSets
  <2>3. RefresherOK'
    BY <1>2 DEF Tick, RefresherOK, account, Steps
  <2> QED BY <2>2, <2>3
<1>3. CASE Fetch
  <2>1. UNCHANGED <<prefixSets, account, step>>
    BY <1>3 DEF Fetch, tables
  <2>2. SetsOK' /\ TreeOK'
    BY <2>1 DEF SetsOK, TreeOK, prefixSets
  <2>3. PICK r \in Response(step) : got' = [value |-> r]
    BY <1>3 DEF Fetch
  <2>4. step = "peerings" => r \in SUBSET PeerRange
    <3>1. step = "peerings" => r = GetVPCPeerings \/ r = {}
      BY <2>3 DEF Response, Answers, NoClient
    <3>2. GetVPCPeerings \in SUBSET PeerRange
      BY DEF GetVPCPeerings, PeerRange, RefresherOK
    <3> QED BY <3>1, <3>2
  <2>5. step = "transit" => r = {}
    BY <2>3 DEF Response, Answers, NoClient, GetTransitGateways
  <2>6. step # "idle" /\ got'.value = r
    BY <1>3, <2>3 DEF Fetch
  <2>7. RefresherOK'
    BY <2>1, <2>4, <2>5, <2>6 DEF RefresherOK, account
  <2> QED BY <2>2, <2>7
<1>4. CASE FetchFails
  <2>1. UNCHANGED <<prefixSets, account, got>> /\ got = None /\ step' = After(step) /\ step # "idle"
    BY <1>4 DEF FetchFails, tables
  <2>2. SetsOK' /\ TreeOK'
    BY <2>1 DEF SetsOK, TreeOK, prefixSets
  <2>3. RefresherOK'
    BY <2>1, AfterType DEF RefresherOK, account
  <2> QED BY <2>2, <2>3
<1>5. CASE Apply
  <2>1. got # None /\ step' = After(step) /\ got' = None /\ UNCHANGED account
    BY <1>5 DEF Apply
  <2>2. RefresherOK'
    BY <2>1, AfterType DEF RefresherOK, account
  <2>3. step \in {"nat", "route", "peerings", "transit", "zones"}
    BY <2>1 DEF RefresherOK
  <2>4. CASE step = "peerings"
    <3>1. SetVPCPeeringCIDRs(Guarded(got.value, LocalVPCCIDRs))
      BY <1>5, <2>4 DEF Apply
    <3>2. SetsOK'
      BY <2>1, <2>4, <3>1, GuardedSubset DEF SetVPCPeeringCIDRs, SetsOK, RefresherOK
    <3> QED BY <2>2, <3>1, <3>2, RebuildOK DEF SetVPCPeeringCIDRs
  <2>5. CASE step = "transit"
    <3>1. SetTransitGatewayCIDRs(got.value)
      BY <1>5, <2>5 DEF Apply
    <3>2. SetsOK'
      BY <2>1, <2>5, <3>1 DEF SetTransitGatewayCIDRs, SetsOK, RefresherOK
    <3> QED BY <2>2, <3>1, <3>2, RebuildOK DEF SetTransitGatewayCIDRs
  <2>6. CASE step \in {"nat", "route", "zones"}
    <3>1. UNCHANGED prefixSets
      <4>1. CASE step = "nat"
        BY <1>5, <4>1 DEF Apply, SetNATGatewayIPs
      <4>2. CASE step = "route"
        BY <1>5, <4>2 DEF Apply, SetDefaultRouteNAT
      <4>3. CASE step = "zones"
        BY <1>5, <4>3 DEF Apply, SetCIDRZones, tables
      <4> QED BY <2>6, <4>1, <4>2, <4>3
    <3> QED BY <2>2, <3>1 DEF SetsOK, TreeOK, prefixSets
  <2> QED BY <2>3, <2>4, <2>5, <2>6
<1>6. CASE ApplyUnguarded
  <2>1. /\ got # None /\ step = "peerings" /\ step' = After(step) /\ got' = None
        /\ SetVPCPeeringCIDRs(got.value) /\ UNCHANGED account
    BY <1>6 DEF ApplyUnguarded
  <2>2. RefresherOK'
    BY <2>1, AfterType DEF RefresherOK, account
  <2>3. SetsOK'
    BY <2>1 DEF SetVPCPeeringCIDRs, SetsOK, RefresherOK
  <2> QED BY <2>1, <2>2, <2>3, RebuildOK DEF SetVPCPeeringCIDRs
<1>7. CASE AccountChanges
  <2>1. UNCHANGED <<prefixSets, refresher>>
    BY <1>7 DEF AccountChanges, tables
  <2>2. SetsOK' /\ TreeOK'
    BY <2>1 DEF SetsOK, TreeOK, prefixSets
  <2>3. peerings' \subseteq Peering /\ subnets' \subseteq Subnet
    BY <1>7 DEF AccountChanges, RefresherOK, SymDiff
  <2>4. RefresherOK'
    BY <2>1, <2>3 DEF RefresherOK, refresher
  <2> QED BY <2>2, <2>4
<1>8. CASE OthersSet
  <2>1. RefresherOK'
    BY <1>8 DEF OthersSet, RefresherOK, account, refresher
  <2>2. CASE UNCHANGED prefixSets
    BY <2>1, <2>2 DEF SetsOK, TreeOK, prefixSets
  <2>3. CASE SetVPCEndpointCIDRs(EndpointCIDR)
    <3>1. SetsOK'
      BY <2>3 DEF SetVPCEndpointCIDRs, SetsOK
    <3> QED BY <2>1, <2>3, <3>1, RebuildOK DEF SetVPCEndpointCIDRs
  <2>4. UNCHANGED prefixSets \/ SetVPCEndpointCIDRs(EndpointCIDR)
    BY <1>8 DEF OthersSet, AddClusterCIDR, SetIPZone
  <2> QED BY <2>2, <2>3, <2>4
<1>9. CASE Classify
  <2>1. UNCHANGED <<tables, account, refresher>>
    BY <1>9 DEF Classify, ClassifyBegin, ClassifyStep, ReadTables, ReadSrcZone, ReadDstZone
  <2> QED BY <2>1 DEF RefresherOK, SetsOK, TreeOK, tables, account, refresher, prefixSets
<1> QED BY <1>1, <1>2, <1>3, <1>4, <1>5, <1>6, <1>7, <1>8, <1>9 DEF Next

LEMMA TableInvariant == Spec => []TableInv
  BY TableInitially, TableStep, PTL DEF Spec

-----------------------------------------------------------------------------
(* Longest match.                                                           *)

HitsOf(a, b, c, x) ==
    {e \in (a \X {"VPCPeering"}) \cup (b \X {"TransitGateway"}) \cup (c \X {"VPCEndpoint"}) :
        Covers(e[1], x)}

LEMMA LookupMatches ==
    ASSUME NEW a, NEW b, NEW c, NEW t, TreeOf(a, b, c, t), NEW x
    PROVE  /\ HitsOf(a, b, c, x) = {} => Lookup(t, x) = None
           /\ HitsOf(a, b, c, x) # {} => /\ Lookup(t, x) \in MostSpecific(HitsOf(a, b, c, x))
                                         /\ Lookup(t, x) \in Category
<1> DEFINE H == HitsOf(a, b, c, x)
<1>1. t \in Seq(Entry) /\ Sorted(t) /\ Len(t) \in Nat /\ DOMAIN t = 1 .. Len(t)
  BY DEF TreeOf
<1>2. ASSUME NEW i \in 1 .. Len(t), Covers(t[i].prefix, x)
      PROVE  <<t[i].prefix, t[i].type>> \in H /\ t[i].type \in Category /\ t[i].prefix.bits \in Int
  <2>1. t[i] \in ToSet(t) /\ t[i] \in Entry
    BY <1>1 DEF ToSet
  <2>2. t[i] \in Typed(a, "VPCPeering") \cup Typed(b, "TransitGateway") \cup Typed(c, "VPCEndpoint")
    BY <2>1 DEF TreeOf
  <2>3. \/ t[i].prefix \in a /\ t[i].type = "VPCPeering"
        \/ t[i].prefix \in b /\ t[i].type = "TransitGateway"
        \/ t[i].prefix \in c /\ t[i].type = "VPCEndpoint"
    BY <2>2 DEF Typed
  <2>4. <<t[i].prefix, t[i].type>> \in H
    BY <1>2, <2>3 DEF HitsOf
  <2> QED BY <2>1, <2>4, EntryRanked DEF Entry, Ranked
<1>3. ASSUME NEW f \in H
      PROVE  \E j \in 1 .. Len(t) : t[j].prefix = f[1] /\ Covers(t[j].prefix, x)
  <2>1. PICK p, ty : f = <<p, ty>> /\ Covers(p, x)
                     /\ \/ p \in a /\ ty = "VPCPeering"
                        \/ p \in b /\ ty = "TransitGateway"
                        \/ p \in c /\ ty = "VPCEndpoint"
    BY DEF HitsOf
  <2>2. [prefix |-> p, type |-> ty] \in ToSet(t)
    BY <2>1 DEF TreeOf, Typed
  <2>3. PICK j \in 1 .. Len(t) : t[j] = [prefix |-> p, type |-> ty]
    BY <1>1, <2>2 DEF ToSet
  <2> QED BY <2>1, <2>3
<1> HIDE DEF H
<1>4. CASE \A e \in ToSet(t) : ~Covers(e.prefix, x)
  <2>1. H = {}
    <3>1. \A j \in 1 .. Len(t) : t[j] \in ToSet(t)
      BY <1>1 DEF ToSet
    <3> QED BY <1>3, <1>4, <3>1
  <2>2. Lookup(t, x) = None
    <3>1. \A j \in 1 .. Len(t) : t[j] \in ToSet(t)
      BY <1>1 DEF ToSet
    <3> QED BY <1>1, <1>4, <3>1, FirstHit
  <2> QED BY <2>1, <2>2 DEF H
<1>5. CASE \E i \in 1 .. Len(t) : /\ Covers(t[i].prefix, x) /\ Lookup(t, x) = t[i].type
                                  /\ \A j \in 1 .. Len(t) : Covers(t[j].prefix, x) => i <= j
  <2>1. PICK i \in 1 .. Len(t) : /\ Covers(t[i].prefix, x) /\ Lookup(t, x) = t[i].type
                                 /\ \A j \in 1 .. Len(t) : Covers(t[j].prefix, x) => i <= j
    BY <1>5
  <2> DEFINE e == <<t[i].prefix, t[i].type>>
  <2>2. e \in H /\ t[i].type \in Category
    BY <1>2, <2>1
  <2>3. ASSUME NEW f \in H PROVE f[1].bits <= e[1].bits
    <3>1. PICK j \in 1 .. Len(t) : t[j].prefix = f[1] /\ Covers(t[j].prefix, x)
      BY <1>3
    <3>2. i <= j /\ t[i].prefix.bits >= t[j].prefix.bits
      BY <1>1, <2>1, <3>1 DEF Sorted
    <3>3. t[i].prefix.bits \in Int /\ t[j].prefix.bits \in Int
      BY <1>2, <2>1, <3>1
    <3> QED BY <3>1, <3>2, <3>3
  <2>4. e[2] \in MostSpecific(H)
    BY <2>2, <2>3 DEF MostSpecific
  <2>5. e[2] = Lookup(t, x)
    BY <2>1
  <2> QED BY <2>1, <2>2, <2>4, <2>5 DEF H
<1> QED BY <1>1, <1>4, <1>5, FirstHit

\* PrefixTree: after any sequence of setters, of any account, the list that
\* Build sorted answers every address with the category of the most specific
\* range of the three sets, and matches nothing they do not contain.
THEOREM TreeFindsLongest == Spec => []LongestMatch
<1>1. TableInv => LongestMatch
  <2> SUFFICES ASSUME TableInv, NEW x \in Addr
               PROVE  IF Hits(x) = {} THEN Lookup(prefixTree, x) = None
                      ELSE Lookup(prefixTree, x) \in MostSpecific(Hits(x))
    BY DEF LongestMatch
  <2>1. Hits(x) = HitsOf(peeringCIDRs, tgwCIDRs, endpointCIDRs, x)
    BY DEF Hits, HitsOf
  <2> QED BY <2>1, LookupMatches DEF TableInv, TreeOK
<1> QED BY <1>1, TableInvariant, PTL

\* GetVPCPeerings and refreshVPCPeerings, for every account AWS allows: no
\* range of the local VPC is ever priced as a peering, also when the call that
\* feeds the guard fails.
THEOREM LocalNeverPeered == Spec => []LocalNotPeered
<1>1. TableInv => LocalNotPeered
  <2> SUFFICES ASSUME TableInv, NEW p \in peeringCIDRs, NEW s \in subnets, s.vpc = LocalVpc,
                      Overlap(p, s.cidr)
               PROVE  FALSE
    BY DEF LocalNotPeered
  <2> DEFINE L == VpcCIDR[LocalVpc]
             c == s.cidr
  <2>1. p \in PeerRange /\ s \in Subnet
    BY DEF TableInv, SetsOK, RefresherOK
  <2>2. L \in Prefix /\ c \in Prefix /\ c.bits >= L.bits /\ Covers(L, c.addr)
    BY <2>1, TopologyAssumption
  <2>3. p \in Prefix /\ ~Covers(p, L.addr) /\ ~Covers(L, p.addr)
    BY <2>1, TopologyAssumption DEF PeerRange, Overlap
  <2> HIDE DEF L, c
  <2>4. p.bits \in Nat /\ c.bits \in Nat /\ L.bits \in Nat
    BY <2>2, <2>3, WidthNat DEF Prefix
  <2>5. CASE Covers(p, c.addr)
    <3>1. CASE p.bits <= L.bits
      BY <2>2, <2>3, <2>4, <2>5, <3>1 DEF Covers
    <3>2. CASE p.bits > L.bits
      BY <2>2, <2>3, <2>4, <2>5, <3>2 DEF Covers
    <3> QED BY <2>4, <3>1, <3>2
  <2>6. CASE Covers(c, p.addr)
    BY <2>2, <2>3, <2>4, <2>6 DEF Covers
  <2> QED BY <2>5, <2>6 DEF Overlap, c
<1> QED BY <1>1, TableInvariant, PTL

-----------------------------------------------------------------------------
(* A call of Classify and one swap.                                         *)

\* The call's way to the zones is open at this moment.
ToZones(d) == CoveredBy(clusterPrefixes, d) \/ TablesType(d) = None

\* What the rest of the call gives if nothing changes any more.
Outcome ==
    IF call.pc = "tables" /\ TablesType(call.dst) # None THEN TablesType(call.dst)
    ELSE ZonesType(IF call.pc = "dst" THEN call.zone ELSE Resolve(Src), Resolve(call.dst))

\* The branches taken so far are those the tables still show.
PathOK ==
    /\ call.pc = "tables" => ~CoveredBy(clusterPrefixes, call.dst)
    /\ call.pc \in {"src", "dst"} => ToZones(call.dst)
    /\ call.pc = "dst" => call.zone = Resolve(Src)

CallShape ==
    /\ call = [pc |-> call.pc, dst |-> call.dst, zone |-> call.zone, atomic |-> call.atomic,
               seen |-> call.seen, swaps |-> call.swaps]
    /\ call.pc \in {"done", "tables", "src", "dst"} /\ call.swaps \in {0, 1, 2}
    /\ call.pc # "done" => call.dst \in Addr /\ ~CoveredBy(Loopback, call.dst)

CallInv ==
    /\ CallShape
    /\ AnswerOfOneMoment
    /\ call.pc # "done" /\ call.swaps = 0 => call.seen = Answer(call.dst) /\ PathOK
    /\ call.pc # "done" /\ call.swaps = 1 => Outcome \in call.seen

\* Read at one moment, the steps of Classify follow the decision order.
Consistent ==
    \A d \in Addr : ~CoveredBy(Loopback, d) =>
        /\ ToZones(d) => ZonesType(Resolve(Src), Resolve(d)) \in Answer(d)
        /\ ~ToZones(d) => TablesType(d) \in Answer(d)

LEMMA TablesConsistent == TableInv => Consistent
<1> SUFFICES ASSUME TableInv, NEW d \in Addr, ~CoveredBy(Loopback, d)
             PROVE  /\ ToZones(d) => ZonesType(Resolve(Src), Resolve(d)) \in Answer(d)
                    /\ ~ToZones(d) => TablesType(d) \in Answer(d)
  BY DEF Consistent
<1> DEFINE L == Lookup(prefixTree, d)
           Z == ZonesType(Resolve(Src), Resolve(d))
<1>1. None \notin {"VPCPeering", "TransitGateway", "VPCEndpoint", "NATGatewayEgress", "InternetEgress"}
  BY TopologyAssumption DEF ClassifierConstantsOK
<1>2. /\ Hits(d) = {} => L = None
      /\ Hits(d) # {} => L \in MostSpecific(Hits(d)) /\ L # None
  <2>1. Hits(d) = HitsOf(peeringCIDRs, tgwCIDRs, endpointCIDRs, d)
    BY DEF Hits, HitsOf
  <2>2. TreeOf(peeringCIDRs, tgwCIDRs, endpointCIDRs, prefixTree)
    BY DEF TableInv, TreeOK
  <2> QED BY <1>1, <2>1, <2>2, LookupMatches DEF Category
<1>3. /\ CoveredBy(PrivateSpace \cup Loopback, d) <=> CoveredBy(PrivateSpace, d)
      /\ CoveredBy(Loopback \cup clusterPrefixes, d) <=> CoveredBy(clusterPrefixes, d)
  BY DEF CoveredBy
<1>4. TablesType(d) = IF CoveredBy(PrivateSpace, d)
                      THEN IF d \in natGatewayIPs THEN "NATGatewayEgress" ELSE L
                      ELSE IF L # None THEN L
                      ELSE IF defaultRouteNAT THEN "NATGatewayEgress" ELSE "InternetEgress"
  BY <1>3 DEF TablesType
<1>5. Answer(d) = IF CoveredBy(clusterPrefixes, d) THEN {Z}
                  ELSE IF CoveredBy(PrivateSpace, d)
                  THEN IF d \in natGatewayIPs THEN {"NATGatewayEgress"}
                       ELSE IF Hits(d) # {} THEN MostSpecific(Hits(d)) ELSE {Z}
                  ELSE IF Hits(d) # {} THEN MostSpecific(Hits(d))
                  ELSE IF defaultRouteNAT THEN {"NATGatewayEgress"} ELSE {"InternetEgress"}
  <2>1. CASE CoveredBy(clusterPrefixes, d)
    BY <1>3, <2>1 DEF Answer
  <2>2. CASE ~CoveredBy(clusterPrefixes, d) /\ CoveredBy(PrivateSpace, d)
    BY <1>3, <2>2 DEF Answer
  <2>3. CASE ~CoveredBy(clusterPrefixes, d) /\ ~CoveredBy(PrivateSpace, d)
    BY <1>3, <2>3 DEF Answer
  <2> QED BY <2>1, <2>2, <2>3
<1> HIDE DEF L, Z
<1>6. ToZones(d) => Z \in Answer(d)
  <2>1. CASE CoveredBy(clusterPrefixes, d)
    BY <1>5, <2>1
  <2>2. CASE ~CoveredBy(clusterPrefixes, d) /\ TablesType(d) = None
    BY <1>1, <1>2, <1>4, <1>5, <2>2
  <2> QED BY <2>1, <2>2 DEF ToZones
<1>7. ~ToZones(d) => TablesType(d) \in Answer(d)
  <2> SUFFICES ASSUME ~CoveredBy(clusterPrefixes, d), TablesType(d) # None
               PROVE  TablesType(d) \in Answer(d)
    BY DEF ToZones
  <2>1. CASE Hits(d) = {}
    BY <1>2, <1>4, <1>5, <2>1
  <2>2. CASE Hits(d) # {}
    BY <1>2, <1>4, <1>5, <2>2
  <2> QED BY <2>1, <2>2
<1> QED BY <1>6, <1>7 DEF Z

LEMMA NextConsistent == TableInv' => Consistent'
  BY TablesConsistent, PTL

LEMMA LoopbackAnswer == \A d : CoveredBy(Loopback, d) => Answer(d) = {"IntraNode"}
<1> SUFFICES ASSUME NEW d, CoveredBy(Loopback, d) PROVE Answer(d) = {"IntraNode"}
  OBVIOUS
<1>1. CoveredBy(Loopback \cup clusterPrefixes, d)
  BY DEF CoveredBy
<1> QED BY <1>1 DEF Answer

\* With no swap so far the outcome is one the decision order allows.
LEMMA OutcomeSeen ==
    TableInv /\ CallInv /\ call.pc # "done" /\ call.swaps <= 1 => Outcome \in call.seen
<1> SUFFICES ASSUME TableInv, CallInv, call.pc # "done", call.swaps = 0
             PROVE  Outcome \in call.seen
  BY DEF CallInv, CallShape
<1>1. call.seen = Answer(call.dst) /\ PathOK /\ call.dst \in Addr /\ ~CoveredBy(Loopback, call.dst)
  BY DEF CallInv, CallShape
<1>2. /\ ToZones(call.dst) => ZonesType(Resolve(Src), Resolve(call.dst)) \in Answer(call.dst)
      /\ ~ToZones(call.dst) => TablesType(call.dst) \in Answer(call.dst)
  BY <1>1, TablesConsistent DEF Consistent
<1>3. CASE call.pc = "tables"
  BY <1>1, <1>2, <1>3 DEF Outcome, PathOK, ToZones
<1>4. CASE call.pc = "src"
  BY <1>1, <1>2, <1>4 DEF Outcome, PathOK
<1>5. CASE call.pc = "dst"
  BY <1>1, <1>2, <1>5 DEF Outcome, PathOK
<1> QED BY <1>3, <1>4, <1>5 DEF CallInv, CallShape

\* The four kinds of steps of others: none of the tables, the zones only, the
\* cluster CIDRs only, or what the prefix tree and the NAT tables hold.
Others ==
    \/ UNCHANGED tables
    \/ UNCHANGED <<prefixSets, clusterPrefixes, natTables>>
    \/ UNCHANGED <<prefixSets, natTables, zoneTables>> /\ clusterPrefixes \subseteq clusterPrefixes'
    \/ UNCHANGED <<clusterPrefixes, zoneTables>>

LEMMA OthersAre ==
    TableInv /\ (Tick \/ Fetch \/ FetchFails \/ Apply \/ ApplyUnguarded \/ AccountChanges \/ OthersSet)
    => Observe /\ Others
<1> SUFFICES ASSUME TableInv,
                    Tick \/ Fetch \/ FetchFails \/ Apply \/ ApplyUnguarded \/ AccountChanges \/ OthersSet
             PROVE  Observe /\ Others
  OBVIOUS
<1>1. CASE Tick \/ Fetch \/ FetchFails \/ AccountChanges
  BY <1>1 DEF Tick, Fetch, FetchFails, AccountChanges, Others
<1>2. CASE Apply
  <2>1. step \in {"nat", "route", "peerings", "transit", "zones"} /\ Observe
    BY <1>2 DEF Apply, TableInv, RefresherOK
  <2>2. CASE step = "nat"
    BY <1>2, <2>1, <2>2 DEF Apply, SetNATGatewayIPs, Others
  <2>3. CASE step = "route"
    BY <1>2, <2>1, <2>3 DEF Apply, SetDefaultRouteNAT, Others
  <2>4. CASE step = "peerings"
    BY <1>2, <2>1, <2>4 DEF Apply, SetVPCPeeringCIDRs, Others
  <2>5. CASE step = "transit"
    BY <1>2, <2>1, <2>5 DEF Apply, SetTransitGatewayCIDRs, Others
  <2>6. CASE step = "zones"
    BY <1>2, <2>1, <2>6 DEF Apply, SetCIDRZones, Others
  <2> QED BY <2>1, <2>2, <2>3, <2>4, <2>5, <2>6
<1>3. CASE ApplyUnguarded
  BY <1>3 DEF ApplyUnguarded, SetVPCPeeringCIDRs, Others
<1>4. CASE OthersSet
  BY <1>4 DEF OthersSet, AddClusterCIDR, SetIPZone, SetVPCEndpointCIDRs, Others
<1> QED BY <1>1, <1>2, <1>3, <1>4

LEMMA ZonesKept == UNCHANGED zoneTables => \A x : Resolve(x)' = Resolve(x)
  BY DEF Resolve, SelectInSeq, zoneTables

LEMMA TablesKept == UNCHANGED <<prefixSets, natTables>> => \A d : TablesType(d)' = TablesType(d)
  BY DEF TablesType, prefixSets, natTables

LEMMA AnswerKept == UNCHANGED tables => \A d : Answer(d)' = Answer(d)
<1> SUFFICES ASSUME UNCHANGED tables, NEW d PROVE Answer(d)' = Answer(d)
  OBVIOUS
<1>1. Resolve(Src)' = Resolve(Src) /\ Resolve(d)' = Resolve(d)
  BY ZonesKept DEF tables
<1>2. Hits(d)' = Hits(d)
  BY DEF Hits, tables, prefixSets
<1> QED BY <1>1, <1>2 DEF Answer, tables, natTables

\* The destination of the call does not change under it.
LEMMA DstNext ==
    ASSUME NEW d, call'.dst = d
    PROVE  /\ Resolve(call.dst)' = Resolve(d)' /\ TablesType(call.dst)' = TablesType(d)'
           /\ ToZones(call.dst)' = ToZones(d)' /\ Answer(call.dst)' = Answer(d)'
<1>1. TablesType(call.dst)' = TablesType(d)'
  BY DEF TablesType
<1>2. Resolve(call.dst)' = Resolve(d)'
  BY DEF Resolve
<1>3. ToZones(call.dst)' = ToZones(d)'
  BY <1>1 DEF ToZones
<1>4. Hits(call.dst)' = Hits(d)'
  BY DEF Hits
<1>5. Answer(call.dst)' = Answer(d)'
  BY <1>2, <1>4 DEF Answer
<1> QED BY <1>1, <1>2, <1>3, <1>5

LEMMA OutcomeNext ==
    ASSUME NEW d, call.dst = d, call'.dst = d, call'.pc = call.pc, call'.zone = call.zone
    PROVE  Outcome' = IF call.pc = "tables" /\ TablesType(d)' # None THEN TablesType(d)'
                      ELSE ZonesType(IF call.pc = "dst" THEN call.zone ELSE Resolve(Src)', Resolve(d)')
<1>1. TablesType(call.dst)' = TablesType(d)' /\ Resolve(call.dst)' = Resolve(d)'
  BY DstNext
<1> QED BY <1>1 DEF Outcome

LEMMA ObserveStep == TableInv /\ TableInv' /\ CallInv /\ Observe /\ Others => CallInv'
<1> SUFFICES ASSUME TableInv, TableInv', CallInv, Observe, Others PROVE CallInv'
  OBVIOUS
<1>1. PICK d \in {call.dst} :
        call' = IF call.pc = "done" \/ tables' = tables THEN call
                ELSE IF call.swaps = 0 /\ Resolve(Src)' = Resolve(Src)
                THEN [call EXCEPT !.seen = @ \cup Answer(d)', !.swaps = 1]
                ELSE [call EXCEPT !.seen = {}, !.swaps = 2]
  BY DEF Observe
<1>2. d = call.dst
  OBVIOUS
<1>3. CASE call.pc = "done"
  <2>1. call' = call
    BY <1>1, <1>3
  <2> QED BY <1>3, <2>1 DEF CallInv, CallShape, AnswerOfOneMoment
<1>4. CASE call.pc # "done" /\ tables' = tables
  <2>1. call' = call
    BY <1>1, <1>4
  <2>2. CallShape' /\ AnswerOfOneMoment'
    BY <2>1 DEF CallInv, CallShape, AnswerOfOneMoment
  <2>3. Answer(d)' = Answer(d) /\ TablesType(d)' = TablesType(d) /\ Resolve(d)' = Resolve(d)
        /\ Resolve(Src)' = Resolve(Src) /\ clusterPrefixes' = clusterPrefixes
    BY <1>4, AnswerKept, TablesKept, ZonesKept DEF tables
  <2>4. Outcome' = Outcome
    <3>1. Outcome' = IF call.pc = "tables" /\ TablesType(d)' # None THEN TablesType(d)'
                     ELSE ZonesType(IF call.pc = "dst" THEN call.zone ELSE Resolve(Src)', Resolve(d)')
      BY <1>2, <2>1, OutcomeNext
    <3> QED BY <1>2, <2>3, <3>1 DEF Outcome
  <2>5. Answer(call.dst)' = Answer(call.dst) /\ (PathOK => PathOK')
    <3>1. Answer(call.dst)' = Answer(d)' /\ ToZones(call.dst)' = ToZones(d)'
      BY <1>2, <2>1, DstNext
    <3>2. ToZones(d)' = ToZones(d)
      BY <2>3 DEF ToZones
    <3> QED BY <1>2, <2>1, <2>3, <3>1, <3>2 DEF PathOK
  <2> QED BY <2>1, <2>2, <2>4, <2>5 DEF CallInv
<1>5. CASE call.pc # "done" /\ tables' # tables /\ call.swaps = 0 /\ Resolve(Src)' = Resolve(Src)
  <2>1. call' = [call EXCEPT !.seen = @ \cup Answer(d)', !.swaps = 1]
    BY <1>1, <1>5
  <2>2. /\ call'.pc = call.pc /\ call'.dst = d /\ call'.zone = call.zone /\ call'.swaps = 1
        /\ call'.atomic = call.atomic /\ call'.seen = call.seen \cup Answer(d)'
    BY <1>2, <2>1 DEF CallInv, CallShape
  <2>3. CallShape' /\ AnswerOfOneMoment'
    BY <1>2, <2>1, <2>2 DEF CallInv, CallShape, AnswerOfOneMoment
  <2>4. Outcome' = IF call.pc = "tables" /\ TablesType(d)' # None THEN TablesType(d)'
                   ELSE ZonesType(IF call.pc = "dst" THEN call.zone ELSE Resolve(Src), Resolve(d)')
    BY <1>2, <1>5, <2>2, OutcomeNext
  <2>5. Outcome = IF call.pc = "tables" /\ TablesType(d) # None THEN TablesType(d)
                  ELSE ZonesType(IF call.pc = "dst" THEN call.zone ELSE Resolve(Src), Resolve(d))
    BY <1>2 DEF Outcome
  <2>6. Outcome \in call.seen
    BY <1>5, OutcomeSeen DEF CallInv, CallShape
  <2>7. PathOK /\ d \in Addr /\ ~CoveredBy(Loopback, d)
    BY <1>2, <1>5 DEF CallInv, CallShape
  <2>8. /\ ToZones(d)' => ZonesType(Resolve(Src), Resolve(d)') \in Answer(d)'
        /\ ~ToZones(d)' => TablesType(d)' \in Answer(d)'
    <3>1. \A e \in Addr : ~CoveredBy(Loopback, e) =>
             /\ ToZones(e)' => ZonesType(Resolve(Src)', Resolve(e)') \in Answer(e)'
             /\ ~ToZones(e)' => TablesType(e)' \in Answer(e)'
      BY NextConsistent DEF Consistent
    <3> QED BY <1>5, <2>7, <3>1
  <2>9. ToZones(d)' <=> CoveredBy(clusterPrefixes', d) \/ TablesType(d)' = None
    BY DEF ToZones
  <2>10. /\ call.pc = "tables" => ~CoveredBy(clusterPrefixes, d)
         /\ call.pc \in {"src", "dst"} => CoveredBy(clusterPrefixes, d) \/ TablesType(d) = None
         /\ call.pc = "dst" => call.zone = Resolve(Src)
    BY <1>2, <2>7 DEF PathOK, ToZones
  <2>11. call.pc \in {"tables", "src", "dst"}
    BY <1>5 DEF CallInv, CallShape
  <2>12. Outcome' \in call.seen \cup Answer(d)'
    <3>1. CASE UNCHANGED <<prefixSets, clusterPrefixes, natTables>>
      <4>1. TablesType(d)' = TablesType(d) /\ clusterPrefixes' = clusterPrefixes
        BY <3>1, TablesKept
      <4> QED BY <2>4, <2>8, <2>9, <2>10, <2>11, <4>1
    <3>2. CASE UNCHANGED <<prefixSets, natTables, zoneTables>>
      <4>1. TablesType(d)' = TablesType(d) /\ Resolve(d)' = Resolve(d)
        BY <3>2, TablesKept, ZonesKept
      <4> QED BY <2>4, <2>5, <2>6, <4>1
    <3>3. CASE UNCHANGED <<clusterPrefixes, zoneTables>>
      <4>1. clusterPrefixes' = clusterPrefixes /\ Resolve(d)' = Resolve(d)
        BY <3>3, ZonesKept
      <4>2. CASE call.pc = "tables"
        BY <2>4, <2>8, <2>9, <2>10, <4>1, <4>2
      <4>3. CASE call.pc \in {"src", "dst"}
        BY <2>4, <2>5, <2>6, <4>1, <4>3
      <4> QED BY <2>11, <4>2, <4>3
    <3> QED BY <1>5, <3>1, <3>2, <3>3 DEF Others
  <2> QED BY <2>2, <2>3, <2>12 DEF CallInv
<1>6. CASE call.pc # "done" /\ tables' # tables /\ ~(call.swaps = 0 /\ Resolve(Src)' = Resolve(Src))
  <2>1. call' = [call EXCEPT !.seen = {}, !.swaps = 2]
    BY <1>1, <1>6
  <2>2. /\ call'.pc = call.pc /\ call'.dst = d /\ call'.zone = call.zone /\ call'.swaps = 2
        /\ call'.atomic = call.atomic /\ call'.seen = {}
    BY <1>2, <2>1 DEF CallInv, CallShape
  <2>3. CallShape' /\ AnswerOfOneMoment'
    BY <1>2, <2>1, <2>2 DEF CallInv, CallShape, AnswerOfOneMoment
  <2> QED BY <2>2, <2>3 DEF CallInv
<1> QED BY <1>3, <1>4, <1>5, <1>6

LEMMA ClassifyKeepsCallInv == TableInv /\ CallInv /\ Classify => CallInv'
<1> SUFFICES ASSUME TableInv, CallInv, Classify PROVE CallInv'
  OBVIOUS
<1> USE DEF AnswerOfOneMoment
<1>1. UNCHANGED tables
  BY DEF Classify, ClassifyBegin, ClassifyStep, ReadTables, ReadSrcZone, ReadDstZone
<1>2. /\ \A d : Answer(d)' = Answer(d) /\ TablesType(d)' = TablesType(d) /\ Resolve(d)' = Resolve(d)
      /\ Resolve(Src)' = Resolve(Src) /\ clusterPrefixes' = clusterPrefixes
  BY <1>1, AnswerKept, TablesKept, ZonesKept DEF tables
<1>3. ASSUME NEW d \in Dst, ClassifyBegin(d) PROVE CallInv'
  <2>1. d \in Addr
    BY TopologyAssumption
  <2>2. CASE CoveredBy(Loopback, d)
    <3>1. call' = [Idle EXCEPT !.atomic = "IntraNode" \in Answer(d)]
      BY <1>3, <2>2 DEF ClassifyBegin
    <3>2. "IntraNode" \in Answer(d)
      BY <2>2, LoopbackAnswer
    <3> QED BY <3>1, <3>2 DEF CallInv, CallShape, Idle
  <2>3. CASE ~CoveredBy(Loopback, d)
    <3> DEFINE pc == IF CoveredBy(clusterPrefixes, d) THEN "src" ELSE "tables"
    <3>1. call' = [pc |-> pc, dst |-> d, zone |-> None, atomic |-> TRUE, seen |-> Answer(d), swaps |-> 0]
      BY <1>3, <2>3 DEF ClassifyBegin, Idle
    <3>2. /\ call'.pc = pc /\ call'.dst = d /\ call'.swaps = 0 /\ call'.atomic = TRUE
          /\ call'.seen = Answer(d)
      BY <3>1
    <3>3. CallShape'
      BY <2>1, <2>3, <3>1 DEF CallShape
    <3>4. call'.seen = Answer(call.dst)'
      BY <1>2, <3>2, DstNext
    <3>5. PathOK'
      <4>1. ToZones(call.dst)' <=> CoveredBy(clusterPrefixes, d) \/ TablesType(d) = None
        BY <1>2, <3>2, DstNext DEF ToZones
      <4> QED BY <1>2, <3>2, <4>1 DEF PathOK
    <3> QED BY <3>2, <3>3, <3>4, <3>5 DEF CallInv
  <2> QED BY <2>2, <2>3
<1>4. ASSUME NEW ty, call.pc # "done", ty = Outcome, Return(ty) PROVE CallInv'
  <2>1. call.swaps <= 1 => ty \in call.seen
    BY <1>4, OutcomeSeen
  <2>2. call' = [Idle EXCEPT !.atomic = call.swaps <= 1 => ty \in call.seen]
    BY <1>4 DEF Return
  <2> QED BY <2>1, <2>2 DEF CallInv, CallShape, Idle
<1>5. CASE ReadTables
  <2>1. CASE TablesType(call.dst) # None
    <3>1. Outcome = TablesType(call.dst) /\ call.pc # "done" /\ Return(TablesType(call.dst))
      BY <1>5, <2>1 DEF ReadTables, Outcome
    <3> QED BY <1>4, <3>1
  <2>2. CASE TablesType(call.dst) = None
    <3> DEFINE d == call.dst
    <3>1. call' = [call EXCEPT !.pc = "src"] /\ call.pc = "tables"
      BY <1>5, <2>2 DEF ReadTables
    <3>2. /\ call'.pc = "src" /\ call'.dst = d /\ call'.zone = call.zone /\ call'.swaps = call.swaps
          /\ call'.atomic = call.atomic /\ call'.seen = call.seen
      BY <3>1 DEF CallInv, CallShape
    <3>3. CallShape' /\ AnswerOfOneMoment'
      BY <3>1, <3>2 DEF CallInv, CallShape
    <3>4. Answer(call.dst)' = Answer(d) /\ TablesType(call.dst)' = TablesType(d)
          /\ Resolve(call.dst)' = Resolve(d)
      BY <1>2, <3>2, DstNext
    <3>5. PathOK'
      BY <2>2, <3>2, <3>4 DEF PathOK, ToZones
    <3>6. Outcome' = Outcome
      BY <1>2, <2>2, <3>1, <3>2, <3>4 DEF Outcome
    <3> QED BY <3>1, <3>2, <3>3, <3>4, <3>5, <3>6 DEF CallInv
  <2> QED BY <2>1, <2>2
<1>6. CASE ReadSrcZone
  <2> DEFINE d == call.dst
  <2>1. call' = [call EXCEPT !.pc = "dst", !.zone = Resolve(Src)] /\ call.pc = "src"
    BY <1>6 DEF ReadSrcZone
  <2>2. /\ call'.pc = "dst" /\ call'.dst = d /\ call'.zone = Resolve(Src) /\ call'.swaps = call.swaps
        /\ call'.atomic = call.atomic /\ call'.seen = call.seen
    BY <2>1 DEF CallInv, CallShape
  <2>3. CallShape' /\ AnswerOfOneMoment'
    BY <2>1, <2>2 DEF CallInv, CallShape
  <2>4. Answer(call.dst)' = Answer(d) /\ TablesType(call.dst)' = TablesType(d)
        /\ Resolve(call.dst)' = Resolve(d)
    BY <1>2, <2>2, DstNext
  <2>5. PathOK => PathOK'
    <3>1. ToZones(call.dst)' <=> ToZones(call.dst)
      BY <1>2, <2>2, <2>4 DEF ToZones
    <3> QED BY <1>2, <2>1, <2>2, <3>1 DEF PathOK
  <2>6. Outcome' = Outcome
    BY <1>2, <2>1, <2>2, <2>4 DEF Outcome
  <2> QED BY <2>1, <2>2, <2>3, <2>4, <2>5, <2>6 DEF CallInv
<1>7. CASE ReadDstZone
  <2>1. Outcome = ZonesType(call.zone, Resolve(call.dst)) /\ call.pc # "done"
        /\ Return(ZonesType(call.zone, Resolve(call.dst)))
    BY <1>7 DEF ReadDstZone, Outcome
  <2> QED BY <1>4, <2>1
<1> QED BY <1>3, <1>5, <1>6, <1>7 DEF Classify, ClassifyStep

\* Classify against the refresher, the informer and the operator, for every
\* account and every number of changes: a call that meets at most one swap of
\* a table (the source's own zone apart) gives an answer that the tables at
\* one moment of the call explain, although it takes the locks up to four
\* times.
THEOREM OneSwapOneMoment == Spec => []AnswerOfOneMoment
<1>1. Init => CallInv
  BY DEF Init, ClassifierInit, CallInv, CallShape, AnswerOfOneMoment, Idle
<1>2. TableInv /\ TableInv' /\ CallInv /\ [Next]_vars => CallInv'
  <2> SUFFICES ASSUME TableInv, TableInv', CallInv, [Next]_vars PROVE CallInv'
    OBVIOUS
  <2>1. CASE UNCHANGED vars
    <3>1. UNCHANGED tables /\ call' = call
      BY <2>1 DEF vars
    <3>2. Observe /\ Others
      BY <3>1 DEF Observe, Others
    <3> QED BY <3>2, ObserveStep
  <2>2. CASE Classify
    BY <2>2, ClassifyKeepsCallInv
  <2>3. CASE Next /\ ~Classify
    BY <2>3, OthersAre, ObserveStep DEF Next
  <2> QED BY <2>1, <2>2, <2>3
<1>3. CallInv => AnswerOfOneMoment
  BY DEF CallInv
<1> QED BY <1>1, <1>2, <1>3, TableInvariant, PTL DEF Spec
=============================================================================
