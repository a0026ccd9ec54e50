------------------------------ MODULE FoldProofs ------------------------------
(***************************************************************************)
(* What the folds of the community modules compute.  The models add up     *)
(* bytes, cents and occurrences with SumFunctionOnSet and build sequences  *)
(* with FoldLeft; both are recursive functions over the subsets of a set.  *)
(* Induction is used in the form of a set that contains 0 and with n also  *)
(* n + 1, which follows from the well-foundedness of the naturals.         *)
(***************************************************************************)
EXTENDS Integers, Sequences, SequencesExt, FiniteSetsExt, FiniteSetTheorems, SequenceTheorems, TLAPS

-----------------------------------------------------------------------------
(* Induction.                                                               *)

LEMMA LeastNat ==
    ASSUME NEW T \in SUBSET Nat, T # {}
    PROVE  \E n \in T : \A m \in T : n <= m
<1> DEFINE R == OpToRel(<, Nat)
<1>1. IsWellFoundedOn(R, Nat)
  BY NatLessThanWellFounded
<1>2. \A m, n \in Nat : m < n => <<m, n>> \in R
  BY DEF OpToRel
<1> HIDE DEF R
<1>3. PICK n \in T : \A m \in T : ~(<<m, n>> \in R)
  BY <1>1, WFMin
<1>4. ASSUME NEW m \in T PROVE n <= m
  <2>1. m \in Nat /\ n \in Nat
    OBVIOUS
  <2>2. ~(m < n)
    BY <1>2, <1>3, <2>1
  <2> QED BY <2>1, <2>2
<1> QED BY <1>4

\* A set that contains 0 and with every number its successor contains all.
LEMMA Induction ==
    ASSUME NEW P, 0 \in P, \A n \in Nat : n \in P => n + 1 \in P
    PROVE  Nat \subseteq P
<1> SUFFICES ASSUME Nat \ P # {} PROVE FALSE
  OBVIOUS
<1>1. PICK n \in Nat \ P : \A m \in Nat \ P : n <= m
  BY LeastNat
<1>2. n # 0 /\ n - 1 \in Nat
  BY <1>1
<1>3. n - 1 \in P
  BY <1>1, <1>2
<1> QED BY <1>2, <1>3, <1>1

\* The same for the subsets of a finite set, which shrink one element at a
\* time.
LEMMA SetInduction ==
    ASSUME NEW S, IsFiniteSet(S), NEW P, {} \in P,
           \A T \in SUBSET S : T # {} => \E x \in T : T \ {x} \in P => T \in P
    PROVE  SUBSET S \subseteq P
<1> DEFINE Q == {n \in Nat : \A T \in SUBSET S : Cardinality(T) = n => T \in P}
<1>1. \A T \in SUBSET S : /\ IsFiniteSet(T) /\ Cardinality(T) \in Nat
                          /\ Cardinality(T) = 0 <=> T = {}
  BY FS_Subset, FS_CardinalityType, FS_EmptySet
<1>2. 0 \in Q
  BY <1>1
<1>3. ASSUME NEW n \in Nat, n \in Q PROVE n + 1 \in Q
  <2> SUFFICES ASSUME NEW T \in SUBSET S, Cardinality(T) = n + 1 PROVE T \in P
    OBVIOUS
  <2>1. T # {}
    BY <1>1
  <2>2. PICK x \in T : T \ {x} \in P => T \in P
    BY <2>1
  <2>3. Cardinality(T \ {x}) = Cardinality(T) - 1
    BY <1>1, <2>2, FS_RemoveElement
  <2>4. Cardinality(T \ {x}) = n
    BY <2>3
  <2>5. T \ {x} \in P
    BY <1>3, <2>4
  <2> QED BY <2>2, <2>5
<1> HIDE DEF Q
<1>4. Nat \subseteq Q
  BY <1>2, <1>3, Induction
<1> QED BY <1>1, <1>4 DEF Q

-----------------------------------------------------------------------------
(* The recursion behind both folds has a solution: an element is chosen     *)
(* from the set, the rest folded, and the element's step applied.           *)

SizeUpTo(S, n) == {s \in SUBSET S : Cardinality(s) <= n}

\* C chooses from each set; D is the step an element makes.
Chooses(C, S) == \A s \in SUBSET S : s # {} => C[s] \in s

Solves(g, base, C, D, S) ==
    \A s \in SUBSET S : g[s] = IF s = {} THEN base ELSE D[C[s]][g[s \ {C[s]}]]

LEMMA FoldExists ==
    ASSUME NEW S, IsFiniteSet(S), NEW V, NEW base \in V, NEW D \in [S -> [V -> V]],
           NEW C, Chooses(C, S)
    PROVE  \E g \in [SUBSET S -> V] : Solves(g, base, C, D, S)
<1> USE DEF Chooses, Solves
<1> DEFINE Folds(g, n) == \A s \in SizeUpTo(S, n) :
                             g[s] = IF s = {} THEN base ELSE D[C[s]][g[s \ {C[s]}]]
           Good == {n \in Nat : \E g \in [SizeUpTo(S, n) -> V] : Folds(g, n)}
<1>1. \A s \in SUBSET S : /\ IsFiniteSet(s) /\ Cardinality(s) \in Nat
                          /\ Cardinality(s) = 0 <=> s = {}
  BY FS_Subset, FS_CardinalityType, FS_EmptySet
<1>2. 0 \in Good
  <2>1. SizeUpTo(S, 0) = {{}}
    BY <1>1 DEF SizeUpTo
  <2>2. [s \in {{}} |-> base] \in [SizeUpTo(S, 0) -> V] /\ Folds([s \in {{}} |-> base], 0)
    BY <2>1
  <2> QED BY <2>2
<1>3. ASSUME NEW n \in Nat, n \in Good PROVE n + 1 \in Good
  <2>1. PICK g \in [SizeUpTo(S, n) -> V] : Folds(g, n)
    BY <1>3
  <2> DEFINE h == [s \in SizeUpTo(S, n + 1) |->
                      IF s = {} THEN base ELSE D[C[s]][g[s \ {C[s]}]]]
  <2>2. ASSUME NEW s \in SizeUpTo(S, n + 1), s # {}
        PROVE  s \ {C[s]} \in SizeUpTo(S, n) /\ C[s] \in S
    <3>1. s \in SUBSET S /\ Cardinality(s) <= n + 1 /\ C[s] \in s
      BY <2>2 DEF SizeUpTo
    <3>2. Cardinality(s \ {C[s]}) = Cardinality(s) - 1 /\ Cardinality(s) \in Nat
      BY <1>1, <3>1, FS_RemoveElement
    <3> QED BY <3>1, <3>2 DEF SizeUpTo
  <2>3. ASSUME NEW s \in SizeUpTo(S, n) PROVE h[s] = g[s] /\ s \in SizeUpTo(S, n + 1)
    <3>1. s \in SizeUpTo(S, n + 1)
      BY <1>1 DEF SizeUpTo
    <3> QED BY <2>1, <3>1
  <2>4. h \in [SizeUpTo(S, n + 1) -> V]
    <3>1. ASSUME NEW s \in SizeUpTo(S, n + 1), s # {} PROVE D[C[s]][g[s \ {C[s]}]] \in V
      BY <2>1, <2>2, <3>1
    <3> QED BY <3>1
  <2>5. Folds(h, n + 1)
    <3>1. ASSUME NEW s \in SizeUpTo(S, n + 1), s # {} PROVE g[s \ {C[s]}] = h[s \ {C[s]}]
      BY <2>2, <2>3, <3>1
    <3> QED BY <3>1
  <2> HIDE DEF h, Folds
  <2> QED BY <2>4, <2>5
<1>4. Cardinality(S) \in Good
  <2> HIDE DEF Good
  <2>1. Nat \subseteq Good
    BY <1>2, <1>3, Induction
  <2> QED BY <1>1, <2>1
<1>5. SizeUpTo(S, Cardinality(S)) = SUBSET S
  BY FS_Subset, <1>1 DEF SizeUpTo
<1> QED BY <1>4, <1>5

-----------------------------------------------------------------------------
(* Sums.                                                                    *)

Pick(s) == CHOOSE x \in s : TRUE

Adds(g, F, S) ==
    \A s \in SUBSET S : g[s] = IF s = {} THEN 0 ELSE F[Pick(s)] + g[s \ {Pick(s)}]

Integral(F, S) == \A x \in S : F[x] \in Int

LEMMA SumSolves ==
    ASSUME NEW F, NEW S, IsFiniteSet(S), Integral(F, S)
    PROVE  \E g \in [SUBSET S -> Int] : Adds(g, F, S) /\ SumFunctionOnSet(F, S) = g[S]
<1> DEFINE Eq(g) == g = [s \in SUBSET S |-> IF s = {} THEN 0 ELSE F[Pick(s)] + g[s \ {Pick(s)}]]
<1>1. SumFunctionOnSet(F, S) = (CHOOSE g : Eq(g))[S]
  BY DEF SumFunctionOnSet, FoldFunctionOnSet, MapThenFoldSet, Pick
<1>2. \E g \in [SUBSET S -> Int] : Adds(g, F, S)
  <2> DEFINE C == [s \in SUBSET S |-> Pick(s)]
             D == [x \in S |-> [v \in Int |-> F[x] + v]]
  <2>1. D \in [S -> [Int -> Int]] /\ Chooses(C, S)
    BY DEF Pick, Integral, Chooses
  <2>2. PICK g \in [SUBSET S -> Int] : Solves(g, 0, C, D, S)
    <3>1. 0 \in Int
      OBVIOUS
    <3> HIDE DEF C, D
    <3> QED BY <2>1, <3>1, FoldExists
  <2>3. ASSUME NEW s \in SUBSET S, s # {} PROVE D[C[s]][g[s \ {C[s]}]] = F[Pick(s)] + g[s \ {Pick(s)}]
    BY <2>1, <2>3 DEF Chooses
  <2> QED BY <2>2, <2>3 DEF Adds, Solves
<1>3. \E g : Eq(g)
  BY <1>2 DEF Adds
<1> DEFINE h == CHOOSE g : Eq(g)
<1>4. Eq(h)
  BY <1>3
<1>5. Adds(h, F, S)
  BY <1>4 DEF Adds
<1>6. h \in [SUBSET S -> Int]
  <2> DEFINE P == {T \in SUBSET S : h[T] \in Int}
  <2> HIDE DEF h
  <2>1. {} \in P
    <3>1. {} \in SUBSET S
      OBVIOUS
    <3>2. h[{}] = 0
      BY <1>5, <3>1 DEF Adds
    <3> QED BY <3>1, <3>2
  <2>2. ASSUME NEW T \in SUBSET S, T # {} PROVE \E x \in T : T \ {x} \in P => T \in P
    <3>1. Pick(T) \in T /\ F[Pick(T)] \in Int
      BY <2>2 DEF Pick, Integral
    <3>2. h[T] = F[Pick(T)] + h[T \ {Pick(T)}]
      BY <1>5, <2>2 DEF Adds
    <3>3. T \ {Pick(T)} \in P => T \in P
      BY <3>1, <3>2
    <3> QED BY <3>1, <3>3
  <2>3. SUBSET S \subseteq P
    <3> HIDE DEF P
    <3> QED BY <2>1, <2>2, SetInduction
  <2> QED BY <1>4, <2>3 DEF h
<1> QED BY <1>1, <1>5, <1>6

\* A solution for a set contains those for its subsets.
LEMMA SumAgrees ==
    ASSUME NEW F, NEW S, IsFiniteSet(S), NEW T \in SUBSET S, Integral(F, S),
           NEW g, Adds(g, F, S)
    PROVE  SumFunctionOnSet(F, T) = g[T]
<1>1. IsFiniteSet(T) /\ Integral(F, T)
  BY FS_Subset DEF Integral
<1>2. PICK h : Adds(h, F, T) /\ SumFunctionOnSet(F, T) = h[T]
  BY <1>1, SumSolves
<1> DEFINE P == {U \in SUBSET T : g[U] = h[U]}
<1>3. {} \in P
  <2>1. {} \in SUBSET T /\ {} \in SUBSET S
    OBVIOUS
  <2>2. g[{}] = 0 /\ h[{}] = 0
    BY <1>2, <2>1 DEF Adds
  <2> QED BY <2>1, <2>2
<1>4. ASSUME NEW U \in SUBSET T, U # {} PROVE \E x \in U : U \ {x} \in P => U \in P
  <2>1. Pick(U) \in U
    BY <1>4 DEF Pick
  <2>2. g[U] = F[Pick(U)] + g[U \ {Pick(U)}] /\ h[U] = F[Pick(U)] + h[U \ {Pick(U)}]
    BY <1>2, <1>4 DEF Adds
  <2>3. U \ {Pick(U)} \in P => U \in P
    BY <2>2
  <2> QED BY <2>1, <2>3
<1>5. SUBSET T \subseteq P
  <2> HIDE DEF P
  <2> QED BY <1>1, <1>3, <1>4, SetInduction
<1> QED BY <1>2, <1>5

LEMMA SumInt ==
    ASSUME NEW F, NEW S, IsFiniteSet(S), Integral(F, S)
    PROVE  SumFunctionOnSet(F, S) \in Int
<1>1. PICK g \in [SUBSET S -> Int] : SumFunctionOnSet(F, S) = g[S]
  BY SumSolves
<1>2. S \in SUBSET S
  OBVIOUS
<1> QED BY <1>1, <1>2

LEMMA SumEmpty == ASSUME NEW F PROVE SumFunctionOnSet(F, {}) = 0
<1>1. IsFiniteSet({}) /\ Integral(F, {})
  BY FS_EmptySet DEF Integral
<1>2. PICK g : Adds(g, F, {}) /\ SumFunctionOnSet(F, {}) = g[{}]
  BY <1>1, SumSolves
<1>3. {} \in SUBSET {}
  OBVIOUS
<1> QED BY <1>2, <1>3 DEF Adds

\* Any element may be taken out first.
LEMMA SumRemove ==
    ASSUME NEW F, NEW S, IsFiniteSet(S), Integral(F, S), NEW e \in S
    PROVE  SumFunctionOnSet(F, S) = F[e] + SumFunctionOnSet(F, S \ {e})
<1>1. PICK g \in [SUBSET S -> Int] : Adds(g, F, S)
  BY SumSolves
<1>2. \A T \in SUBSET S : SumFunctionOnSet(F, T) = g[T]
  BY <1>1, SumAgrees
<1>3. \A T \in SUBSET S : /\ IsFiniteSet(T) /\ Cardinality(T) \in Nat
                          /\ Cardinality(T) = 0 <=> T = {}
                          /\ \A y \in T : Cardinality(T \ {y}) = Cardinality(T) - 1
  BY FS_Subset, FS_CardinalityType, FS_EmptySet, FS_RemoveElement
<1> DEFINE AnyOrder(T) == \A y \in T : g[T] = F[y] + g[T \ {y}]
           P == {n \in Nat : \A T \in SUBSET S : Cardinality(T) = n => AnyOrder(T)}
<1>4. 0 \in P
  BY <1>3
<1>5. ASSUME NEW n \in Nat, n \in P PROVE n + 1 \in P
  <2> SUFFICES ASSUME NEW T \in SUBSET S, Cardinality(T) = n + 1, NEW y \in T
               PROVE  g[T] = F[y] + g[T \ {y}]
    OBVIOUS
  <2> DEFINE p == Pick(T)
  <2>1. p \in T
    BY DEF Pick
  <2>2. g[T] = F[p] + g[T \ {p}]
    BY <1>1 DEF Adds
  <2> HIDE DEF p
  <2>3. CASE y = p
    BY <2>2, <2>3
  <2>4. CASE y # p
    <3>1. AnyOrder(T \ {p}) /\ AnyOrder(T \ {y})
      <4>1. Cardinality(T \ {p}) = n /\ Cardinality(T \ {y}) = n
        BY <1>3, <2>1
      <4> QED BY <1>5, <4>1
    <3>2. g[T \ {p}] = F[y] + g[(T \ {p}) \ {y}] /\ g[T \ {y}] = F[p] + g[(T \ {y}) \ {p}]
      BY <2>1, <2>4, <3>1
    <3> DEFINE r == g[(T \ {p}) \ {y}]
    <3>3. (T \ {y}) \ {p} = (T \ {p}) \ {y}
      OBVIOUS
    <3>4. g[T] = F[p] + (F[y] + r) /\ g[T \ {y}] = F[p] + r
      BY <2>2, <3>2, <3>3
    <3>5. F[y] \in Int /\ F[p] \in Int /\ r \in Int
      <4>1. (T \ {p}) \ {y} \in SUBSET S
        OBVIOUS
      <4> QED BY <2>1, <4>1 DEF Integral
    <3> HIDE DEF r
    <3> QED BY <3>4, <3>5
  <2> QED BY <2>3, <2>4
<1>6. Nat \subseteq P
  <2> HIDE DEF P
  <2> QED BY <1>4, <1>5, Induction
<1>7. S \in SUBSET S /\ S \ {e} \in SUBSET S
  OBVIOUS
<1>8. AnyOrder(S)
  BY <1>3, <1>6, <1>7
<1> QED BY <1>2, <1>7, <1>8

LEMMA SumAdd ==
    ASSUME NEW F, NEW S, IsFiniteSet(S), NEW e, e \notin S, Integral(F, S \cup {e})
    PROVE  SumFunctionOnSet(F, S \cup {e}) = F[e] + SumFunctionOnSet(F, S)
<1>1. IsFiniteSet(S \cup {e}) /\ (S \cup {e}) \ {e} = S
  BY FS_AddElement
<1> QED BY <1>1, SumRemove

\* Equal functions have equal sums.
LEMMA SumSame ==
    ASSUME NEW F, NEW G, NEW S, IsFiniteSet(S), Integral(F, S), \A e \in S : F[e] = G[e]
    PROVE  SumFunctionOnSet(F, S) = SumFunctionOnSet(G, S)
<1>1. Integral(G, S)
  BY DEF Integral
<1>2. PICK g : Adds(g, F, S) /\ SumFunctionOnSet(F, S) = g[S]
  BY SumSolves
<1>3. Adds(g, G, S)
  <2>1. ASSUME NEW T \in SUBSET S, T # {} PROVE F[Pick(T)] = G[Pick(T)]
    BY <2>1 DEF Pick
  <2> QED BY <1>2, <2>1 DEF Adds
<1>4. S \in SUBSET S
  OBVIOUS
<1> QED BY <1>1, <1>2, <1>3, <1>4, SumAgrees

\* Changing one element changes the sum by as much.
LEMMA SumChange ==
    ASSUME NEW F, NEW G, NEW S, IsFiniteSet(S), Integral(F, S), Integral(G, S),
           NEW e \in S, \A y \in S \ {e} : F[y] = G[y]
    PROVE  SumFunctionOnSet(G, S) = SumFunctionOnSet(F, S) - F[e] + G[e]
<1>1. IsFiniteSet(S \ {e}) /\ Integral(F, S \ {e})
  BY FS_Subset DEF Integral
<1>2. SumFunctionOnSet(F, S) = F[e] + SumFunctionOnSet(F, S \ {e})
  BY SumRemove
<1>3. SumFunctionOnSet(G, S) = G[e] + SumFunctionOnSet(G, S \ {e})
  BY SumRemove
<1>4. SumFunctionOnSet(F, S \ {e}) = SumFunctionOnSet(G, S \ {e})
  BY <1>1, SumSame
<1>5. F[e] \in Int /\ G[e] \in Int /\ SumFunctionOnSet(F, S \ {e}) \in Int
  BY <1>1, SumInt DEF Integral
<1> QED BY <1>2, <1>3, <1>4, <1>5

\* Sums of smaller terms are smaller.
LEMMA SumMonotone ==
    ASSUME NEW F, NEW G, NEW S, IsFiniteSet(S), Integral(F, S), Integral(G, S),
           \A e \in S : F[e] <= G[e]
    PROVE  SumFunctionOnSet(F, S) <= SumFunctionOnSet(G, S)
<1> DEFINE P == {T \in SUBSET S : SumFunctionOnSet(F, T) <= SumFunctionOnSet(G, T)}
<1>1. {} \in P
  BY SumEmpty
<1>2. ASSUME NEW T \in SUBSET S, T # {} PROVE \E e \in T : T \ {e} \in P => T \in P
  <2>1. PICK e \in T : TRUE
    BY <1>2
  <2>2. IsFiniteSet(T) /\ IsFiniteSet(T \ {e}) /\ Integral(F, T) /\ Integral(G, T)
        /\ Integral(F, T \ {e}) /\ Integral(G, T \ {e})
    BY FS_Subset DEF Integral
  <2>3. SumFunctionOnSet(F, T) = F[e] + SumFunctionOnSet(F, T \ {e})
    BY <2>2, SumRemove
  <2>4. SumFunctionOnSet(G, T) = G[e] + SumFunctionOnSet(G, T \ {e})
    BY <2>2, SumRemove
  <2>5. F[e] \in Int /\ G[e] \in Int /\ F[e] <= G[e]
        /\ SumFunctionOnSet(F, T \ {e}) \in Int /\ SumFunctionOnSet(G, T \ {e}) \in Int
    BY <2>2, SumInt DEF Integral
  <2>6. T \ {e} \in P => T \in P
    BY <2>3, <2>4, <2>5
  <2> QED BY <2>6
<1>3. SUBSET S \subseteq P
  <2> HIDE DEF P
  <2> QED BY <1>1, <1>2, SetInduction
<1> QED BY <1>3

\* The sum of sums.
LEMMA SumPlus ==
    ASSUME NEW F, NEW G, NEW H, NEW S, IsFiniteSet(S), Integral(F, S), Integral(G, S),
           \A e \in S : H[e] = F[e] + G[e]
    PROVE  SumFunctionOnSet(H, S) = SumFunctionOnSet(F, S) + SumFunctionOnSet(G, S)
<1> DEFINE P == {T \in SUBSET S : SumFunctionOnSet(H, T)
                                 = SumFunctionOnSet(F, T) + SumFunctionOnSet(G, T)}
<1>0. Integral(H, S)
  BY DEF Integral
<1>1. {} \in P
  BY SumEmpty
<1>2. ASSUME NEW T \in SUBSET S, T # {} PROVE \E e \in T : T \ {e} \in P => T \in P
  <2>1. PICK e \in T : TRUE
    BY <1>2
  <2>2. /\ IsFiniteSet(T) /\ IsFiniteSet(T \ {e})
        /\ Integral(F, T) /\ Integral(G, T) /\ Integral(H, T)
        /\ Integral(F, T \ {e}) /\ Integral(G, T \ {e}) /\ Integral(H, T \ {e})
    BY <1>0, FS_Subset DEF Integral
  <2>3. SumFunctionOnSet(F, T) = F[e] + SumFunctionOnSet(F, T \ {e})
    BY <2>2, SumRemove
  <2>4. SumFunctionOnSet(G, T) = G[e] + SumFunctionOnSet(G, T \ {e})
    BY <2>2, SumRemove
  <2>5. SumFunctionOnSet(H, T) = H[e] + SumFunctionOnSet(H, T \ {e})
    BY <2>2, SumRemove
  <2>6. F[e] \in Int /\ G[e] \in Int /\ H[e] = F[e] + G[e]
        /\ SumFunctionOnSet(F, T \ {e}) \in Int /\ SumFunctionOnSet(G, T \ {e}) \in Int
    BY <2>2, SumInt DEF Integral
  <2>7. T \ {e} \in P => T \in P
    BY <2>3, <2>4, <2>5, <2>6
  <2> QED BY <2>7
<1>3. SUBSET S \subseteq P
  <2> HIDE DEF P
  <2> QED BY <1>1, <1>2, SetInduction
<1> QED BY <1>3

LEMMA SumTimes ==
    ASSUME NEW F, NEW H, NEW S, IsFiniteSet(S), Integral(F, S), NEW m \in Int,
           \A e \in S : H[e] = m * F[e]
    PROVE  SumFunctionOnSet(H, S) = m * SumFunctionOnSet(F, S)
<1> DEFINE P == {T \in SUBSET S : SumFunctionOnSet(H, T) = m * SumFunctionOnSet(F, T)}
<1>0. Integral(H, S)
  BY DEF Integral
<1>1. {} \in P
  BY SumEmpty
<1>2. ASSUME NEW T \in SUBSET S, T # {} PROVE \E e \in T : T \ {e} \in P => T \in P
  <2>1. PICK e \in T : TRUE
    BY <1>2
  <2>2. /\ IsFiniteSet(T) /\ IsFiniteSet(T \ {e}) /\ Integral(F, T) /\ Integral(H, T)
        /\ Integral(F, T \ {e})
    BY <1>0, FS_Subset DEF Integral
  <2>3. SumFunctionOnSet(F, T) = F[e] + SumFunctionOnSet(F, T \ {e})
    BY <2>2, SumRemove
  <2>4. SumFunctionOnSet(H, T) = H[e] + SumFunctionOnSet(H, T \ {e})
    BY <2>2, SumRemove
  <2>5. F[e] \in Int /\ SumFunctionOnSet(F, T \ {e}) \in Int /\ H[e] = m * F[e]
    BY <2>2, SumInt DEF Integral
  <2>6. \A i, j \in Int : m * (i + j) = m * i + m * j
    OBVIOUS
  <2>7. T \ {e} \in P => T \in P
    BY <2>3, <2>4, <2>5, <2>6
  <2> QED BY <2>7
<1>3. SUBSET S \subseteq P
  <2> HIDE DEF P
  <2> QED BY <1>1, <1>2, SetInduction
<1> QED BY <1>3

LEMMA SumZero ==
    ASSUME NEW F, NEW S, IsFiniteSet(S), \A e \in S : F[e] = 0
    PROVE  SumFunctionOnSet(F, S) = 0
<1>1. Integral(F, S) /\ \A e \in S : F[e] = F[e] + F[e]
  BY DEF Integral
<1>2. SumFunctionOnSet(F, S) = SumFunctionOnSet(F, S) + SumFunctionOnSet(F, S)
  BY <1>1, SumPlus
<1>3. SumFunctionOnSet(F, S) \in Int
  BY <1>1, SumInt
<1>4. \A i \in Int : i = i + i => i = 0
  OBVIOUS
<1> QED BY <1>2, <1>3, <1>4

LEMMA SumNat ==
    ASSUME NEW F, NEW S, IsFiniteSet(S), \A e \in S : F[e] \in Nat
    PROVE  SumFunctionOnSet(F, S) \in Nat
<1> DEFINE P == {T \in SUBSET S : SumFunctionOnSet(F, T) \in Nat}
<1>1. {} \in P
  BY SumEmpty
<1>2. ASSUME NEW T \in SUBSET S, T # {} PROVE \E e \in T : T \ {e} \in P => T \in P
  <2>1. PICK e \in T : TRUE
    BY <1>2
  <2>2. IsFiniteSet(T) /\ Integral(F, T)
    BY FS_Subset DEF Integral
  <2>3. SumFunctionOnSet(F, T) = F[e] + SumFunctionOnSet(F, T \ {e})
    BY <2>2, SumRemove
  <2>4. T \ {e} \in P => T \in P
    BY <2>3
  <2> QED BY <2>4
<1>3. SUBSET S \subseteq P
  <2> HIDE DEF P
  <2> QED BY <1>1, <1>2, SetInduction
<1> QED BY <1>3

\* A sum of naturals is at least each of them.
LEMMA SumCovers ==
    ASSUME NEW F, NEW S, IsFiniteSet(S), \A e \in S : F[e] \in Nat, NEW e \in S
    PROVE  F[e] <= SumFunctionOnSet(F, S) /\ SumFunctionOnSet(F, S) \in Nat
<1>1. Integral(F, S) /\ IsFiniteSet(S \ {e})
  BY FS_Subset DEF Integral
<1>2. SumFunctionOnSet(F, S) = F[e] + SumFunctionOnSet(F, S \ {e})
  BY <1>1, SumRemove
<1>3. SumFunctionOnSet(F, S \ {e}) \in Nat
  BY <1>1, SumNat
<1> QED BY <1>2, <1>3

\* A sum over a part and the rest.
LEMMA SumSplit ==
    ASSUME NEW F, NEW S, IsFiniteSet(S), Integral(F, S), NEW U \in SUBSET S
    PROVE  SumFunctionOnSet(F, S) = SumFunctionOnSet(F, U) + SumFunctionOnSet(F, S \ U)
<1> DEFINE P == {T \in SUBSET S : SumFunctionOnSet(F, S)
                                 = SumFunctionOnSet(F, T) + SumFunctionOnSet(F, S \ T)}
<1>1. {} \in P
  <2>1. S \ {} = S /\ SumFunctionOnSet(F, S) \in Int
    BY SumInt
  <2> QED BY <2>1, SumEmpty
<1>2. ASSUME NEW T \in SUBSET S, T # {} PROVE \E e \in T : T \ {e} \in P => T \in P
  <2>1. PICK e \in T : TRUE
    BY <1>2
  <2> DEFINE W == S \ (T \ {e})
  <2>2. e \in W /\ W \ {e} = S \ T
    OBVIOUS
  <2>3. /\ IsFiniteSet(T) /\ Integral(F, T) /\ IsFiniteSet(W) /\ Integral(F, W)
        /\ IsFiniteSet(T \ {e}) /\ Integral(F, T \ {e}) /\ IsFiniteSet(S \ T) /\ Integral(F, S \ T)
    BY FS_Subset DEF Integral
  <2>4. SumFunctionOnSet(F, T) = F[e] + SumFunctionOnSet(F, T \ {e})
    BY <2>3, SumRemove
  <2>5. SumFunctionOnSet(F, W) = F[e] + SumFunctionOnSet(F, S \ T)
    <3> HIDE DEF W
    <3> QED BY <2>2, <2>3, SumRemove
  <2>6. F[e] \in Int /\ SumFunctionOnSet(F, T \ {e}) \in Int /\ SumFunctionOnSet(F, S \ T) \in Int
    BY <2>3, SumInt DEF Integral
  <2>7. T \ {e} \in P => T \in P
    BY <2>4, <2>5, <2>6
  <2> QED BY <2>7
<1>3. SUBSET S \subseteq P
  <2> HIDE DEF P
  <2> QED BY <1>1, <1>2, SetInduction
<1> QED BY <1>3

LEMMA SumSingle ==
    ASSUME NEW F, NEW S, IsFiniteSet(S), NEW e, NEW v \in Nat,
           \A y \in S : F[y] = IF y = e THEN v ELSE 0
    PROVE  SumFunctionOnSet(F, S) \in 0 .. v
<1>1. CASE e \in S
  <2>1. Integral(F, S) /\ IsFiniteSet(S \ {e}) /\ \A y \in S \ {e} : F[y] = 0
    BY FS_Subset DEF Integral
  <2>2. SumFunctionOnSet(F, S) = F[e] + SumFunctionOnSet(F, S \ {e})
    BY <1>1, <2>1, SumRemove
  <2>3. SumFunctionOnSet(F, S \ {e}) = 0
    BY <2>1, SumZero
  <2> QED BY <1>1, <2>2, <2>3
<1>2. CASE e \notin S
  <2>1. SumFunctionOnSet(F, S) = 0
    BY <1>2, SumZero
  <2> QED BY <2>1
<1> QED BY <1>1, <1>2

\* A matrix as rows F and columns C, and the sums H and K of each.
Matrix(F, C, H, K, S, T) ==
    /\ \A e \in S, d \in T : C[d][e] = F[e][d]
    /\ \A e \in S : Integral(F[e], T) /\ H[e] = SumFunctionOnSet(F[e], T)
    /\ \A d \in T : K[d] = SumFunctionOnSet(C[d], S)

\* The rows of a matrix add up to what its columns add up to.
LEMMA SumExchange ==
    ASSUME NEW S, IsFiniteSet(S), NEW T, IsFiniteSet(T),
           NEW F, NEW C, NEW H, NEW K, Matrix(F, C, H, K, S, T)
    PROVE  SumFunctionOnSet(H, S) = SumFunctionOnSet(K, T)
<1>0. /\ \A e \in S, d \in T : C[d][e] = F[e][d]
      /\ \A e \in S : Integral(F[e], T) /\ H[e] = SumFunctionOnSet(F[e], T)
      /\ \A d \in T : K[d] = SumFunctionOnSet(C[d], S)
  BY DEF Matrix
<1> DEFINE Columns(U) == [d \in T |-> SumFunctionOnSet(C[d], U)]
           P == {U \in SUBSET S : SumFunctionOnSet(H, U) = SumFunctionOnSet(Columns(U), T)}
<1>1. ASSUME NEW U \in SUBSET S, NEW d \in T
      PROVE  /\ IsFiniteSet(U) /\ Integral(C[d], U)
             /\ SumFunctionOnSet(C[d], U) \in Int
             /\ Columns(U)[d] = SumFunctionOnSet(C[d], U)
  <2>1. IsFiniteSet(U)
    BY FS_Subset
  <2>2. Integral(C[d], U)
    BY <1>0 DEF Integral
  <2>3. SumFunctionOnSet(C[d], U) \in Int
    BY <2>1, <2>2, SumInt
  <2> QED BY <2>1, <2>2, <2>3
<1>2. Integral(H, S)
  BY <1>0, SumInt DEF Integral
<1>3. {} \in P
  <2>1. \A d \in T : Columns({})[d] = 0
    BY SumEmpty
  <2> HIDE DEF Columns
  <2>2. SumFunctionOnSet(Columns({}), T) = 0
    BY <2>1, SumZero
  <2> QED BY <2>2, SumEmpty
<1>4. ASSUME NEW U \in SUBSET S, U # {} PROVE \E e \in U : U \ {e} \in P => U \in P
  <2>1. PICK e \in U : TRUE
    BY <1>4
  <2> DEFINE less == U \ {e}
             new == Columns(U)
             old == Columns(less)
  <2>2. less \in SUBSET S /\ IsFiniteSet(U) /\ IsFiniteSet(less) /\ Integral(H, U)
    BY <1>2, FS_Subset DEF Integral
  <2>3. SumFunctionOnSet(H, U) = H[e] + SumFunctionOnSet(H, less)
    BY <2>2, SumRemove
  <2>4. ASSUME NEW d \in T PROVE new[d] = F[e][d] + old[d] /\ old[d] \in Int
    <3>1. C[d][e] = F[e][d]
      BY <1>0
    <3>2. Integral(C[d], U)
      BY <1>1
    <3>3. new[d] = SumFunctionOnSet(C[d], U) /\ old[d] = SumFunctionOnSet(C[d], less)
          /\ old[d] \in Int
      BY <1>1, <2>2
    <3> HIDE DEF new, old
    <3>4. SumFunctionOnSet(C[d], U) = C[d][e] + SumFunctionOnSet(C[d], U \ {e})
      BY <2>2, <3>2, SumRemove
    <3> QED BY <3>1, <3>3, <3>4 DEF less
  <2> HIDE DEF new, old, less
  <2>5. Integral(old, T) /\ Integral(F[e], T)
    BY <1>0, <2>4 DEF Integral
  <2>6. SumFunctionOnSet(new, T) = SumFunctionOnSet(F[e], T) + SumFunctionOnSet(old, T)
    BY <2>4, <2>5, SumPlus
  <2>7. H[e] = SumFunctionOnSet(F[e], T)
    BY <1>0
  <2>8. less \in P => U \in P
    BY <2>3, <2>6, <2>7 DEF new, old
  <2> QED BY <2>8 DEF less
<1>5. SUBSET S \subseteq P
  <2> HIDE DEF P
  <2> QED BY <1>3, <1>4, SetInduction
<1>6. SumFunctionOnSet(H, S) = SumFunctionOnSet(Columns(S), T)
  BY <1>5
<1>7. \A d \in T : Columns(S)[d] = K[d] /\ K[d] \in Int
  BY <1>0, <1>1
<1> HIDE DEF Columns
<1>8. Integral(Columns(S), T)
  BY <1>7 DEF Integral
<1>9. SumFunctionOnSet(Columns(S), T) = SumFunctionOnSet(K, T)
  BY <1>7, <1>8, SumSame
<1> QED BY <1>6, <1>9

-----------------------------------------------------------------------------
(* Sequences.  FoldLeft takes the last index off first.                     *)

LEMMA MaxOf ==
    ASSUME NEW n \in Nat, NEW T \in SUBSET (0 .. n), T # {}
    PROVE  Max(T) \in T /\ \A y \in T : y <= Max(T)
<1> DEFINE U == {n - y : y \in T}
<1>1. U \in SUBSET Nat /\ U # {}
  <2>1. \A y \in T : n - y \in Nat
    OBVIOUS
  <2>2. PICK y \in T : TRUE
    OBVIOUS
  <2>3. n - y \in U
    OBVIOUS
  <2>4. U \in SUBSET Nat
    BY <2>1
  <2> QED BY <2>3, <2>4
<1>2. PICK u \in U : \A v \in U : u <= v
  BY <1>1, LeastNat
<1>3. PICK z \in T : u = n - z
  BY <1>2
<1>4. \A y \in T : y <= z
  BY <1>2, <1>3
<1>5. \E y \in T : \A v \in T : y >= v
  BY <1>3, <1>4
<1>6. Max(T) \in T /\ \A y \in T : Max(T) >= y
  BY <1>5 DEF Max
<1> QED BY <1>6

LEMMA Initials ==
    ASSUME NEW k \in Nat
    PROVE  Max(1 .. k + 1) = k + 1 /\ (1 .. k + 1) \ {k + 1} = 1 .. k /\ 1 .. k + 1 # {}
<1>1. 1 .. k + 1 \in SUBSET (0 .. k + 1) /\ k + 1 \in 1 .. k + 1 /\ k + 1 \in Nat
  OBVIOUS
<1>2. Max(1 .. k + 1) \in 1 .. k + 1 /\ \A y \in 1 .. k + 1 : y <= Max(1 .. k + 1)
  BY <1>1, MaxOf
<1>3. Max(1 .. k + 1) = k + 1
  BY <1>1, <1>2
<1>4. (1 .. k + 1) \ {k + 1} = 1 .. k /\ 1 .. k + 1 # {}
  OBVIOUS
<1> QED BY <1>3, <1>4

SolvesLeft(g, base, D, n) ==
    \A s \in SUBSET (1 .. n) : g[s] = IF s = {} THEN base ELSE D[Max(s)][g[s \ {Max(s)}]]

LEMMA FoldLeftExists ==
    ASSUME NEW n \in Nat, NEW V, NEW base \in V, NEW D \in [1 .. n -> [V -> V]]
    PROVE  \E g \in [SUBSET (1 .. n) -> V] : SolvesLeft(g, base, D, n)
<1> DEFINE S == 1 .. n
           C == [s \in SUBSET S |-> Max(s)]
<1>1. IsFiniteSet(S)
  BY FS_Interval
<1>2. Chooses(C, S)
  <2>1. ASSUME NEW s \in SUBSET S, s # {} PROVE Max(s) \in s
    <3>1. s \in SUBSET (0 .. n)
      OBVIOUS
    <3> QED BY <2>1, <3>1, MaxOf
  <2> QED BY <2>1 DEF Chooses
<1>3. D \in [S -> [V -> V]]
  OBVIOUS
<1> HIDE DEF S, C
<1>4. \E g \in [SUBSET S -> V] : Solves(g, base, C, D, S)
  BY <1>1, <1>2, <1>3, FoldExists
<1>5. PICK g \in [SUBSET S -> V] : Solves(g, base, C, D, S)
  BY <1>4
<1>6. ASSUME NEW s \in SUBSET S PROVE g[s] = IF s = {} THEN base ELSE D[Max(s)][g[s \ {Max(s)}]]
  BY <1>5 DEF Solves, C
<1> QED BY <1>6 DEF S, SolvesLeft

-----------------------------------------------------------------------------
(* How often an element occurs in a sequence.                               *)

Occurs(s, x) == Cardinality({i \in DOMAIN s : s[i] = x})
OccursUpTo(s, k, x) == Cardinality({i \in 1 .. k : s[i] = x})

LEMMA OccursType ==
    ASSUME NEW E, NEW s \in Seq(E), NEW x
    PROVE  Occurs(s, x) \in Nat /\ IsFiniteSet({i \in DOMAIN s : s[i] = x})
<1>1. DOMAIN s = 1 .. Len(s) /\ Len(s) \in Nat
  OBVIOUS
<1>2. IsFiniteSet(1 .. Len(s))
  BY <1>1, FS_Interval
<1>3. IsFiniteSet({i \in DOMAIN s : s[i] = x})
  BY <1>1, <1>2, FS_Subset
<1> QED BY <1>3, FS_CardinalityType DEF Occurs

LEMMA OccursStep ==
    ASSUME NEW s, NEW k \in Nat, NEW x
    PROVE  /\ OccursUpTo(s, k, x) \in Nat /\ OccursUpTo(s, 0, x) = 0
           /\ OccursUpTo(s, k + 1, x) = OccursUpTo(s, k, x) + (IF s[k + 1] = x THEN 1 ELSE 0)
<1> DEFINE A == {i \in 1 .. k : s[i] = x}
           B == {i \in 1 .. k + 1 : s[i] = x}
<1>1. IsFiniteSet(A) /\ Cardinality(A) \in Nat
  <2>1. IsFiniteSet(1 .. k) /\ A \in SUBSET (1 .. k)
    BY FS_Interval
  <2> HIDE DEF A
  <2> QED BY <2>1, FS_Subset, FS_CardinalityType
<1>2. {i \in 1 .. 0 : s[i] = x} = {}
  OBVIOUS
<1>3. CASE s[k + 1] = x
  <2>1. B = A \cup {k + 1} /\ k + 1 \notin A
    BY <1>3
  <2> HIDE DEF A, B
  <2>2. Cardinality(B) = Cardinality(A) + 1
    BY <1>1, <2>1, FS_AddElement
  <2> QED BY <1>1, <1>2, <1>3, <2>2, FS_EmptySet DEF OccursUpTo, A, B
<1>4. CASE s[k + 1] # x
  <2>1. B = A
    BY <1>4
  <2> QED BY <1>1, <1>2, <1>4, <2>1, FS_EmptySet DEF OccursUpTo
<1> QED BY <1>3, <1>4

LEMMA OccursMonotone ==
    ASSUME NEW s, NEW n \in Nat, NEW k \in 0 .. n, NEW x
    PROVE  OccursUpTo(s, k, x) <= OccursUpTo(s, n, x)
<1> DEFINE A == {i \in 1 .. k : s[i] = x}
           B == {i \in 1 .. n : s[i] = x}
<1>1. IsFiniteSet(1 .. n) /\ B \in SUBSET (1 .. n) /\ A \in SUBSET B
  BY FS_Interval
<1>2. OccursUpTo(s, k, x) = Cardinality(A) /\ OccursUpTo(s, n, x) = Cardinality(B)
  BY DEF OccursUpTo
<1> HIDE DEF A, B
<1>3. IsFiniteSet(B)
  BY <1>1, FS_Subset
<1> QED BY <1>1, <1>2, <1>3, FS_Subset

LEMMA OccursConcat ==
    ASSUME NEW E, NEW s \in Seq(E), NEW t \in Seq(E), NEW x
    PROVE  Occurs(s \o t, x) = Occurs(s, x) + Occurs(t, x)
<1> DEFINE u == s \o t
           m == Len(s)
           n == Len(t)
<1>1. /\ u \in Seq(E) /\ Len(u) = m + n
      /\ \A i \in 1 .. m + n : u[i] = IF i <= m THEN s[i] ELSE t[i - m]
  BY ConcatProperties
<1>2. DOMAIN s = 1 .. m /\ DOMAIN t = 1 .. n /\ m \in Nat /\ n \in Nat
  OBVIOUS
<1> HIDE DEF u, m, n
<1>3. DOMAIN u = 1 .. m + n
  BY <1>1
<1> DEFINE A == {i \in 1 .. m : s[i] = x}
           B == {i \in 1 .. n : t[i] = x}
           H == {i \in m + 1 .. m + n : u[i] = x}
           f == [i \in B |-> m + i]
<1>4. IsFiniteSet(A) /\ IsFiniteSet(B) /\ Cardinality(A) = Occurs(s, x) /\ Cardinality(B) = Occurs(t, x)
  BY <1>2, OccursType DEF Occurs
<1>5. f \in Bijection(B, H)
  <2>1. ASSUME NEW i \in B PROVE f[i] \in H
    <3>1. m + i \in m + 1 .. m + n /\ m + i \in 1 .. m + n /\ ~(m + i <= m) /\ (m + i) - m = i
      BY <1>2
    <3>2. u[m + i] = t[i]
      BY <1>1, <3>1
    <3> QED BY <3>1, <3>2
  <2>2. ASSUME NEW j \in H PROVE \E i \in B : f[i] = j
    <3>1. j - m \in 1 .. n /\ j \in 1 .. m + n /\ ~(j <= m) /\ m + (j - m) = j
      BY <1>2
    <3>2. t[j - m] = x
      BY <1>1, <3>1
    <3>3. j - m \in B
      BY <3>1, <3>2
    <3> QED BY <3>1, <3>3
  <2>3. \A i, j \in B : f[i] = f[j] => i = j
    BY <1>2
  <2>4. f \in [B -> H]
    BY <2>1
  <2> HIDE DEF f, B, H
  <2> QED BY <2>2, <2>3, <2>4 DEF Bijection, Injection, Surjection, IsInjective
<1> HIDE DEF f
<1>6. IsFiniteSet(H) /\ Cardinality(H) = Cardinality(B)
  <2> HIDE DEF B, H
  <2>1. ExistsBijection(B, H)
    BY <1>5 DEF ExistsBijection
  <2> QED BY <1>4, <2>1, FS_Bijection
<1>7. {i \in DOMAIN u : u[i] = x} = A \cup H /\ A \cap H = {}
  <2>1. ASSUME NEW i \in 1 .. m PROVE i \in 1 .. m + n /\ u[i] = s[i]
    BY <1>1, <1>2
  <2> QED BY <1>1, <1>2, <1>3, <2>1
<1> HIDE DEF A, B, H
<1>8. Cardinality(A \cup H) = Cardinality(A) + Cardinality(H)
  <2>1. Cardinality(A \cup H) = Cardinality(A) + Cardinality(H) - Cardinality(A \cap H)
    BY <1>4, <1>6, FS_Union
  <2>2. Cardinality(A) \in Nat /\ Cardinality(H) \in Nat
    BY <1>4, <1>6, FS_CardinalityType
  <2>3. Cardinality(A \cap H) = 0
    BY <1>7, FS_EmptySet
  <2> QED BY <2>1, <2>2, <2>3
<1> QED BY <1>4, <1>6, <1>7, <1>8 DEF Occurs, u

LEMMA OccursOne == ASSUME NEW y, NEW x PROVE Occurs(<<y>>, x) = IF x = y THEN 1 ELSE 0
<1>1. DOMAIN <<y>> = {1} /\ <<y>>[1] = y
  OBVIOUS
<1>2. CASE x = y
  <2>1. {i \in DOMAIN <<y>> : <<y>>[i] = x} = {1}
    BY <1>1, <1>2
  <2> QED BY <1>2, <2>1, FS_Singleton DEF Occurs
<1>3. CASE x # y
  <2>1. {i \in DOMAIN <<y>> : <<y>>[i] = x} = {}
    BY <1>1, <1>3
  <2> QED BY <1>3, <2>1, FS_EmptySet DEF Occurs
<1> QED BY <1>2, <1>3

LEMMA OccursAppend ==
    ASSUME NEW E, NEW s \in Seq(E), NEW y \in E, NEW x
    PROVE  Occurs(Append(s, y), x) = Occurs(s, x) + (IF x = y THEN 1 ELSE 0)
<1>1. Append(s, y) = s \o <<y>> /\ <<y>> \in Seq(E)
  BY AppendIsConcat
<1>2. Occurs(s \o <<y>>, x) = Occurs(s, x) + Occurs(<<y>>, x)
  BY <1>1, OccursConcat
<1>3. Occurs(<<y>>, x) = IF x = y THEN 1 ELSE 0
  BY OccursOne
<1> QED BY <1>1, <1>2, <1>3

\* RemoveFirst takes out one occurrence, when there is one.
LEMMA OccursRemoveFirst ==
    ASSUME NEW E, NEW s \in Seq(E), NEW y
    PROVE  /\ RemoveFirst(s, y) \in Seq(E)
           /\ \A x : Occurs(RemoveFirst(s, y), x) =
                        IF x = y /\ Occurs(s, y) > 0 THEN Occurs(s, x) - 1 ELSE Occurs(s, x)
<1>1. DOMAIN s = 1 .. Len(s) /\ Len(s) \in Nat /\ \A i \in 1 .. Len(s) : s[i] \in E
  OBVIOUS
<1>2. CASE ~\E i \in 1 .. Len(s) : s[i] = y
  <2>1. RemoveFirst(s, y) = s
    BY <1>2 DEF RemoveFirst
  <2>2. {i \in DOMAIN s : s[i] = y} = {}
    BY <1>1, <1>2
  <2>3. Occurs(s, y) = 0
    BY <2>2, FS_EmptySet DEF Occurs
  <2> QED BY <2>1, <2>3
<1>3. CASE \E i \in 1 .. Len(s) : s[i] = y
  <2> DEFINE I == {i \in 1 .. Len(s) : s[i] = y}
             k == SelectInSeq(s, LAMBDA v : v = y)
             l == SubSeq(s, 1, k - 1)
             r == SubSeq(s, k + 1, Len(s))
  <2>1. I # {} /\ I \in SUBSET Nat /\ k = Min(I)
    BY <1>1, <1>3 DEF SelectInSeq
  <2>2. k \in 1 .. Len(s) /\ s[k] = y
    <3>1. \E i \in I : \A j \in I : i <= j
      <4> HIDE DEF I
      <4> QED BY <2>1, LeastNat
    <3>2. Min(I) \in I
      BY <3>1 DEF Min
    <3> QED BY <2>1, <3>2
  <2>3. RemoveFirst(s, y) = l \o r
    BY <1>3 DEF RemoveFirst, RemoveAt
  <2> HIDE DEF k
  <2>4. /\ l \in Seq(E) /\ Len(l) = k - 1 /\ \A i \in 1 .. k - 1 : l[i] = s[i]
    <3>1. 1 \in Int /\ k - 1 \in Int /\ \A i \in 1 .. k - 1 : s[i] \in E
      BY <1>1, <2>2
    <3>2. /\ l \in Seq(E) /\ Len(l) = (IF 1 <= k - 1 THEN k - 1 - 1 + 1 ELSE 0)
          /\ \A i \in 1 .. k - 1 - 1 + 1 : l[i] = s[1 + i - 1]
      BY <3>1, SubSeqProperties
    <3> HIDE DEF l
    <3> QED BY <2>2, <3>2
  <2>5. /\ r \in Seq(E) /\ Len(r) = Len(s) - k /\ \A i \in 1 .. Len(s) - k : r[i] = s[k + i]
    <3>1. k + 1 \in Int /\ Len(s) \in Int /\ \A i \in k + 1 .. Len(s) : s[i] \in E
      BY <1>1, <2>2
    <3>2. /\ r \in Seq(E) /\ Len(r) = (IF k + 1 <= Len(s) THEN Len(s) - (k + 1) + 1 ELSE 0)
          /\ \A i \in 1 .. Len(s) - (k + 1) + 1 : r[i] = s[(k + 1) + i - 1]
      BY <3>1, SubSeqProperties
    <3> HIDE DEF r
    <3> DEFINE a == Len(s)
               c == Len(r)
    <3>3. a \in Nat /\ k \in 1 .. a /\ c = (IF k + 1 <= a THEN a - (k + 1) + 1 ELSE 0)
      BY <1>1, <2>2, <3>2
    <3>4. c = a - k
      <4> HIDE DEF a, c
      <4> QED BY <3>3
    <3>5. ASSUME NEW i \in 1 .. Len(s) - k PROVE r[i] = s[k + i]
      <4>1. i \in 1 .. Len(s) - (k + 1) + 1 /\ (k + 1) + i - 1 = k + i
        BY <1>1, <2>2
      <4> QED BY <3>2, <4>1
    <3> QED BY <3>2, <3>4, <3>5
  <2> HIDE DEF l, r
  <2> DEFINE w == l \o <<y>>
  <2>6. <<y>> \in Seq(E) /\ Len(<<y>>) = 1 /\ <<y>>[1] = y
    BY <1>1, <2>2
  <2>7. /\ w \in Seq(E) /\ Len(w) = Len(l) + Len(<<y>>)
        /\ \A i \in 1 .. Len(l) + Len(<<y>>) : w[i] = IF i <= Len(l) THEN l[i] ELSE <<y>>[i - Len(l)]
    BY <2>4, <2>6, ConcatProperties
  <2>8. \A x : Occurs(w, x) = Occurs(l, x) + Occurs(<<y>>, x)
    BY <2>4, <2>6, OccursConcat
  <2> HIDE DEF w
  <2>9. Len(w) = k /\ \A i \in 1 .. k : w[i] = s[i]
    BY <2>2, <2>4, <2>6, <2>7
  <2>10. s = w \o r
    <3> DEFINE z == w \o r
    <3>1. /\ z \in Seq(E) /\ Len(z) = Len(w) + Len(r)
          /\ \A i \in 1 .. Len(w) + Len(r) : z[i] = IF i <= Len(w) THEN w[i] ELSE r[i - Len(w)]
      <4>1. w \in Seq(E) /\ r \in Seq(E)
        BY <2>5, <2>7
      <4> QED BY <4>1, ConcatProperties
    <3> HIDE DEF z
    <3>2. Len(z) = Len(s)
      BY <1>1, <2>2, <2>5, <2>9, <3>1
    <3>3. ASSUME NEW i \in 1 .. Len(s) PROVE z[i] = s[i]
      <4>1. Len(w) + Len(r) = Len(s) /\ Len(w) = k
        BY <1>1, <2>2, <2>5, <2>9
      <4>2. CASE i <= k
        BY <2>2, <2>9, <3>1, <4>1, <4>2
      <4>3. CASE i > k
        <5>1. i - k \in 1 .. Len(s) - k /\ k + (i - k) = i /\ ~(i <= k)
          BY <1>1, <2>2, <4>3
        <5>2. z[i] = r[i - k]
          BY <3>1, <4>1, <5>1
        <5> QED BY <2>5, <5>1, <5>2
      <4> QED BY <1>1, <2>2, <4>2, <4>3
    <3>4. z = s
      BY <3>1, <3>2, <3>3, SeqEqual
    <3> QED BY <3>4 DEF z
  <2>11. ASSUME NEW x
         PROVE  Occurs(RemoveFirst(s, y), x) = Occurs(s, x) - (IF x = y THEN 1 ELSE 0)
    <3>1. Occurs(s, x) = Occurs(w, x) + Occurs(r, x)
      BY <2>5, <2>7, <2>10, OccursConcat
    <3>2. Occurs(l \o r, x) = Occurs(l, x) + Occurs(r, x)
      BY <2>4, <2>5, OccursConcat
    <3>3. Occurs(<<y>>, x) = IF x = y THEN 1 ELSE 0
      BY OccursOne
    <3>4. Occurs(l, x) \in Nat /\ Occurs(r, x) \in Nat
      BY <2>4, <2>5, OccursType
    <3> QED BY <2>3, <2>8, <3>1, <3>2, <3>3, <3>4
  <2>12. Occurs(s, y) > 0
    <3>1. k \in {i \in DOMAIN s : s[i] = y} /\ IsFiniteSet({i \in DOMAIN s : s[i] = y})
      BY <1>1, <2>2, OccursType
    <3>2. Occurs(s, y) # 0 /\ Occurs(s, y) \in Nat
      BY <3>1, FS_EmptySet, OccursType DEF Occurs
    <3> QED BY <3>2
  <2>13. l \o r \in Seq(E)
    BY <2>4, <2>5, ConcatProperties
  <2> DEFINE q == RemoveFirst(s, y)
  <2>14. q \in Seq(E)
    BY <2>3, <2>13
  <2>15. ASSUME NEW x
         PROVE  Occurs(q, x) = IF x = y /\ Occurs(s, y) > 0 THEN Occurs(s, x) - 1 ELSE Occurs(s, x)
    <3>1. Occurs(q, x) = Occurs(s, x) - (IF x = y THEN 1 ELSE 0)
      BY <2>11
    <3>2. Occurs(s, x) \in Nat
      BY OccursType
    <3> HIDE DEF q
    <3> QED BY <2>12, <3>1, <3>2
  <2> HIDE DEF q
  <2>16. q \in Seq(E) /\ \A x : Occurs(q, x) =
           IF x = y /\ Occurs(s, y) > 0 THEN Occurs(s, x) - 1 ELSE Occurs(s, x)
    BY <2>14, <2>15
  <2> QED BY <2>16 DEF q
<1> QED BY <1>2, <1>3
=============================================================================
