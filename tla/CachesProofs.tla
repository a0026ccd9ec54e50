---------------------------- MODULE CachesProofs ----------------------------
(***************************************************************************)
(* Proofs about the caches handlePoll asks: the intent cache, for every    *)
(* set of connections and destinations and every generation size; and the  *)
(* enricher, which says which container a flow belongs to, for every set   *)
(* of PIDs and containers, every TTL and every interleaving of /proc reads *)
(* with exits and PID reuse.                                               *)
(***************************************************************************)
EXTENDS MCCaches, FiniteSetTheorems, TLAPS

-----------------------------------------------------------------------------
(* The intent cache.                                                        *)

(***************************************************************************)
(* The entries of a generation form a finite set; writing a destination    *)
(* adds the key to it and writing Miss removes it (map assignment and      *)
(* delete in cache.go).                                                    *)
(***************************************************************************)
LEMMA EntriesFacts ==
    ASSUME NEW g \in Gen, NEW k \in IKey, NEW d \in Dst
    PROVE  /\ IsFiniteSet(Entries(g))
           /\ Cardinality(Entries(g)) \in Nat
           /\ Entries([g EXCEPT ![k] = d]) = Entries(g) \cup {k}
           /\ Entries([g EXCEPT ![k] = Miss]) = Entries(g) \ {k}
<1>1. IsFiniteSet(Entries(g))
  BY IntentCacheAssumption, FS_Subset DEF Entries
<1>2. Cardinality(Entries(g)) \in Nat
  BY <1>1, FS_CardinalityType
<1>3. Entries([g EXCEPT ![k] = d]) = Entries(g) \cup {k}
  BY IntentCacheAssumption DEF Entries, Gen
<1>4. Entries([g EXCEPT ![k] = Miss]) = Entries(g) \ {k}
  BY DEF Entries, Gen
<1> QED BY <1>1, <1>2, <1>3, <1>4

(***************************************************************************)
(* The number of entries after such a write.                               *)
(***************************************************************************)
LEMMA WriteSizes ==
    ASSUME NEW g \in Gen, NEW k \in IKey, NEW d \in Dst
    PROVE  /\ Cardinality(Entries([g EXCEPT ![k] = d])) <= Cardinality(Entries(g)) + 1
           /\ Cardinality(Entries([g EXCEPT ![k] = Miss])) <= Cardinality(Entries(g))
           /\ Cardinality(Entries([g EXCEPT ![k] = d])) \in Nat
           /\ Cardinality(Entries([g EXCEPT ![k] = Miss])) \in Nat
<1>1. /\ IsFiniteSet(Entries(g)) /\ Cardinality(Entries(g)) \in Nat
      /\ Entries([g EXCEPT ![k] = d]) = Entries(g) \cup {k}
      /\ Entries([g EXCEPT ![k] = Miss]) = Entries(g) \ {k}
  BY EntriesFacts
<1>2. /\ Cardinality(Entries(g) \cup {k}) \in Nat
      /\ Cardinality(Entries(g) \cup {k}) <= Cardinality(Entries(g)) + 1
  <2>1. Cardinality(Entries(g) \cup {k})
          = IF k \in Entries(g) THEN Cardinality(Entries(g))
                                ELSE Cardinality(Entries(g)) + 1
    BY <1>1, FS_AddElement
  <2> QED BY <1>1, <2>1
<1>3. Cardinality(Entries(g) \ {k}) <= Cardinality(Entries(g))
  BY <1>1, FS_Subset
<1>4. Cardinality(Entries(g) \ {k}) \in Nat
  BY <1>1, FS_RemoveElement, FS_CardinalityType
<1> QED BY <1>1, <1>2, <1>3, <1>4

(***************************************************************************)
(* The empty generation Put starts after a demotion.                       *)
(***************************************************************************)
LEMMA EmptyFacts == Empty \in Gen /\ Entries(Empty) = {} /\ Cardinality(Entries(Empty)) = 0
<1>1. Empty \in Gen /\ Entries(Empty) = {}
  BY DEF Empty, Gen, Entries
<1> QED BY <1>1, FS_EmptySet

-----------------------------------------------------------------------------
(* Bounded is inductive together with the types. *)

CacheInv == CacheTypeOK /\ Bounded

(***************************************************************************)
(* Put keeps both generations within Max entries and disjoint.             *)
(***************************************************************************)
LEMMA PutKeepsInv ==
    ASSUME CacheInv, NEW k \in IKey, NEW d \in Dst, Put(k, d)
    PROVE  CacheInv'
<1> USE IntentCacheAssumption
<1> DEFINE g == IF Full THEN Empty ELSE cur
           h == IF Full THEN cur ELSE prev
<1>1. g \in Gen /\ h \in Gen
  BY EmptyFacts DEF CacheInv, CacheTypeOK
<1>2. cur' = [g EXCEPT ![k] = d] /\ prev' = [h EXCEPT ![k] = Miss]
  BY DEF Put
<1>3. CacheTypeOK'
  BY <1>1, <1>2 DEF CacheTypeOK, Gen
<1>4. Cardinality(Entries(g)) \in Nat /\ Cardinality(Entries(g)) + 1 <= Max
  <2>1. CASE Full
    BY <2>1, EmptyFacts
  <2>2. CASE ~Full
    <3>1. Cardinality(Entries(cur)) \in Nat
      BY EntriesFacts DEF CacheInv, CacheTypeOK
    <3> QED BY <2>2, <3>1 DEF Full
  <2> QED BY <2>1, <2>2
<1>5. Cardinality(Entries(cur')) <= Max
  <2>1. /\ Cardinality(Entries([g EXCEPT ![k] = d])) <= Cardinality(Entries(g)) + 1
        /\ Cardinality(Entries([g EXCEPT ![k] = d])) \in Nat
    BY <1>1, WriteSizes
  <2> HIDE DEF g
  <2> QED BY <1>2, <1>4, <2>1
<1>6. Cardinality(Entries(prev')) <= Max
  <2>1. Cardinality(Entries(h)) \in Nat /\ Cardinality(Entries(h)) <= Max
    BY <1>1, EntriesFacts DEF CacheInv, CacheTypeOK, Bounded
  <2>2. /\ Cardinality(Entries([h EXCEPT ![k] = Miss])) <= Cardinality(Entries(h))
        /\ Cardinality(Entries([h EXCEPT ![k] = Miss])) \in Nat
    BY <1>1, WriteSizes
  <2> HIDE DEF h
  <2> QED BY <1>2, <2>1, <2>2
<1>7. Entries(cur') \cap Entries(prev') = {}
  <2>1. Entries(g) \cap Entries(h) = {}
    BY EmptyFacts DEF CacheInv, Bounded
  <2>2. Entries(cur') = Entries(g) \cup {k} /\ Entries(prev') = Entries(h) \ {k}
    BY <1>1, <1>2, EntriesFacts
  <2> QED BY <2>1, <2>2
<1> QED BY <1>3, <1>5, <1>6, <1>7 DEF CacheInv, Bounded

(***************************************************************************)
(* Delete keeps them too.                                                  *)
(***************************************************************************)
LEMMA DeleteKeepsInv ==
    ASSUME CacheInv, NEW k \in IKey, Delete(k)
    PROVE  CacheInv'
<1> USE IntentCacheAssumption
<1>1. CacheTypeOK'
  BY DEF CacheInv, CacheTypeOK, Delete, Gen
<1>2. cur \in Gen /\ prev \in Gen
  BY DEF CacheInv, CacheTypeOK
<1>3. /\ Entries(cur') = Entries(cur) \ {k}
      /\ Entries(prev') = Entries(prev) \ {k}
  BY <1>2 DEF Delete, Entries, Gen
<1>4. /\ IsFiniteSet(Entries(cur)) /\ IsFiniteSet(Entries(prev))
  BY <1>2, FS_Subset DEF Entries
<1>5. /\ Cardinality(Entries(cur) \ {k}) <= Cardinality(Entries(cur))
      /\ Cardinality(Entries(prev) \ {k}) <= Cardinality(Entries(prev))
  BY <1>4, FS_Subset
<1>6. /\ Cardinality(Entries(cur)) \in Nat /\ Cardinality(Entries(prev)) \in Nat
      /\ Cardinality(Entries(cur) \ {k}) \in Nat
      /\ Cardinality(Entries(prev) \ {k}) \in Nat
  BY <1>4, FS_CardinalityType, FS_RemoveElement
<1>7. Bounded'
  BY <1>3, <1>5, <1>6 DEF CacheInv, Bounded
<1> QED BY <1>1, <1>7 DEF CacheInv

(***************************************************************************)
(* The cache never holds more than Max connections per generation nor one  *)
(* connection twice, whatever its callers do.                              *)
(***************************************************************************)
THEOREM CacheBounded == CacheSpec => []Bounded
<1>1. CacheInit => CacheInv
  BY EmptyFacts, IntentCacheAssumption DEF CacheInit, CacheInv, CacheTypeOK, Bounded
<1>2. CacheInv /\ [CacheNext]_cacheVars => CacheInv'
  <2> SUFFICES ASSUME CacheInv, [CacheNext]_cacheVars PROVE CacheInv'
    OBVIOUS
  <2>1. CASE \E k \in IKey : Delete(k)
    BY <2>1, DeleteKeepsInv
  <2>2. CASE \E k \in IKey, d \in Dst : Put(k, d)
    BY <2>2, PutKeepsInv
  <2>3. CASE UNCHANGED cacheVars
    BY <2>3 DEF cacheVars, CacheInv, CacheTypeOK, Bounded, Entries
  <2> QED BY <2>1, <2>2, <2>3 DEF CacheNext
<1>3. CacheInv => Bounded
  BY DEF CacheInv
<1> QED BY <1>1, <1>2, <1>3, PTL DEF CacheSpec

-----------------------------------------------------------------------------
(* The cache implements the lossy map IntentStore. *)

(***************************************************************************)
(* A Put is a Record step of the store: k answers d, and every other       *)
(* connection answers as before or not at all.                             *)
(***************************************************************************)
LEMMA PutIsRecord ==
    ASSUME CacheInv, NEW k \in IKey, NEW d \in Dst, Put(k, d)
    PROVE  Store!Record(k, d)
<1> USE IntentCacheAssumption
<1>1. cur \in Gen /\ prev \in Gen /\ Empty \in Gen
  BY EmptyFacts DEF CacheInv, CacheTypeOK
<1>2. CacheTypeOK'
  BY PutKeepsInv DEF CacheInv
<1>3. Get(k)' = d
  BY <1>1 DEF Put, Get, Gen
<1>4. ASSUME NEW j \in IKey \ {k} PROVE Get(j)' \in {Get(j), Miss}
  <2>1. CASE Full
    <3>1. cur'[j] = Miss /\ prev'[j] = cur[j]
      BY <1>1, <1>4, <2>1 DEF Put, Gen, Empty
    <3> QED BY <3>1 DEF Get
  <2>2. CASE ~Full
    <3>1. cur'[j] = cur[j] /\ prev'[j] = prev[j]
      BY <1>1, <1>4, <2>2 DEF Put, Gen
    <3> QED BY <3>1 DEF Get
  <2> QED BY <2>1, <2>2
<1>5. \A j \in IKey : Get(j)' \in Dst \cup {Miss}
  BY <1>2 DEF CacheTypeOK, Gen, Get
<1>6. [j \in IKey |-> Get(j)]' \in [IKey -> Dst \cup {Miss}]
  BY <1>5
<1> QED BY <1>3, <1>4, <1>6 DEF Store!Record

(***************************************************************************)
(* A Delete is a Forget step: it removes k and nothing else.               *)
(***************************************************************************)
LEMMA DeleteIsForget ==
    ASSUME CacheInv, NEW k \in IKey, Delete(k)
    PROVE  Store!Forget(k)
<1>1. cur \in Gen /\ prev \in Gen
  BY DEF CacheInv, CacheTypeOK
<1>2. \A j \in IKey : Get(j)' = IF j = k THEN Miss ELSE Get(j)
  BY <1>1 DEF Delete, Gen, Get
<1> QED BY <1>2 DEF Store!Forget

(***************************************************************************)
(* Every behaviour of the two-generation cache is a behaviour of the lossy *)
(* map: no stale and no resurrected destination is ever answered.          *)
(***************************************************************************)
THEOREM CacheImplementsStore == CacheSpec => ImplementsStore
<1>1. CacheInit => CacheInv
  BY EmptyFacts, IntentCacheAssumption DEF CacheInit, CacheInv, CacheTypeOK, Bounded
<1>2. CacheInv /\ [CacheNext]_cacheVars => CacheInv'
  <2> SUFFICES ASSUME CacheInv, [CacheNext]_cacheVars PROVE CacheInv'
    OBVIOUS
  <2>1. CASE \E k \in IKey : Delete(k)
    BY <2>1, DeleteKeepsInv
  <2>2. CASE \E k \in IKey, d \in Dst : Put(k, d)
    BY <2>2, PutKeepsInv
  <2>3. CASE UNCHANGED cacheVars
    BY <2>3 DEF cacheVars, CacheInv, CacheTypeOK, Bounded, Entries
  <2> QED BY <2>1, <2>2, <2>3 DEF CacheNext
<1>3. CacheInit => Store!Init
  BY DEF CacheInit, Store!Init, Empty, Get
<1>4. CacheInv /\ [CacheNext]_cacheVars => [Store!Next]_([k \in IKey |-> Get(k)])
  <2> SUFFICES ASSUME CacheInv, [CacheNext]_cacheVars
               PROVE  [Store!Next]_([k \in IKey |-> Get(k)])
    OBVIOUS
  <2>1. CASE \E k \in IKey : Delete(k)
    BY <2>1, DeleteIsForget DEF Store!Next
  <2>2. CASE \E k \in IKey, d \in Dst : Put(k, d)
    BY <2>2, PutIsRecord DEF Store!Next
  <2>3. CASE UNCHANGED cacheVars
    BY <2>3 DEF cacheVars, Get
  <2> QED BY <2>1, <2>2, <2>3 DEF CacheNext
<1> QED BY <1>1, <1>2, <1>3, <1>4, PTL DEF CacheSpec, ImplementsStore, Store!Spec

-----------------------------------------------------------------------------
(* Eviction is by age. *)

(***************************************************************************)
(* The strengthening holds initially.                                      *)
(***************************************************************************)
LEMMA RecencyInitially == Init => RecencyInv
<1> USE IntentCacheAssumption, RecencyAssumption
<1>1. ASSUME Init PROVE TypeOK
  BY <1>1, EmptyFacts DEF Init, CacheInit, TypeOK, CacheTypeOK
<1>2. ASSUME Init PROVE Bounded
  BY <1>2, EmptyFacts DEF Init, CacheInit, Bounded
<1> QED BY <1>1, <1>2 DEF Init, CacheInit, RecencyInv, Empty

(***************************************************************************)
(* A Put ages every other connection by one and enlarges the current       *)
(* generation by at most one; a demotion drops only connections older than *)
(* Max Puts.                                                               *)
(***************************************************************************)
LEMMA PutKeepsRecency ==
    ASSUME RecencyInv, NEW k \in IKey, NEW d \in Dst, RecordedPut(k, d)
    PROVE  RecencyInv'
<1> USE IntentCacheAssumption, RecencyAssumption
<1> DEFINE n == Cardinality(Entries(cur))
<1>1. /\ cur \in Gen /\ prev \in Gen /\ want \in Gen
      /\ age \in [IKey -> 0..MaxAge] /\ Empty \in Gen /\ Put(k, d)
  BY EmptyFacts DEF RecencyInv, TypeOK, CacheTypeOK, RecordedPut
<1>2. CacheInv'
  BY <1>1, PutKeepsInv DEF RecencyInv, CacheInv, TypeOK
<1>3. TypeOK'
  <2>1. want' \in Gen
    BY <1>1 DEF RecordedPut, Gen
  <2>2. age' \in [IKey -> 0..MaxAge]
    BY <1>1 DEF RecordedPut, Older
  <2> QED BY <1>2, <2>1, <2>2 DEF TypeOK, CacheInv
<1>4. \A j \in IKey : cur'[j] \in {want'[j], Miss} /\ prev'[j] \in {want'[j], Miss}
  <2> SUFFICES ASSUME NEW j \in IKey
               PROVE  cur'[j] \in {want'[j], Miss} /\ prev'[j] \in {want'[j], Miss}
    OBVIOUS
  <2>0. cur[j] \in {want[j], Miss} /\ prev[j] \in {want[j], Miss}
    BY DEF RecencyInv
  <2>1. CASE j = k
    BY <1>1, <2>1 DEF RecordedPut, Put, Gen
  <2>2. CASE j # k
    <3>1. want'[j] = want[j]
      BY <1>1, <2>2 DEF RecordedPut, Gen
    <3>2. cur'[j] \in {cur[j], Miss} /\ prev'[j] \in {cur[j], prev[j]}
      BY <1>1, <2>2 DEF Put, Gen, Empty
    <3> QED BY <2>0, <3>1, <3>2
  <2> QED BY <2>1, <2>2
<1>5. n \in Nat /\ Cardinality(Entries(cur')) \in Nat
  BY <1>1, <1>2, EntriesFacts DEF CacheInv, CacheTypeOK
<1>6. Cardinality(Entries(cur')) <= IF Full THEN 1 ELSE n + 1
  <2>1. CASE Full
    <3>1. cur' = [Empty EXCEPT ![k] = d]
      BY <2>1 DEF Put, RecordedPut
    <3>2. Entries(cur') = {k}
      BY <1>1, <3>1 DEF Empty, Gen, Entries
    <3> QED BY <2>1, <3>2, FS_Singleton
  <2>2. CASE ~Full
    <3>1. cur' = [cur EXCEPT ![k] = d]
      BY <2>2 DEF Put, RecordedPut
    <3> QED BY <1>1, <2>2, <3>1, WriteSizes
  <2> QED BY <2>1, <2>2
<1>7. ASSUME NEW j \in IKey, want'[j] # Miss, cur'[j] = Miss
      PROVE  IF prev'[j] = Miss THEN age'[j] > Max
             ELSE age'[j] >= Cardinality(Entries(cur'))
  <2>1. j # k
    BY <1>1, <1>7 DEF Put, Gen
  <2>2. /\ want'[j] = want[j] /\ age[j] \in 0..MaxAge
        /\ age'[j] = Older(age[j])
    BY <1>1, <2>1 DEF RecordedPut, Gen
  <2>3. CASE Full
    <3>1. prev'[j] = cur[j]
      BY <1>1, <2>1, <2>3 DEF Put, Gen
    <3>2. n >= Max
      BY <2>3 DEF Full
    <3>3. CASE cur[j] # Miss
      <4>1. age'[j] >= 1
        BY <2>2 DEF Older
      <4> QED BY <1>5, <1>6, <2>2, <2>3, <3>1, <3>3, <4>1 DEF Older
    <3>4. CASE cur[j] = Miss
      <4>1. age[j] > Max \/ age[j] >= n
        BY <1>7, <2>2, <3>4 DEF RecencyInv
      <4>2. age[j] >= Max
        BY <1>5, <2>2, <3>2, <4>1
      <4>3. age'[j] > Max
        BY <2>2, <4>2 DEF Older
      <4> QED BY <3>1, <3>4, <4>3
    <3> QED BY <3>3, <3>4
  <2>4. CASE ~Full
    <3>1. cur[j] = Miss /\ prev'[j] = prev[j]
      BY <1>1, <1>7, <2>1, <2>4 DEF Put, Gen
    <3>2. IF prev[j] = Miss THEN age[j] > Max ELSE age[j] >= n
      BY <1>7, <2>2, <3>1 DEF RecencyInv
    <3>3. n < Max
      BY <1>5, <2>4 DEF Full
    <3>4. CASE prev[j] = Miss
      <4>1. age'[j] > Max
        BY <2>2, <3>2, <3>4 DEF Older
      <4> QED BY <3>1, <3>4, <4>1
    <3>5. CASE prev[j] # Miss
      <4>1. age'[j] >= n + 1
        BY <1>5, <2>2, <3>2, <3>3, <3>5 DEF Older
      <4>2. Cardinality(Entries(cur')) <= n + 1
        BY <1>6, <2>4
      <4>3. age'[j] \in Nat
        BY <1>3 DEF TypeOK
      <4> HIDE DEF n
      <4> QED BY <1>5, <3>1, <3>5, <4>1, <4>2, <4>3
    <3> QED BY <3>4, <3>5
  <2> QED BY <2>3, <2>4
<1> QED BY <1>2, <1>3, <1>4, <1>7 DEF RecencyInv, CacheInv

(***************************************************************************)
(* A Delete ends the claim of one connection and touches no other.         *)
(***************************************************************************)
LEMMA DeleteKeepsRecency ==
    ASSUME RecencyInv, NEW k \in IKey, RecordedDelete(k)
    PROVE  RecencyInv'
<1> USE IntentCacheAssumption, RecencyAssumption
<1>1. /\ cur \in Gen /\ prev \in Gen /\ want \in Gen
      /\ age \in [IKey -> 0..MaxAge] /\ Delete(k)
  BY DEF RecencyInv, TypeOK, CacheTypeOK, RecordedDelete
<1>2. CacheInv'
  BY <1>1, DeleteKeepsInv DEF RecencyInv, CacheInv, TypeOK
<1>3. TypeOK'
  BY <1>1, <1>2 DEF TypeOK, CacheInv, RecordedDelete, Gen
<1>4. \A j \in IKey : cur'[j] \in {want'[j], Miss} /\ prev'[j] \in {want'[j], Miss}
  BY <1>1 DEF RecencyInv, RecordedDelete, Delete, Gen
<1>5. /\ Cardinality(Entries(cur)) \in Nat /\ Cardinality(Entries(cur')) \in Nat
      /\ Cardinality(Entries(cur')) <= Cardinality(Entries(cur))
  <2>1. IsFiniteSet(Entries(cur)) /\ IsFiniteSet(Entries(cur'))
    BY FS_Subset DEF Entries
  <2>2. Entries(cur') \in SUBSET Entries(cur)
    BY <1>1 DEF Entries, Delete, Gen
  <2> QED BY <2>1, <2>2, FS_Subset, FS_CardinalityType
<1>6. ASSUME NEW j \in IKey, want'[j] # Miss, cur'[j] = Miss
      PROVE  IF prev'[j] = Miss THEN age'[j] > Max
             ELSE age'[j] >= Cardinality(Entries(cur'))
  <2>1. j # k
    BY <1>1, <1>6 DEF RecordedDelete, Gen
  <2>2. /\ want'[j] = want[j] /\ cur'[j] = cur[j] /\ prev'[j] = prev[j]
        /\ age'[j] = age[j] /\ age[j] \in Nat
    BY <1>1, <2>1 DEF RecordedDelete, Delete, Gen
  <2>3. IF prev[j] = Miss THEN age[j] > Max
        ELSE age[j] >= Cardinality(Entries(cur))
    BY <1>6, <2>2 DEF RecencyInv
  <2> QED BY <1>5, <2>2, <2>3
<1> QED BY <1>2, <1>3, <1>4, <1>6 DEF RecencyInv, CacheInv

(***************************************************************************)
(* For every Max and every sequence of calls: an open connection is still  *)
(* known, with the destination it dialed, after Max Puts of others, and    *)
(* the cache never answers anything but that destination or a miss.        *)
(***************************************************************************)
THEOREM CacheRecency == Spec => []RecentKnown
<1>1. RecencyInv /\ [Next]_vars => RecencyInv'
  <2> SUFFICES ASSUME RecencyInv, [Next]_vars PROVE RecencyInv'
    OBVIOUS
  <2>1. CASE \E k \in IKey : RecordedDelete(k)
    BY <2>1, DeleteKeepsRecency
  <2>2. CASE \E k \in IKey, d \in Dst : RecordedPut(k, d)
    BY <2>2, PutKeepsRecency
  <2>3. CASE UNCHANGED vars
    BY <2>3 DEF vars, RecencyInv, TypeOK, CacheTypeOK, Bounded, Entries
  <2> QED BY <2>1, <2>2, <2>3 DEF Next
<1>2. RecencyInv => RecentKnown
  <2> SUFFICES ASSUME RecencyInv, NEW k \in IKey
               PROVE  /\ Get(k) \in {want[k], Miss}
                      /\ age[k] <= Max => Get(k) = want[k]
    BY DEF RecentKnown
  <2>1. Get(k) \in {want[k], Miss}
    BY DEF RecencyInv, Get
  <2>2. ASSUME age[k] <= Max, want[k] # Miss PROVE Get(k) = want[k]
    <3>1. age[k] \in Nat
      BY DEF RecencyInv, TypeOK
    <3>2. cur[k] # Miss \/ prev[k] # Miss
      BY <2>2, <3>1, IntentCacheAssumption DEF RecencyInv
    <3> QED BY <2>1, <3>2 DEF Get, RecencyInv
  <2> QED BY <2>1, <2>2
<1> QED BY <1>1, <1>2, RecencyInitially, PTL DEF Spec

-----------------------------------------------------------------------------
(* Enricher.                                                                *)

LEMMA CacheSteps ==
    ASSUME [CachesNext]_allVars
    PROVE  E!Next \/ UNCHANGED enricherVars
BY DEF CachesNext, allVars

\* The PID was in container c at the instant `at' or later; lastSeen is one
\* past the instant.
SeenSince(p, c, at) == p \in PID /\ c \in Container /\ lastSeen[p][c] > at

\* The kernel's side: time, and when a PID was last in a container.
SightInv ==
    /\ now \in 0 .. MaxTime
    /\ proc \in [PID -> E!Process]
    /\ lastSeen \in [PID -> [Container -> Nat]]
    /\ \A p \in PID, c \in Container : lastSeen[p][c] <= now + 1
    /\ \A p \in PID : proc[p] \in Container => lastSeen[p][proc[p]] = now + 1

\* A container in the cache, or on its way there, was seen after the instant
\* that will be called cachedAt: resolve takes it before it reads /proc.
CacheOK(p) == cache[p].container # None => SeenSince(p, cache[p].container, cache[p].at)

CallOK(c) ==
    /\ c.step # "idle" => c.pid \in PID
    /\ c.at <= now
    /\ c.step = "store" /\ c.found # None => SeenSince(c.pid, c.found, c.at)

AnswerOK(a) ==
    a.container # None =>
        /\ a.pid \in PID /\ a.container \in Container
        /\ lastSeen[a.pid][a.container] + TTL > a.asked + 1

EnricherInv ==
    /\ SightInv
    /\ cache \in [PID -> E!Info \cup {E!NoInfo}]
    /\ call \in [E!Thread -> E!Call]
    /\ answer \in [E!Thread -> E!Answer]
    /\ \A p \in PID : CacheOK(p)
    /\ \A t \in E!Thread : CallOK(call[t]) /\ AnswerOK(answer[t])

LEMMA EnricherConstants ==
    /\ TTL \in Nat \ {0} /\ MaxTime \in Nat
    /\ None \notin Container /\ None \notin PID
BY CachesAssumption DEF E!ConstantsOK

\* The kernel's steps move sightings forward only, so what was seen since an
\* instant stays seen since that instant.
LEMMA KernelKeepsEnricherInv ==
    ASSUME EnricherInv, SightInv', now' >= now, UNCHANGED <<cache, call, answer>>,
           \A p \in PID, c \in Container : lastSeen'[p][c] >= lastSeen[p][c]
    PROVE  EnricherInv'
<1>1. \A p \in PID, c \in Container : lastSeen[p][c] \in Nat /\ lastSeen'[p][c] \in Nat
  BY DEF EnricherInv, SightInv
<1>2. ASSUME NEW p, NEW c, NEW at \in Nat, SeenSince(p, c, at)
      PROVE  SeenSince(p, c, at)'
  BY <1>1, <1>2 DEF SeenSince
<1>3. ASSUME NEW p \in PID PROVE CacheOK(p)'
  <2>1. cache[p].container # None => cache[p].at \in Nat
    BY EnricherConstants DEF EnricherInv, E!Info, E!NoInfo, E!Time
  <2> QED BY <1>2, <2>1 DEF EnricherInv, CacheOK
<1>4. ASSUME NEW t \in E!Thread PROVE CallOK(call[t])' /\ AnswerOK(answer[t])'
  <2>1. call[t].at \in Nat /\ answer[t].asked \in Nat
    BY EnricherConstants DEF EnricherInv, E!Call, E!Answer, E!Time
  <2>2. CallOK(call[t])'
    BY <1>2, <2>1, EnricherConstants DEF EnricherInv, CallOK, SightInv
  <2>3. AnswerOK(answer[t])'
    BY <1>1, <2>1, EnricherConstants DEF EnricherInv, AnswerOK
  <2> QED BY <2>2, <2>3
<1> QED BY <1>3, <1>4 DEF EnricherInv

LEMMA TickKeepsEnricherInv ==
    ASSUME EnricherInv, E!Tick PROVE EnricherInv'
<1>1. /\ now' = now + 1 /\ now' \in 0 .. MaxTime /\ proc' = proc
      /\ UNCHANGED <<cache, call, answer>>
  BY EnricherConstants DEF E!Tick, EnricherInv, SightInv
<1>2. ASSUME NEW p \in PID, NEW c \in Container
      PROVE  /\ lastSeen'[p][c] = IF proc[p] = c THEN now + 2 ELSE lastSeen[p][c]
             /\ lastSeen[p][c] \in Nat /\ lastSeen[p][c] <= now + 1
  BY DEF E!Tick, EnricherInv, SightInv
<1>3. lastSeen' \in [PID -> [Container -> Nat]]
  BY EnricherConstants DEF E!Tick, EnricherInv, SightInv
<1>4. SightInv'
  BY <1>1, <1>2, <1>3, EnricherConstants DEF EnricherInv, SightInv
<1> QED BY <1>1, <1>2, <1>4, EnricherConstants, KernelKeepsEnricherInv DEF EnricherInv, SightInv

LEMMA ForkExitKeepsEnricherInv ==
    ASSUME EnricherInv, NEW p \in PID, NEW c \in E!Process, E!ForkExit(p, c)
    PROVE  EnricherInv'
<1>1. /\ now' = now /\ now \in Nat /\ proc' = [proc EXCEPT ![p] = c]
      /\ UNCHANGED <<cache, call, answer>>
  BY EnricherConstants DEF E!ForkExit, EnricherInv, SightInv
<1>2. ASSUME NEW q \in PID, NEW k \in Container
      PROVE  /\ lastSeen'[q][k] = IF q = p /\ k = c THEN now + 1 ELSE lastSeen[q][k]
             /\ lastSeen[q][k] \in Nat /\ lastSeen[q][k] <= now + 1
  BY DEF E!ForkExit, EnricherInv, SightInv
<1>3. lastSeen' \in [PID -> [Container -> Nat]]
  BY <1>1 DEF E!ForkExit, EnricherInv, SightInv
<1>4. SightInv'
  <2>1. proc' \in [PID -> E!Process] /\ now' \in 0 .. MaxTime
    BY <1>1 DEF EnricherInv, SightInv
  <2>2. \A q \in PID, k \in Container : lastSeen'[q][k] <= now' + 1
    BY <1>1, <1>2
  <2>3. ASSUME NEW q \in PID, proc'[q] \in Container
        PROVE  lastSeen'[q][proc'[q]] = now' + 1
    <3>1. CASE q = p
      BY <1>1, <1>2, <2>3, <3>1 DEF EnricherInv, SightInv
    <3>2. CASE q # p
      BY <1>1, <1>2, <2>3, <3>2 DEF EnricherInv, SightInv
    <3> QED BY <3>1, <3>2
  <2> QED BY <1>3, <2>1, <2>2, <2>3 DEF SightInv
<1> QED BY <1>1, <1>2, <1>4, KernelKeepsEnricherInv DEF EnricherInv
\* A step of one thread's call: what it must establish about that thread and
\* about the cache.
LEMMA CallKeepsEnricherInv ==
    ASSUME EnricherInv, NEW t \in E!Thread, NEW c \in E!Call, NEW a \in E!Answer,
           UNCHANGED <<now, proc, lastSeen>>,
           call' = [call EXCEPT ![t] = c], answer' = [answer EXCEPT ![t] = a],
           CallOK(c), AnswerOK(a),
           cache' \in [PID -> E!Info \cup {E!NoInfo}], \A p \in PID : CacheOK(p)'
    PROVE  EnricherInv'
<1>1. SightInv'
  BY DEF EnricherInv, SightInv
<1>2. call' \in [E!Thread -> E!Call] /\ answer' \in [E!Thread -> E!Answer]
  BY DEF EnricherInv
<1>3. ASSUME NEW u \in E!Thread PROVE CallOK(call[u])' /\ AnswerOK(answer[u])'
  <2>1. call'[u] \in {c, call[u]} /\ answer'[u] \in {a, answer[u]}
    BY DEF EnricherInv
  <2>2. CallOK(call[u]) /\ AnswerOK(answer[u])
    BY DEF EnricherInv
  <2>3. \A x : CallOK(x) => /\ x.step # "idle" => x.pid \in PID
                            /\ x.at <= now'
                            /\ x.step = "store" /\ x.found # None =>
                                  /\ x.pid \in PID /\ x.found \in Container
                                  /\ lastSeen'[x.pid][x.found] > x.at
    BY DEF CallOK, SeenSince
  <2>4. \A x : AnswerOK(x) => (x.container # None =>
                                  /\ x.pid \in PID /\ x.container \in Container
                                  /\ lastSeen'[x.pid][x.container] + TTL > x.asked + 1)
    BY DEF AnswerOK
  <2> QED BY <2>1, <2>2, <2>3, <2>4 DEF CallOK, AnswerOK, SeenSince
<1> QED BY <1>1, <1>2, <1>3 DEF EnricherInv

LEMMA IdleFacts ==
    ASSUME EnricherInv
    PROVE  /\ E!IdleCall \in E!Call /\ CallOK(E!IdleCall)
           /\ E!NoAnswer \in E!Answer /\ AnswerOK(E!NoAnswer)
           /\ \A t \in E!Thread : answer[t] \in E!Answer /\ AnswerOK(answer[t])
           /\ \A t \in E!Thread : call[t] \in E!Call /\ CallOK(call[t])
           /\ cache \in [PID -> E!Info \cup {E!NoInfo}] /\ \A p \in PID : CacheOK(p)
           /\ now \in 0 .. MaxTime
BY EnricherConstants DEF EnricherInv, SightInv, E!IdleCall, E!NoAnswer, E!Call, E!Answer,
   E!Steps, E!Time, CallOK, AnswerOK

LEMMA BeginKeepsEnricherInv ==
    ASSUME EnricherInv, NEW t \in E!Thread, NEW p \in PID, E!Begin(t, p)
    PROVE  EnricherInv'
<1> DEFINE c == [step |-> "lookup", pid |-> p, at |-> 0, found |-> None]
<1>1. c \in E!Call /\ CallOK(c)
  BY IdleFacts, EnricherConstants DEF E!Call, E!Steps, E!Time, CallOK
<1>2. /\ call' = [call EXCEPT ![t] = c] /\ answer' = [answer EXCEPT ![t] = E!NoAnswer]
      /\ UNCHANGED <<now, proc, lastSeen, cache>>
  BY DEF E!Begin
<1>3. \A q \in PID : CacheOK(q)'
  BY <1>2, IdleFacts DEF CacheOK, SeenSince
<1> HIDE DEF c
<1> QED BY <1>1, <1>2, <1>3, IdleFacts, CallKeepsEnricherInv

\* The fast path answers from an entry younger than TTL, whose container was
\* seen after it was made.
LEMMA LookupKeepsEnricherInv ==
    ASSUME EnricherInv, NEW t \in E!Thread, E!Lookup(t)
    PROVE  EnricherInv'
<1> DEFINE p == call[t].pid
<1>1. p \in PID /\ UNCHANGED <<now, proc, lastSeen, cache>>
  BY IdleFacts DEF E!Lookup, CallOK
<1>2. \A q \in PID : CacheOK(q)'
  BY <1>1, IdleFacts DEF CacheOK, SeenSince
<1>3. CASE E!Fresh(p)
  <2> DEFINE a == [pid |-> p, container |-> cache[p].container, asked |-> now]
  <2>1. /\ call' = [call EXCEPT ![t] = E!IdleCall] /\ answer' = [answer EXCEPT ![t] = a]
    BY <1>3 DEF E!Lookup
  <2>2. cache[p] \in E!Info /\ now < cache[p].at + TTL
    BY <1>1, <1>3, IdleFacts DEF E!Fresh
  <2>3. a \in E!Answer
    BY <1>1, <2>2, IdleFacts DEF E!Answer, E!Info, E!Time
  <2>4. AnswerOK(a)
    <3>1. ASSUME cache[p].container # None
          PROVE  /\ cache[p].container \in Container
                 /\ lastSeen[p][cache[p].container] > cache[p].at
                 /\ lastSeen[p][cache[p].container] \in Nat /\ cache[p].at \in Nat
      BY <1>1, <2>2, <3>1, IdleFacts, EnricherConstants
         DEF CacheOK, SeenSince, E!Info, E!Time, EnricherInv, SightInv
    <3> QED BY <1>1, <2>2, <3>1, IdleFacts, EnricherConstants DEF AnswerOK
  <2> HIDE DEF a
  <2> QED BY <1>1, <1>2, <2>1, <2>3, <2>4, IdleFacts, CallKeepsEnricherInv
<1>4. CASE ~E!Fresh(p)
  <2> DEFINE c == [call[t] EXCEPT !.step = "comm", !.at = now]
  <2>1. call' = [call EXCEPT ![t] = c] /\ answer' = answer /\ call[t] \in E!Call
    BY <1>4, IdleFacts DEF E!Lookup
  <2>2. c \in E!Call /\ CallOK(c)
    <3>1. c \in E!Call /\ c.step = "comm" /\ c.pid = p /\ c.at = now
      BY <2>1, IdleFacts DEF E!Call, E!Steps, E!Time
    <3>2. now <= now
      BY IdleFacts, EnricherConstants
    <3> HIDE DEF c
    <3> QED BY <1>1, <3>1, <3>2 DEF CallOK
  <2>3. answer' = [answer EXCEPT ![t] = answer[t]]
    BY <2>1 DEF EnricherInv
  <2> HIDE DEF c
  <2> QED BY <1>1, <1>2, <2>1, <2>2, <2>3, IdleFacts, CallKeepsEnricherInv
<1> QED BY <1>3, <1>4

\* Reading /proc: the container found is the one the PID is in at this instant,
\* which is not before the instant the call took as cachedAt.
LEMMA ReadKeepsEnricherInv ==
    ASSUME EnricherInv, NEW t \in E!Thread, E!ReadComm(t) \/ E!readCgroup(t)
    PROVE  EnricherInv'
<1> DEFINE p == call[t].pid
<1>1. /\ call[t] \in E!Call /\ CallOK(call[t]) /\ p \in PID
      /\ UNCHANGED <<now, proc, lastSeen, cache, answer>>
  BY IdleFacts DEF E!ReadComm, E!readCgroup, CallOK
<1>2. \A q \in PID : CacheOK(q)'
  BY <1>1, IdleFacts DEF CacheOK, SeenSince
<1>3. answer' = [answer EXCEPT ![t] = answer[t]]
  BY <1>1 DEF EnricherInv
<1>4. CASE E!ReadComm(t)
  <2>1. PICK c \in {[call[t] EXCEPT !.step = "cgroup"], [call[t] EXCEPT !.step = "minimal"],
                     E!IdleCall} : call' = [call EXCEPT ![t] = c]
    BY <1>4 DEF E!ReadComm, EnricherInv
  <2>2. c \in E!Call /\ CallOK(c)
    BY <1>1, <2>1, IdleFacts DEF E!Call, E!Steps, CallOK
  <2> QED BY <1>1, <1>2, <1>3, <2>1, <2>2, IdleFacts, CallKeepsEnricherInv
<1>5. CASE E!readCgroup(t)
  <2> DEFINE found == IF proc[p] \in Container THEN proc[p] ELSE None
             c == [call[t] EXCEPT !.step = "store", !.found = found]
  <2>1. call' = [call EXCEPT ![t] = c]
    BY <1>5 DEF E!readCgroup, EnricherInv
  <2>2. c \in E!Call
    BY <1>1 DEF E!Call, E!Steps
  <2>3. CallOK(c)
    <3>1. call[t].at \in Nat /\ call[t].at <= now
      BY <1>1, EnricherConstants DEF CallOK, E!Call, E!Time
    <3>2. found # None => SeenSince(p, found, call[t].at)
      BY <1>1, <3>1, EnricherConstants DEF SeenSince, EnricherInv, SightInv
    <3>3. c.pid = p /\ c.at = call[t].at /\ c.found = found
      BY <1>1 DEF E!Call
    <3> HIDE DEF c, found
    <3> QED BY <1>1, <3>1, <3>2, <3>3 DEF CallOK
  <2> HIDE DEF c
  <2> QED BY <1>1, <1>2, <1>3, <2>1, <2>2, <2>3, IdleFacts, CallKeepsEnricherInv
<1> QED BY <1>4, <1>5

\* A store, also one that an Evict overtook: the entry's container was seen
\* after its cachedAt.
LEMMA StoreKeepsEnricherInv ==
    ASSUME EnricherInv, NEW t \in E!Thread, E!Store(t)
    PROVE  EnricherInv'
<1> DEFINE p == call[t].pid
           e == [container |-> call[t].found, at |-> call[t].at]
           put == [cache EXCEPT ![p] = e]
           a == [pid |-> p, container |-> call[t].found, asked |-> call[t].at]
<1>1. /\ call[t] \in E!Call /\ CallOK(call[t]) /\ p \in PID /\ call[t].step = "store"
      /\ UNCHANGED <<now, proc, lastSeen>>
  BY IdleFacts DEF E!Store, CallOK
<1>2. /\ call' = [call EXCEPT ![t] = E!IdleCall] /\ answer' = [answer EXCEPT ![t] = a]
      /\ cache' = E!Stored(t)
  BY DEF E!Store
<1>3. e \in E!Info /\ a \in E!Answer
  BY <1>1 DEF E!Call, E!Info, E!Answer
<1>4. call[t].found # None => SeenSince(p, call[t].found, call[t].at)
  BY <1>1 DEF CallOK
<1>5. AnswerOK(a)
  <2>1. ASSUME call[t].found # None
        PROVE  /\ call[t].found \in Container /\ call[t].at \in Nat
               /\ lastSeen[p][call[t].found] \in Nat
               /\ lastSeen[p][call[t].found] > call[t].at
    BY <1>1, <1>4, <2>1, EnricherConstants
       DEF SeenSince, E!Call, E!Time, EnricherInv, SightInv
  <2> QED BY <1>1, <2>1, EnricherConstants DEF AnswerOK
<1>6. /\ cache' \in [PID -> E!Info \cup {E!NoInfo}]
      /\ \A q \in PID : cache'[q] \in {put[q], E!NoInfo}
  <2>1. put \in [PID -> E!Info \cup {E!NoInfo}]
    BY <1>1, <1>3, IdleFacts
  <2>2. \/ cache' = put
        \/ cache' = [q \in PID |-> IF put[q] # E!NoInfo /\ now > put[q].at + TTL
                                   THEN E!NoInfo ELSE put[q]]
    BY <1>2 DEF E!Stored
  <2> HIDE DEF put
  <2> QED BY <2>1, <2>2
<1>7. ASSUME NEW q \in PID PROVE CacheOK(q)'
  <2>1. E!NoInfo.container = None
    BY DEF E!NoInfo
  <2>2. put[q] = IF q = p THEN e ELSE cache[q]
    BY <1>1, IdleFacts
  <2>3. put[q].container # None => SeenSince(q, put[q].container, put[q].at)
    BY <1>4, <2>2, IdleFacts DEF CacheOK
  <2> HIDE DEF put
  <2> QED BY <1>1, <1>6, <2>1, <2>3 DEF CacheOK, SeenSince
<1> HIDE DEF a
<1> QED BY <1>1, <1>2, <1>3, <1>5, <1>6, <1>7, IdleFacts, CallKeepsEnricherInv

LEMMA MinimalKeepsEnricherInv ==
    ASSUME EnricherInv, E!EnrichCommMinimal PROVE EnricherInv'
<1> DEFINE p == call["reader"].pid
           e == [container |-> None, at |-> now]
           a == [pid |-> p, container |-> None, asked |-> now]
<1>1. "reader" \in E!Thread /\ p \in PID /\ UNCHANGED <<now, proc, lastSeen>>
  BY IdleFacts DEF E!EnrichCommMinimal, CallOK, E!Thread
<1>2. /\ call' = [call EXCEPT !["reader"] = E!IdleCall]
      /\ answer' = [answer EXCEPT !["reader"] = a]
      /\ cache' = [cache EXCEPT ![p] = e]
  BY DEF E!EnrichCommMinimal
<1>3. e \in E!Info /\ a \in E!Answer /\ AnswerOK(a)
  BY <1>1, IdleFacts DEF E!Info, E!Answer, E!Time, AnswerOK
<1>4. cache' \in [PID -> E!Info \cup {E!NoInfo}]
  BY <1>2, <1>3, IdleFacts
<1>5. ASSUME NEW q \in PID PROVE CacheOK(q)'
  <2>1. cache'[q] = IF q = p THEN e ELSE cache[q]
    BY <1>1, <1>2, IdleFacts
  <2> QED BY <1>1, <2>1, IdleFacts DEF CacheOK, SeenSince
<1> HIDE DEF a
<1> QED BY <1>1, <1>2, <1>3, <1>4, <1>5, IdleFacts, CallKeepsEnricherInv

LEMMA EvictKeepsEnricherInv ==
    ASSUME EnricherInv, NEW p \in PID, E!Evict(p) PROVE EnricherInv'
<1>1. /\ cache' = [cache EXCEPT ![p] = E!NoInfo]
      /\ UNCHANGED <<now, proc, lastSeen, call, answer>>
  BY DEF E!Evict
<1>2. cache' \in [PID -> E!Info \cup {E!NoInfo}]
  BY <1>1, IdleFacts
<1>3. ASSUME NEW q \in PID PROVE CacheOK(q)'
  <2>1. cache'[q] \in {cache[q], E!NoInfo} /\ E!NoInfo.container = None
    BY <1>1, IdleFacts DEF E!NoInfo
  <2> QED BY <1>1, <2>1, IdleFacts DEF CacheOK, SeenSince
<1>4. "reader" \in E!Thread
  BY DEF E!Thread
<1>5. call' = [call EXCEPT !["reader"] = call["reader"]]
      /\ answer' = [answer EXCEPT !["reader"] = answer["reader"]]
  BY <1>1 DEF EnricherInv
<1> QED BY <1>1, <1>2, <1>3, <1>4, <1>5, IdleFacts, CallKeepsEnricherInv

\* For every TTL, cache size and number of PIDs: the container Lookup names is
\* one the PID was in less than TTL before it was asked, or later, although no
\* lock is held while /proc is read, PIDs are reused, two threads may resolve
\* one PID, and a store may undo an Evict.
THEOREM EnricherAnswersRecent == CachesSpec => []AnswersRecent
<1>1. CachesInit => EnricherInv
  <2> SUFFICES ASSUME CachesInit PROVE EnricherInv
    OBVIOUS
  <2>1. SightInv
    BY EnricherConstants DEF CachesInit, E!Init, SightInv
  <2>2. /\ cache = [p \in PID |-> E!NoInfo]
        /\ call = [t \in E!Thread |-> E!IdleCall]
        /\ answer = [t \in E!Thread |-> E!NoAnswer]
    BY DEF CachesInit, E!Init
  <2>3. /\ E!IdleCall \in E!Call /\ CallOK(E!IdleCall)
        /\ E!NoAnswer \in E!Answer /\ AnswerOK(E!NoAnswer)
    BY <2>1, EnricherConstants DEF SightInv, E!IdleCall, E!NoAnswer, E!Call, E!Answer,
       E!Steps, E!Time, CallOK, AnswerOK
  <2>4. \A p \in PID : CacheOK(p)
    BY <2>2 DEF CacheOK, E!NoInfo
  <2> QED BY <2>1, <2>2, <2>3, <2>4 DEF EnricherInv
<1>2. EnricherInv /\ [CachesNext]_allVars => EnricherInv'
  <2> SUFFICES ASSUME EnricherInv, [CachesNext]_allVars PROVE EnricherInv'
    OBVIOUS
  <2>1. CASE UNCHANGED enricherVars
    BY <2>1 DEF enricherVars, EnricherInv, SightInv, CacheOK, CallOK, AnswerOK, SeenSince
  <2>2. CASE E!Next
    BY <2>2, TickKeepsEnricherInv, ForkExitKeepsEnricherInv, BeginKeepsEnricherInv,
       LookupKeepsEnricherInv, ReadKeepsEnricherInv, StoreKeepsEnricherInv,
       MinimalKeepsEnricherInv, EvictKeepsEnricherInv DEF E!Next
  <2> QED BY <2>1, <2>2, CacheSteps
<1>3. EnricherInv => AnswersRecent
  BY DEF EnricherInv, AnswerOK, AnswersRecent, E!AnswersRecent
<1> QED BY <1>1, <1>2, <1>3, PTL DEF CachesSpec
=============================================================================
