--------------------------- MODULE DnsTrackerProofs ---------------------------
(***************************************************************************)
(* The DNS tracker, for every ring length, set of addresses and resolution *)
(* history: the cache stays below twice its ring, the counters below their *)
(* cap, and an answer is the latest resolution of its address, for as long *)
(* as its clamped TTL says.                                                *)
(***************************************************************************)
EXTENDS DnsTracker, FiniteSetTheorems, TLAPS

\* What the argument needs of the types: where the ring points and that it
\* holds addresses.
RingTypeOK ==
    /\ DOMAIN cache = Addr
    /\ ring \in [Slot -> Addr \cup {NoAddr}]
    /\ ringPos \in Slot

IInv == RingTypeOK /\ OrphanBound

LEMMA CachedFinite ==
    ASSUME NEW c PROVE IsFiniteSet(Cached(c)) /\ Cardinality(Cached(c)) \in Nat
<1>1. Cached(c) \subseteq Addr
  BY DEF Cached
<1> QED
  BY <1>1, FS_Subset, FS_CardinalityType, DnsAssumption

\* A ring of RingLen slots names at most RingLen addresses.
LEMMA InRingSize ==
    ASSUME RingTypeOK
    PROVE  IsFiniteSet(InRing) /\ Cardinality(InRing) <= RingLen
<1>1. IsFiniteSet(Slot) /\ Cardinality(Slot) = RingLen
  <2>1. RingLen \in Nat /\ RingLen - 1 \in Int /\ Slot = 0 .. RingLen - 1
    BY DnsAssumption DEF Slot
  <2> QED BY <2>1, FS_Interval
<1>2. ring \in Surjection(Slot, InRing)
  BY DEF RingTypeOK, InRing, Surjection
<1> QED
  BY <1>1, <1>2, FS_Surjection

\* The bound follows: what is cached is either named by the ring or orphaned.
LEMMA OrphansBoundCache == IInv => CacheBound
<1> SUFFICES ASSUME IInv PROVE CacheBound
  OBVIOUS
<1>1. IsFiniteSet(Orphans) /\ Cardinality(Orphans) \in Nat
  BY CachedFinite, FS_Subset, FS_CardinalityType DEF Orphans
<1>2. IsFiniteSet(InRing) /\ Cardinality(InRing) <= RingLen /\ Cardinality(InRing) \in Nat
  BY InRingSize, FS_CardinalityType DEF IInv
<1>3. Cached(cache) \subseteq Orphans \cup InRing
  BY DEF Orphans
<1>4. /\ IsFiniteSet(Orphans \cup InRing)
      /\ Cardinality(Orphans \cup InRing) =
            Cardinality(Orphans) + Cardinality(InRing) - Cardinality(Orphans \cap InRing)
  BY <1>1, <1>2, FS_Union
<1>5. Cardinality(Orphans \cap InRing) \in Nat
  BY <1>1, FS_Intersection, FS_CardinalityType
<1>6. Cardinality(Cached(cache)) <= Cardinality(Orphans \cup InRing)
  BY <1>3, <1>4, FS_Subset
<1>7. Cardinality(Cached(cache)) \in Nat
  BY CachedFinite
<1> QED
  BY <1>1, <1>2, <1>4, <1>5, <1>6, <1>7, DnsAssumption
     DEF CacheBound, IInv, OrphanBound

LEMMA InitIInv == Init => IInv
<1> SUFFICES ASSUME Init PROVE IInv
  OBVIOUS
<1>1. RingTypeOK
  BY DnsAssumption DEF Init, RingTypeOK, Slot
<1>2. Orphans = {}
  BY DEF Orphans, Cached, Init
<1> QED
  BY <1>1, <1>2, FS_EmptySet, DnsAssumption DEF IInv, OrphanBound

\* An insertion that leaves the cache within the ring may orphan entries,
\* but the address just inserted is in the ring: fewer than RingLen remain.
\* One that does not evicts the address whose slot it overwrites, so no
\* entry becomes an orphan.
LEMMA InsertKeepsIInv ==
    ASSUME IInv, NEW a \in Addr, NEW d \in Domain, NEW ttl \in RecordTTL,
           cacheInsert(a, d, ttl)
    PROVE  IInv'
<1> DEFINE e == [domain |-> d, left |-> ClampTTL(ttl)]
           stored == [cache EXCEPT ![a] = e]
           oldest == ring[ringPos]
<1>1. RingTypeOK'
  <2>1. DOMAIN cache' = Addr
    BY DEF cacheInsert, Stored, IInv, RingTypeOK
  <2>2. ring' \in [Slot -> Addr \cup {NoAddr}]
    BY DEF cacheInsert, IInv, RingTypeOK
  <2>3. ringPos' \in Slot
    BY DnsAssumption DEF cacheInsert, IInv, RingTypeOK, Slot
  <2> QED BY <2>1, <2>2, <2>3 DEF RingTypeOK
<1>2. a \in InRing'
  BY DEF InRing, cacheInsert, IInv, RingTypeOK
<1>3. IsFiniteSet(Orphans') /\ Cardinality(Orphans') \in Nat
  BY CachedFinite, FS_Subset, FS_CardinalityType DEF Orphans
<1>4. CASE Cardinality(Cached(stored)) > RingLen
  <2>1. Cached(cache') \subseteq Cached(cache) \cup {a}
    BY DEF Cached, cacheInsert, Stored, IInv, RingTypeOK
  <2>2. oldest \notin Cached(cache')
    <3>1. CASE oldest = NoAddr
      BY <3>1, DnsAssumption DEF Cached
    <3>2. CASE oldest # NoAddr
      <4>1. cache' = [stored EXCEPT ![oldest] = NoEntry]
        BY <1>4, <3>2 DEF cacheInsert, Stored
      <4> QED BY <4>1 DEF IInv, RingTypeOK, Cached
    <3> QED BY <3>1, <3>2
  <2>3. InRing \subseteq InRing' \cup {oldest}
    BY DEF InRing, cacheInsert, IInv, RingTypeOK
  <2>4. Orphans' \subseteq Orphans
    BY <1>2, <2>1, <2>2, <2>3 DEF Orphans
  <2>5. IsFiniteSet(Orphans) /\ Cardinality(Orphans) \in Nat
    BY CachedFinite, FS_Subset, FS_CardinalityType DEF Orphans
  <2>6. Cardinality(Orphans') <= Cardinality(Orphans)
    BY <2>4, <2>5, FS_Subset
  <2> QED
    BY <1>1, <1>3, <2>5, <2>6, DnsAssumption DEF IInv, OrphanBound
<1>5. CASE ~(Cardinality(Cached(stored)) > RingLen)
  <2>1. cache' = stored
    BY <1>5 DEF cacheInsert, Stored
  <2>2. e \in Entry
    BY DnsAssumption DEF ClampTTL, Entry
  <2>3. a \in Cached(stored)
    BY <2>2, DnsAssumption DEF Cached, Entry, IInv, RingTypeOK
  <2>4. IsFiniteSet(Cached(stored)) /\ Cardinality(Cached(stored)) \in Nat
    BY CachedFinite
  <2>5. /\ IsFiniteSet(Cached(stored) \ {a})
        /\ Cardinality(Cached(stored) \ {a}) = Cardinality(Cached(stored)) - 1
    BY <2>3, <2>4, FS_RemoveElement
  <2>6. Orphans' \subseteq Cached(stored) \ {a}
    BY <1>2, <2>1 DEF Orphans
  <2>7. Cardinality(Orphans') <= Cardinality(Cached(stored) \ {a})
    BY <2>5, <2>6, FS_Subset
  <2> QED
    BY <1>1, <1>3, <1>5, <2>4, <2>5, <2>7, DnsAssumption DEF IInv, OrphanBound
<1> QED
  BY <1>4, <1>5

LEMMA TickKeepsIInv ==
    ASSUME IInv, Tick PROVE IInv'
<1>1. RingTypeOK'
  BY DEF Tick, IInv, RingTypeOK
<1>2. Cached(cache') \subseteq Cached(cache)
  BY DEF Tick, Cached
<1>3. Orphans' \subseteq Orphans
  BY <1>2 DEF Orphans, InRing, Tick
<1>4. IsFiniteSet(Orphans) /\ Cardinality(Orphans) \in Nat
  BY CachedFinite, FS_Subset, FS_CardinalityType DEF Orphans
<1>5. IsFiniteSet(Orphans') /\ Cardinality(Orphans') \in Nat
  BY <1>3, <1>4, FS_Subset, FS_CardinalityType
<1>6. Cardinality(Orphans') <= Cardinality(Orphans)
  BY <1>3, <1>4, FS_Subset
<1> QED
  BY <1>1, <1>4, <1>5, <1>6, DnsAssumption DEF IInv, OrphanBound

\* For every history of resolutions, refreshes included, cacheInsert keeps
\* the cache below twice the ring's length: the memory the tracker can use.
THEOREM DnsCacheBound == Spec => []CacheBound
<1>1. Init => IInv
  BY InitIInv
<1>2. IInv /\ [Next]_vars => IInv'
  <2> SUFFICES ASSUME IInv, [Next]_vars PROVE IInv'
    OBVIOUS
  <2>1. CASE \E a \in Addr, d \in Domain, ttl \in RecordTTL : cacheInsert(a, d, ttl)
    BY <2>1, InsertKeepsIInv
  <2>2. CASE Tick
    BY <2>2, TickKeepsIInv
  <2>3. CASE ResetQueryCounts \/ UNCHANGED vars
    BY <2>3 DEF ResetQueryCounts, vars, IInv, RingTypeOK, OrphanBound, Orphans, Cached, InRing
  <2> QED
    BY <2>1, <2>2, <2>3 DEF Next
<1>3. IInv => CacheBound
  BY OrphansBoundCache
<1> QED
  BY <1>1, <1>2, <1>3, PTL DEF Spec
-----------------------------------------------------------------------------
(* The query counters.                                                      *)

\* The cap, and that only finitely many domains are counted, whatever Domain is.
CountInv ==
    /\ queryCounts \in [Domain -> Nat]
    /\ IsFiniteSet(CountedDomains(queryCounts))
    /\ CountersBounded

\* cacheInsert counts one domain more at most, and evictLowestCountLocked then
\* takes one away whichever of the lowest the map's order gives it.
LEMMA InsertKeepsCountInv ==
    ASSUME CountInv, NEW a \in Addr, NEW d \in Domain, NEW ttl \in RecordTTL,
           cacheInsert(a, d, ttl)
    PROVE  CountInv'
<1> DEFINE q == [queryCounts EXCEPT ![d] = @ + 1]
<1>1. q \in [Domain -> Nat] /\ CountedDomains(q) = CountedDomains(queryCounts) \cup {d}
  BY DEF CountInv, CountedDomains
<1>2. /\ IsFiniteSet(CountedDomains(q))
      /\ Cardinality(CountedDomains(q)) <= Cardinality(CountedDomains(queryCounts)) + 1
  <2>1. /\ IsFiniteSet(CountedDomains(queryCounts) \cup {d})
        /\ Cardinality(CountedDomains(queryCounts) \cup {d})
              = IF d \in CountedDomains(queryCounts)
                THEN Cardinality(CountedDomains(queryCounts))
                ELSE Cardinality(CountedDomains(queryCounts)) + 1
    BY FS_AddElement DEF CountInv
  <2>2. Cardinality(CountedDomains(queryCounts)) \in Nat
    BY FS_CardinalityType DEF CountInv
  <2>3. \A S : S = CountedDomains(queryCounts) \cup {d}
                => /\ IsFiniteSet(S)
                   /\ Cardinality(S) <= Cardinality(CountedDomains(queryCounts)) + 1
    BY <2>1, <2>2
  <2> QED BY <1>1, <2>3, Zenon
<1>3. /\ Cardinality(CountedDomains(q)) \in Nat
      /\ Cardinality(CountedDomains(q)) <= MaxQueryCounters + 1
  BY <1>2, FS_CardinalityType, DnsAssumption DEF CountInv, CountersBounded
<1>4. queryCounts' \in EvictLowest(q)
  BY DEF cacheInsert
<1>5. CASE Cardinality(CountedDomains(q)) > MaxQueryCounters
  <2>1. PICK v \in CountedDomains(q) : queryCounts' = [q EXCEPT ![v] = 0]
    BY <1>4, <1>5 DEF EvictLowest
  <2>2. /\ queryCounts' \in [Domain -> Nat]
        /\ CountedDomains(queryCounts') = CountedDomains(q) \ {v}
    BY <1>1, <2>1 DEF CountedDomains
  <2>3. /\ IsFiniteSet(CountedDomains(q) \ {v})
        /\ Cardinality(CountedDomains(q) \ {v}) = Cardinality(CountedDomains(q)) - 1
    BY <1>2, <2>1, FS_RemoveElement
  <2>4. CountersBounded'
    BY <1>3, <2>2, <2>3, DnsAssumption DEF CountersBounded
  <2> QED BY <2>2, <2>3, <2>4 DEF CountInv
<1>6. CASE ~(Cardinality(CountedDomains(q)) > MaxQueryCounters)
  <2>1. queryCounts' = q
    BY <1>4, <1>6 DEF EvictLowest
  <2> QED BY <1>1, <1>2, <1>3, <1>6, <2>1, DnsAssumption DEF CountInv, CountersBounded
<1> QED BY <1>5, <1>6

\* For every set of domains, however they come and go, the tracker counts at
\* most MaxQueryCounters of them between two resets.
THEOREM DnsCountersBounded == Spec => []CountersBounded
<1>1. Init => CountInv
  <2> SUFFICES ASSUME Init PROVE CountInv
    OBVIOUS
  <2>1. queryCounts \in [Domain -> Nat] /\ CountedDomains(queryCounts) = {}
    BY DEF Init, CountedDomains
  <2> QED BY <2>1, FS_EmptySet, DnsAssumption DEF CountInv, CountersBounded
<1>2. CountInv /\ [Next]_vars => CountInv'
  <2> SUFFICES ASSUME CountInv, [Next]_vars PROVE CountInv'
    OBVIOUS
  <2>1. CASE \E a \in Addr, d \in Domain, ttl \in RecordTTL : cacheInsert(a, d, ttl)
    BY <2>1, InsertKeepsCountInv
  <2>2. CASE ResetQueryCounts
    <3>1. queryCounts' \in [Domain -> Nat] /\ CountedDomains(queryCounts') = {}
      BY <2>2 DEF ResetQueryCounts, CountedDomains
    <3> QED BY <3>1, FS_EmptySet, DnsAssumption DEF CountInv, CountersBounded
  <2>3. CASE Tick \/ UNCHANGED vars
    BY <2>3 DEF Tick, vars, CountInv, CountersBounded, CountedDomains
  <2> QED BY <2>1, <2>2, <2>3 DEF Next
<1>3. CountInv => CountersBounded
  BY DEF CountInv
<1> QED BY <1>1, <1>2, <1>3, PTL DEF Spec

-----------------------------------------------------------------------------
(* Answers.                                                                 *)

\* An entry carries its address's latest name, and the time it has left and
\* the time since that resolution add up to the clamped TTL until it expires.
EntryFresh(a) ==
    cache[a] # NoEntry =>
        /\ cache[a].domain = named[a]
        /\ cache[a].left >= -1
        /\ cache[a].left >= MinTTL - age[a]
        /\ cache[a].left >= 0 => cache[a].left <= MaxTTL - age[a]

FreshInv ==
    /\ cache \in [Addr -> Entry \cup {NoEntry}]
    /\ named \in [Addr -> Domain \cup {NoDomain}]
    /\ age \in [Addr -> 0 .. MaxTTL + 1]
    /\ \A a \in Addr : EntryFresh(a)

LEMMA ClampTTLBounds ==
    ASSUME NEW ttl \in RecordTTL
    PROVE  ClampTTL(ttl) \in MinTTL .. MaxTTL
BY DnsAssumption DEF ClampTTL

\* An insertion writes one address's entry, name and age together; the other
\* entry it may touch is removed.
LEMMA InsertKeepsFreshInv ==
    ASSUME FreshInv, NEW a \in Addr, NEW d \in Domain, NEW ttl \in RecordTTL,
           cacheInsert(a, d, ttl)
    PROVE  FreshInv'
<1> DEFINE e == [domain |-> d, left |-> ClampTTL(ttl)]
<1>1. e \in Entry /\ e.domain = d /\ e.left \in MinTTL .. MaxTTL /\ e # NoEntry
  BY ClampTTLBounds, DnsAssumption DEF Entry
<1>2. /\ cache' \in [Addr -> Entry \cup {NoEntry}]
      /\ cache'[a] \in {e, NoEntry}
      /\ \A b \in Addr \ {a} : cache'[b] \in {cache[b], NoEntry}
  BY <1>1 DEF cacheInsert, Stored, FreshInv
<1>3. /\ named' \in [Addr -> Domain \cup {NoDomain}] /\ named'[a] = d
      /\ \A b \in Addr \ {a} : named'[b] = named[b]
  BY DEF cacheInsert, FreshInv
<1>4. /\ age' \in [Addr -> 0 .. MaxTTL + 1] /\ age'[a] = 0
      /\ \A b \in Addr \ {a} : age'[b] = age[b]
  BY DnsAssumption DEF cacheInsert, FreshInv
<1>5. ASSUME NEW b \in Addr PROVE EntryFresh(b)'
  <2>1. CASE b = a
    BY <1>1, <1>2, <1>3, <1>4, <2>1, DnsAssumption DEF EntryFresh
  <2>2. CASE b # a
    BY <1>2, <1>3, <1>4, <2>2 DEF EntryFresh, FreshInv
  <2> QED BY <2>1, <2>2
<1> QED BY <1>2, <1>3, <1>4, <1>5 DEF FreshInv

\* A tick takes one from the time left and adds one to the age; an expired
\* entry stays where it is and only ages.
LEMMA TickKeepsFreshInv ==
    ASSUME FreshInv, Tick PROVE FreshInv'
<1>1. age' \in [Addr -> 0 .. MaxTTL + 1]
  BY DnsAssumption DEF Tick, FreshInv
<1>2. named' \in [Addr -> Domain \cup {NoDomain}]
  BY DEF Tick, FreshInv
<1>3. ASSUME NEW a \in Addr, cache[a] # NoEntry, cache[a].left >= 0
      PROVE  /\ cache'[a] \in Entry
             /\ cache'[a].domain = cache[a].domain /\ cache'[a].left = cache[a].left - 1
  <2>1. cache'[a] = [cache[a] EXCEPT !.left = @ - 1]
    BY <1>3 DEF Tick
  <2>2. cache[a] \in Entry
    BY <1>3 DEF FreshInv
  <2> QED BY <2>1, <2>2 DEF Entry
<1>4. ASSUME NEW a \in Addr, ~(cache[a] # NoEntry /\ cache[a].left >= 0)
      PROVE  cache'[a] = cache[a]
  BY <1>4 DEF Tick
<1>5. cache' \in [Addr -> Entry \cup {NoEntry}]
  <2>1. cache' = [a \in Addr |-> cache'[a]]
    BY DEF Tick
  <2>2. \A a \in Addr : cache'[a] \in Entry \cup {NoEntry}
    BY <1>3, <1>4 DEF FreshInv
  <2> QED BY <2>1, <2>2
<1>6. ASSUME NEW a \in Addr PROVE EntryFresh(a)'
  <2>1. EntryFresh(a) /\ age[a] \in 0 .. MaxTTL + 1 /\ named'[a] = named[a]
    BY DEF FreshInv, Tick
  <2>2. age'[a] = IF age[a] <= MaxTTL THEN age[a] + 1 ELSE age[a]
    BY DEF Tick
  <2>3. cache[a] # NoEntry => cache[a].left \in Int
    BY DEF FreshInv, Entry
  <2>4. CASE cache[a] # NoEntry /\ cache[a].left >= 0
    BY <1>3, <2>1, <2>2, <2>3, <2>4, DnsAssumption DEF EntryFresh
  <2>5. CASE ~(cache[a] # NoEntry /\ cache[a].left >= 0)
    BY <1>4, <2>1, <2>2, <2>3, <2>5, DnsAssumption DEF EntryFresh
  <2> QED BY <2>4, <2>5
<1> QED BY <1>1, <1>2, <1>5, <1>6 DEF FreshInv

\* Lookup never returns a name that a later response of the same address
\* replaced or that is older than MaxTTL, and does not forget one younger than
\* MinTTL while the address is cached, whatever TTLs the responses carry.
THEOREM DnsFreshAnswers == Spec => []FreshAnswers
<1>1. Init => FreshInv
  BY DnsAssumption DEF Init, FreshInv, EntryFresh
<1>2. FreshInv /\ [Next]_vars => FreshInv'
  <2> SUFFICES ASSUME FreshInv, [Next]_vars PROVE FreshInv'
    OBVIOUS
  <2>1. CASE \E a \in Addr, d \in Domain, ttl \in RecordTTL : cacheInsert(a, d, ttl)
    BY <2>1, InsertKeepsFreshInv
  <2>2. CASE Tick
    BY <2>2, TickKeepsFreshInv
  <2>3. CASE ResetQueryCounts \/ UNCHANGED vars
    BY <2>3 DEF ResetQueryCounts, vars, FreshInv, EntryFresh
  <2> QED BY <2>1, <2>2, <2>3 DEF Next
<1>3. FreshInv => FreshAnswers
  <2> SUFFICES ASSUME FreshInv, NEW a \in Addr
               PROVE  /\ Lookup(a) # NoDomain => Lookup(a) = named[a] /\ age[a] <= MaxTTL
                      /\ cache[a] # NoEntry /\ age[a] <= MinTTL => Lookup(a) = named[a]
    BY DEF FreshAnswers
  <2>1. EntryFresh(a) /\ age[a] \in 0 .. MaxTTL + 1
    BY DEF FreshInv
  <2>2. cache[a] # NoEntry => cache[a].left \in Int
    BY DEF FreshInv, Entry
  <2> QED BY <2>1, <2>2, DnsAssumption DEF EntryFresh, Lookup
<1> QED BY <1>1, <1>2, <1>3, PTL DEF Spec
=============================================================================
