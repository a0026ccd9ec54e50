------------------------------ MODULE DnsTracker ------------------------------
(***************************************************************************)
(* pkg/dns Tracker: the IP-to-domain cache with its eviction ring, and the *)
(* per-domain query counters.  cacheInsert runs under the mutex, once per  *)
(* address record of a parsed response, so it is one action; readers take  *)
(* the lock for one lookup.  Time is counted in ticks.                     *)
(***************************************************************************)
EXTENDS Integers, FiniteSets

CONSTANTS
    Addr, Domain,
    NoAddr, NoEntry, NoDomain,
    RingLen,            \* maxCacheEntries
    MaxQueryCounters,
    RecordTTL,          \* TTLs found in address records
    MinTTL, MaxTTL,
    MaxCount            \* bound of the query counters

ASSUME DnsAssumption ==
    /\ NoAddr \notin Addr /\ NoDomain \notin Domain
    /\ IsFiniteSet(Addr) /\ RingLen \in Nat \ {0} /\ MaxQueryCounters \in Nat \ {0}
    /\ RecordTTL \subseteq Nat
    /\ MinTTL \in Nat \ {0} /\ MaxTTL \in Nat /\ MinTTL <= MaxTTL
    /\ MaxCount \in Nat \ {0}
    /\ NoEntry \notin [domain : Domain, left : Int]

VARIABLES
    cache,      \* cache[a]: the entry of address a, or NoEntry
    ring,       \* addresses in insertion order, overwritten cyclically
    ringPos,    \* next write position
    queryCounts,\* observations per domain, 0 for a domain not tracked
    last,       \* history: the address cacheInsert ran for last
    named, age  \* history: each address's last resolution, and ticks since

vars == <<cache, ring, ringPos, queryCounts, last, named, age>>

Slot == 0 .. RingLen - 1
Entry == [domain : Domain, left : Int]
Cached(c) == {a \in Addr : c[a] # NoEntry}
CountedDomains(q) == {d \in Domain : q[d] > 0}

TypeOK ==
    /\ cache \in [Addr -> Entry \cup {NoEntry}]
    /\ ring \in [Slot -> Addr \cup {NoAddr}]
    /\ ringPos \in Slot
    /\ queryCounts \in [Domain -> Nat]
    /\ last \in Addr \cup {NoAddr}
    /\ named \in [Addr -> Domain \cup {NoDomain}]
    /\ age \in [Addr -> 0 .. MaxTTL + 1]

Init ==
    /\ cache = [a \in Addr |-> NoEntry]
    /\ ring = [i \in Slot |-> NoAddr]
    /\ ringPos = 0
    /\ queryCounts = [d \in Domain |-> 0]
    /\ last = NoAddr
    /\ named = [a \in Addr |-> NoDomain]
    /\ age = [a \in Addr |-> MaxTTL + 1]

\* Mutants: no upper bound; nothing evicted.
ClampTTLMin(ttl) == IF ttl < MinTTL THEN MinTTL ELSE ttl

ClampTTL(ttl) == IF ttl < MinTTL THEN MinTTL ELSE IF ttl > MaxTTL THEN MaxTTL ELSE ttl

StoredUnbounded(c, a, e) == [c EXCEPT ![a] = e]

\* Store the entry; when the cache has outgrown the ring, drop the entry of
\* the address in the slot about to be overwritten, if that slot was used.
Stored(c, a, e) ==
    LET stored == [c EXCEPT ![a] = e]
        oldest == ring[ringPos]
    IN  IF Cardinality(Cached(stored)) > RingLen /\ oldest # NoAddr
        THEN [stored EXCEPT ![oldest] = NoEntry]
        ELSE stored

\* Mutant: off by one.
EvictLowestLate(q) ==
    IF Cardinality(CountedDomains(q)) > MaxQueryCounters + 1
    THEN {[q EXCEPT ![v] = 0] : v \in CountedDomains(q)}
    ELSE {q}

\* evictLowestCountLocked: among equal counts the map's order decides.
EvictLowest(q) ==
    IF Cardinality(CountedDomains(q)) > MaxQueryCounters
    THEN {[q EXCEPT ![v] = 0] :
            v \in {d \in CountedDomains(q) : \A x \in CountedDomains(q) : q[d] <= q[x]}}
    ELSE {q}

cacheInsert(a, d, ttl) ==
    /\ queryCounts[d] < MaxCount
    /\ cache' = Stored(cache, a, [domain |-> d, left |-> ClampTTL(ttl)])
    /\ ring' = [ring EXCEPT ![ringPos] = a]
    /\ ringPos' = (ringPos + 1) % RingLen
    /\ queryCounts' \in EvictLowest([queryCounts EXCEPT ![d] = @ + 1])
    /\ last' = a
    /\ named' = [named EXCEPT ![a] = d]
    /\ age' = [age EXCEPT ![a] = 0]

\* Time passes for every entry: left is the time to expiresAt, and the entry
\* is served up to and including that instant.  Nothing is removed when it expires.
Tick ==
    /\ \E a \in Cached(cache) : cache[a].left >= 0
    /\ cache' = [a \in Addr |->
                   IF cache[a] # NoEntry /\ cache[a].left >= 0
                   THEN [cache[a] EXCEPT !.left = @ - 1] ELSE cache[a]]
    /\ age' = [a \in Addr |-> IF age[a] <= MaxTTL THEN age[a] + 1 ELSE age[a]]
    /\ UNCHANGED <<ring, ringPos, queryCounts, last, named>>

ResetQueryCounts ==
    /\ queryCounts' = [d \in Domain |-> 0]
    /\ UNCHANGED <<cache, ring, ringPos, last, named, age>>

Lookup(a) == IF cache[a] # NoEntry /\ cache[a].left >= 0
             THEN cache[a].domain ELSE NoDomain

Next == \/ \E a \in Addr, d \in Domain, ttl \in RecordTTL : cacheInsert(a, d, ttl)
        \/ Tick
        \/ ResetQueryCounts

Spec == Init /\ [][Next]_vars

-----------------------------------------------------------------------------
InRing == {ring[i] : i \in Slot}

\* Entries that no ring slot names any more: nothing will ever evict them.
Orphans == Cached(cache) \ InRing

\* Refreshes of a cached address use up ring slots and orphan other entries,
\* so the cache outgrows its ring, but never to twice its length.
CacheBound == Cardinality(Cached(cache)) <= 2 * RingLen - 1

\* Why: an entry is orphaned only while the cache fits the ring.
OrphanBound == Cardinality(Orphans) <= RingLen - 1

\* Tracked domains never exceed the cap, whichever domain is evicted.
CountersBounded == Cardinality(CountedDomains(queryCounts)) <= MaxQueryCounters

\* Flows are named by the latest resolution of their address only: an answer
\* is at most MaxTTL old, and an address still cached is answered for MinTTL
\* at least, whatever TTL its record carried.
FreshAnswers ==
    \A a \in Addr :
        /\ Lookup(a) # NoDomain => Lookup(a) = named[a] /\ age[a] <= MaxTTL
        /\ cache[a] # NoEntry /\ age[a] <= MinTTL => Lookup(a) = named[a]

\* tracker.go: "the ring length IS the cache capacity".
RingIsCapacity == Cardinality(Cached(cache)) <= RingLen

\* tracker.go: the cache is an LRU, so the address resolved last is cached.
JustResolvedKept == last = NoAddr \/ cache[last] # NoEntry
=============================================================================
