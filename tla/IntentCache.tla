----------------------------- MODULE IntentCache -----------------------------
(***************************************************************************)
(* pkg/intent Cache: two generations of a map from connection identity to  *)
(* the pre-DNAT destination.  Every method holds the mutex for its whole   *)
(* body, so each is one action.                                            *)
(***************************************************************************)
EXTENDS Naturals, FiniteSets

CONSTANTS
    IKey,   \* connection identities (5-tuple and pid)
    Dst,    \* pre-DNAT destinations
    Miss,   \* no entry
    Max     \* entries per generation

ASSUME IntentCacheAssumption ==
    /\ IsFiniteSet(IKey)
    /\ Miss \notin Dst
    /\ Max \in Nat \ {0}

VARIABLES cur, prev

cacheVars == <<cur, prev>>

Gen == [IKey -> Dst \cup {Miss}]
Empty == [k \in IKey |-> Miss]
Entries(g) == {k \in IKey : g[k] # Miss}

CacheTypeOK == cur \in Gen /\ prev \in Gen

CacheInit == cur = Empty /\ prev = Empty

\* Mutant: one entry too many.
FullLate == Cardinality(Entries(cur)) > Max

\* Put: demote a full generation first, then keep k in the current one only.
Full == Cardinality(Entries(cur)) >= Max

Put(k, d) ==
    /\ cur'  = [(IF Full THEN Empty ELSE cur) EXCEPT ![k] = d]
    /\ prev' = [(IF Full THEN cur ELSE prev) EXCEPT ![k] = Miss]

\* Mutant: the whole previous generation goes.
DeleteGeneration(k) ==
    /\ cur'  = [cur EXCEPT ![k] = Miss]
    /\ prev' = Empty

Delete(k) ==
    /\ cur'  = [cur EXCEPT ![k] = Miss]
    /\ prev' = [prev EXCEPT ![k] = Miss]

\* Mutant: only the current generation is asked.
GetCurrent(k) == cur[k]

Get(k) == IF cur[k] # Miss THEN cur[k] ELSE prev[k]

CacheNext == \E k \in IKey : Delete(k) \/ \E d \in Dst : Put(k, d)

CacheSpec == CacheInit /\ [][CacheNext]_cacheVars

-----------------------------------------------------------------------------
\* Len() never exceeds 2 x max, and no connection is held in both
\* generations, so Len() counts each one once (cache.go, type Cache).
Bounded ==
    /\ Cardinality(Entries(cur)) <= Max
    /\ Cardinality(Entries(prev)) <= Max
    /\ Entries(cur) \cap Entries(prev) = {}

\* The cache implements the lossy map.
Store == INSTANCE IntentStore WITH known <- [k \in IKey |-> Get(k)]
ImplementsStore == Store!Spec
=============================================================================
