---------------------------- MODULE IntentRecency ----------------------------
(***************************************************************************)
(* The intent cache with a history of its callers: what each connection's  *)
(* last Put recorded and how many Puts came after it.                      *)
(***************************************************************************)
EXTENDS IntentCache

CONSTANT MaxAge     \* bound of the history counters

ASSUME RecencyAssumption == MaxAge \in Nat /\ MaxAge > Max

VARIABLES
    want,   \* want[k]: the last Put of k not followed by a Delete, or Miss
    age     \* age[k]: Puts since then, capped at MaxAge

vars == <<cur, prev, want, age>>

TypeOK ==
    /\ CacheTypeOK
    /\ want \in Gen
    /\ age \in [IKey -> 0..MaxAge]

Init == CacheInit /\ want = Empty /\ age = [k \in IKey |-> 0]

Older(n) == IF n < MaxAge THEN n + 1 ELSE n

RecordedPut(k, d) ==
    /\ Put(k, d)
    /\ want' = [want EXCEPT ![k] = d]
    /\ age'  = [j \in IKey |-> IF j = k THEN 0 ELSE Older(age[j])]

RecordedDelete(k) ==
    /\ Delete(k)
    /\ want' = [want EXCEPT ![k] = Miss]
    /\ UNCHANGED age

Next == \E k \in IKey : RecordedDelete(k) \/ \E d \in Dst : RecordedPut(k, d)

Spec == Init /\ [][Next]_vars

\* Eviction is by age: a connection that was not closed is still known after
\* Max further Puts, with the destination it dialed; a later answer is a miss,
\* never an older or a deleted destination.
RecentKnown ==
    \A k \in IKey : /\ Get(k) \in {want[k], Miss}
                    /\ age[k] <= Max => Get(k) = want[k]

\* Strengthening: what left the current generation is at least as old as the
\* current generation is large.
RecencyInv ==
    /\ TypeOK
    /\ Bounded
    /\ \A k \in IKey : cur[k] \in {want[k], Miss} /\ prev[k] \in {want[k], Miss}
    /\ \A k \in IKey : want[k] # Miss /\ cur[k] = Miss =>
          IF prev[k] = Miss THEN age[k] > Max
          ELSE age[k] >= Cardinality(Entries(cur))
=============================================================================
