------------------------------- MODULE MCCaches -------------------------------
(***************************************************************************)
(* The caches handlePoll joins a flow against, one lookup after the other: *)
(* the intent cache (what was dialed), the enricher (which container) and  *)
(* the sidecar detector.  They share no variable and never call each       *)
(* other, so a property of one cannot depend on how its steps interleave   *)
(* with another's: `subject' picks the cache that moves.                   *)
(***************************************************************************)
EXTENDS IntentRecency, TLC

CONSTANTS
    PID, Container, Host, TTL, MaxCacheSize, MaxTime, None,     \* Enricher
    Proc, Proxy                                                 \* Sidecar

VARIABLES
    subject,
    now, proc, lastSeen, cache, call, answer,   \* Enricher
    runs, sidecarPIDs, asking                   \* Sidecar

E == INSTANCE Enricher
S == INSTANCE Sidecar WITH proc <- runs

ASSUME CachesAssumption == E!ConstantsOK /\ S!ConstantsOK

enricherVars == <<now, proc, lastSeen, cache, call, answer>>
sidecarVars == <<runs, sidecarPIDs, asking>>
allVars == <<subject, vars, enricherVars, sidecarVars>>

\* The processes of a cache that stays out are not told apart.
CachesInit ==
    /\ subject \in {"intent", "enricher", "sidecar"}
    /\ Init /\ E!Init /\ S!Init
    /\ subject # "enricher" => proc = [p \in PID |-> None]
    /\ subject # "sidecar" => runs = [p \in PID |-> None]

CachesNext ==
    /\ \/ subject = "intent" /\ Next /\ UNCHANGED <<enricherVars, sidecarVars>>
       \/ subject = "enricher" /\ E!Next /\ UNCHANGED <<vars, sidecarVars>>
       \/ subject = "sidecar" /\ S!Next /\ UNCHANGED <<vars, enricherVars>>
    /\ UNCHANGED subject

CachesSpec == CachesInit /\ [][CachesNext]_allVars

PidSymmetry == Permutations(PID)

-----------------------------------------------------------------------------
\* Enricher!AnswersRecent: against PID reuse and an Evict that a slower store
\* overtakes, Lookup names a container the PID was in less than TTL ago.
AnswersRecent == E!AnswersRecent
=============================================================================
