------------------------------- MODULE Exporter -------------------------------
(***************************************************************************)
(* pkg/exporter: the poll loop folds classified flows into counters, and   *)
(* scrapes of /metrics read them: type counters and gauges are atomics,    *)
(* the per-pod maps are under podMu, which a scrape holds while it writes  *)
(* them to its client.  Pods are evicted through a ring.  Every flow here  *)
(* carries one byte.                                                       *)
(***************************************************************************)
EXTENDS Naturals, SequencesExt, FiniteSetsExt, Functions

CONSTANTS
    TrafficType, Pod,
    maxPodMetrics,
    MaxBatch,       \* bound: flows of one poll
    MaxFlows,       \* bound: flows of a behaviour
    None            \* no pod metadata; an empty ring slot

ClassifiedFlow == [type : TrafficType, pod : Pod \cup {None}, sidecar : BOOLEAN]

\* What the constants must satisfy; the composing module assumes it.
ConstantsOK ==
    /\ maxPodMetrics \in Nat \ {0} /\ MaxBatch \in Nat /\ MaxFlows \in Nat
    /\ None \notin Pod /\ None \notin Nat /\ None \notin Seq(ClassifiedFlow)
    /\ IsFiniteSet(TrafficType)

VARIABLES
    bytesByType, connsByType, skipped,      \* atomics
    podMetrics,     \* bytes of each tracked pod, None if it is not tracked
    podCost,        \* pods with an entry in podCost
    podRing, podRingPos,
    podMu,          \* "free", "poll" or "scrape"
    polling,        \* UpdateFromPoll: flows not folded yet, or None
    scraping,       \* a scrape is between its gauges and the end of its pods
    total           \* history: flows handed to UpdateFromPoll

podVars == <<podMetrics, podCost, podRing, podRingPos>>
vars == <<bytesByType, connsByType, skipped, podVars, podMu, polling, scraping, total>>

Slot == 1 .. maxPodMetrics
NoConns == [t \in TrafficType |-> 0]

\* Types; the ring position stays inside the ring.
TypeOK ==
    /\ bytesByType \in [TrafficType -> Nat] /\ connsByType \in [TrafficType -> Nat]
    /\ skipped \in Nat
    /\ podMetrics \in [Pod -> Nat \cup {None}] /\ podCost \subseteq Pod
    /\ podRing \in [Slot -> Pod \cup {None}] /\ podRingPos \in Slot
    /\ podMu \in {"free", "poll", "scrape"}
    /\ polling = None \/ polling \in Seq(ClassifiedFlow)
    /\ scraping \in BOOLEAN
    /\ total \in 0 .. MaxFlows

Init ==
    /\ bytesByType = NoConns /\ connsByType = NoConns /\ skipped = 0
    /\ podMetrics = [p \in Pod |-> None] /\ podCost = {}
    /\ podRing = [i \in Slot |-> None] /\ podRingPos = 1
    /\ podMu = "free" /\ polling = None /\ scraping = FALSE
    /\ total = 0

-----------------------------------------------------------------------------
\* UpdateFromPoll begins: the gauges are reset before podMu is taken.
UpdateFromPoll(flows) ==
    /\ polling = None /\ total + Len(flows) <= MaxFlows
    /\ polling' = flows
    /\ total' = total + Len(flows)
    /\ connsByType' = NoConns
    /\ UNCHANGED <<bytesByType, skipped, podVars, podMu, scraping>>

LockPods ==
    /\ polling # None /\ podMu = "free"
    /\ podMu' = "poll"
    /\ UNCHANGED <<bytesByType, connsByType, skipped, podVars, polling, scraping, total>>

Tracked == {p \in Pod : podMetrics[p] # None}

\* Mutant: the bound is checked after the insertion.
AdmitLate(p) ==
    LET victim == IF Cardinality(Tracked) > maxPodMetrics
                  THEN {podRing[podRingPos]} \ {None} ELSE {}
    IN  /\ podMetrics' = [q \in Pod |-> IF q = p THEN 1
                                        ELSE IF q \in victim THEN None ELSE podMetrics[q]]
        /\ podCost' = podCost \ victim
        /\ podRing' = [podRing EXCEPT ![podRingPos] = p]
        /\ podRingPos' = (podRingPos % maxPodMetrics) + 1

\* A pod that is not tracked: at capacity the pod in the next slot goes.
Admit(p) ==
    LET victim == IF Cardinality(Tracked) >= maxPodMetrics
                  THEN {podRing[podRingPos]} \ {None} ELSE {}
    IN  /\ podMetrics' = [q \in Pod |-> IF q = p THEN 1
                                        ELSE IF q \in victim THEN None ELSE podMetrics[q]]
        /\ podCost' \in {podCost \ victim, (podCost \ victim) \cup {p}}
        /\ podRing' = [podRing EXCEPT ![podRingPos] = p]
        /\ podRingPos' = (podRingPos % maxPodMetrics) + 1

\* The per-pod half of the loop body.
CountPod(p) ==
    \/ p = None /\ UNCHANGED podVars
    \/ /\ p \in Tracked
       /\ podMetrics' = [podMetrics EXCEPT ![p] = @ + 1]
       /\ podCost' \in {podCost, podCost \cup {p}}
       /\ UNCHANGED <<podRing, podRingPos>>
    \/ p \in Pod \ Tracked /\ Admit(p)

\* Mutant: an internal sidecar flow counts as traffic as well.
FoldSidecarTwice(f) ==
    /\ skipped' = IF f.sidecar THEN skipped + 1 ELSE skipped
    /\ bytesByType' = [bytesByType EXCEPT ![f.type] = @ + 1]
    /\ connsByType' = [connsByType EXCEPT ![f.type] = @ + 1]
    /\ CountPod(f.pod)

\* The loop body of UpdateFromPoll for one flow.
Fold(f) ==
    IF f.sidecar
    THEN skipped' = skipped + 1 /\ UNCHANGED <<bytesByType, connsByType, podVars>>
    ELSE /\ bytesByType' = [bytesByType EXCEPT ![f.type] = @ + 1]
         /\ connsByType' = [connsByType EXCEPT ![f.type] = @ + 1]
         /\ CountPod(f.pod)
         /\ UNCHANGED skipped

FoldFlow ==
    /\ podMu = "poll" /\ polling # <<>>
    /\ Fold(Head(polling))
    /\ polling' = Tail(polling)
    /\ UNCHANGED <<podMu, scraping, total>>

EndPoll ==
    /\ podMu = "poll" /\ polling = <<>>
    /\ podMu' = "free" /\ polling' = None
    /\ UNCHANGED <<bytesByType, connsByType, skipped, podVars, scraping, total>>

-----------------------------------------------------------------------------
\* handleMetrics: the atomics, then the pods under podMu, written to the client.
Scrape ==
    /\ ~scraping
    /\ scraping' = TRUE
    /\ UNCHANGED <<bytesByType, connsByType, skipped, podVars, podMu, polling, total>>

ScrapePods ==
    /\ scraping /\ podMu = "free"
    /\ podMu' = "scrape"
    /\ UNCHANGED <<bytesByType, connsByType, skipped, podVars, polling, scraping, total>>

\* Mutant: podMu stays locked.
ClientReadsLocked ==
    /\ podMu = "scrape"
    /\ scraping' = FALSE
    /\ UNCHANGED <<bytesByType, connsByType, skipped, podVars, podMu, polling, total>>

\* The client has read the pods (external).  Nothing bounds when: the server has
\* no write timeout.
ClientReads ==
    /\ podMu = "scrape"
    /\ podMu' = "free" /\ scraping' = FALSE
    /\ UNCHANGED <<bytesByType, connsByType, skipped, podVars, polling, total>>

Poll == LockPods \/ FoldFlow \/ EndPoll

Next ==
    \/ \E flows \in SeqOf(ClassifiedFlow, MaxBatch) : UpdateFromPoll(flows)
    \/ Poll \/ Scrape \/ ScrapePods \/ ClientReads

\* The poll loop runs whenever it can; sync.Mutex hands the lock to a waiter.
PollFairness == WF_vars(FoldFlow) /\ WF_vars(EndPoll) /\ SF_vars(LockPods)

\* Nothing is assumed of the clients, which may stall for ever.
Spec == Init /\ [][Next]_vars /\ PollFairness

-----------------------------------------------------------------------------
\* UpdateFromPoll, the ring: the tracked pods are exactly the ring's, each in
\* one slot, whatever was evicted and came back; cost is kept for no other pod.
RingMatchesPods ==
    /\ Tracked = {podRing[i] : i \in Slot} \ {None}
    /\ Cardinality(Tracked) = Cardinality({i \in Slot : podRing[i] # None})
    /\ podCost \subseteq Tracked

\* UpdateFromPoll: every byte handed over is either sidecar-internal or of one
\* traffic type, and no pod is charged more than was counted.
EachByteOneCounter ==
    /\ SumFunction(bytesByType) + skipped
          = total - (IF polling = None THEN 0 ELSE Len(polling))
    /\ SumFunctionOnSet(podMetrics, Tracked) <= SumFunction(bytesByType)

\* A scrape holds podMu and its client does not read.
Stalled == podMu = "scrape" /\ scraping

\* podMu: a poll that began ends, whatever scrapes come and go, unless one
\* client stops reading for good in the middle of the pods.
PollCompletes == polling # None ~> (polling = None \/ []Stalled)

-----------------------------------------------------------------------------
(* What the comments of the code say.                                       *)

\* prometheus.go: handleMetrics is "Lock-free: all state is accessed via
\* atomics": a client that stalls does not hold the poll loop up.
PollUnhindered == polling # None ~> polling = None
=============================================================================
