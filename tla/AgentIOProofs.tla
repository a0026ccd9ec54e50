---------------------------- MODULE AgentIOProofs ----------------------------
(***************************************************************************)
(* Proofs about the agent's connections to the outside, each for every     *)
(* value of its constants: what the loader leaves attached, the exporter's *)
(* pod ring, and the subscriber's settlements and binding ladder.          *)
(***************************************************************************)
EXTENDS MCAgentIO, FoldProofs, SequenceTheorems, TLAPS

\* A step of the composition is a step of one part, and the others stand still.
LEMMA PartSteps ==
    ASSUME [AgentIONext]_allVars
    PROVE  /\ L!Next \/ UNCHANGED loaderVars
           /\ X!Next \/ UNCHANGED exporterVars
           /\ Next \/ UNCHANGED vars
BY DEF AgentIONext, allVars

-----------------------------------------------------------------------------
(* Loader.Start.                                                            *)

\* Steps of Start that come after a program's or a pair's attachment.
AfterConnect4 == L!Steps \ {"probe", "prune", "load", "connect4", "failed"}
AfterSockops == AfterConnect4 \ {"connect6", "sockops"}
AfterCounting == {"retransmit", "loss_probe", "dns", "udp_tx", "udp_rx", "quic",
                  "config", "reader", "running"}

\* Only what is in the collection is attached, and the collection holds no
\* program of the half pruneOptionalPrograms removed.
CollectionInv ==
    /\ kernel.fentry \in BOOLEAN
    /\ links \subseteq progs
    /\ step \in {"probe", "prune", "load", "connect4"} => links = {}
    /\ step \notin {"probe", "prune"} =>
          \/ kernel.fentry /\ progs \cap L!Kprobes = {}
          \/ ~kernel.fentry /\ progs \cap L!Tracing = {}

\* What is attached by the time Start reaches a step.
AttachedInv ==
    /\ step \in L!Steps
    /\ step \in AfterConnect4 => "connect4" \in links
    /\ step \in AfterSockops => "sockops" \in links
    /\ step = "kprobe_clean" => "sendmsg_kprobe" \in links
    /\ step \in AfterCounting =>
          /\ links \cap {"sendmsg_fentry", "sendmsg_kprobe"} # {}
          /\ links \cap {"cleanup_fentry", "cleanup_kprobe"} # {}

LoaderInv == CollectionInv /\ AttachedInv

\* A failing Start closes everything.
LEMMA CloseKeepsLoaderInv ==
    ASSUME LoaderInv, NEW why, L!Close(why), step \notin {"probe", "prune"}
    PROVE  LoaderInv'
BY DEF LoaderInv, CollectionInv, AttachedInv, L!Close, L!Steps, AfterConnect4,
       AfterSockops, AfterCounting

LEMMA PrepareKeepsLoaderInv ==
    ASSUME LoaderInv, L!CheckRequired \/ L!pruneOptionalPrograms \/ L!LoadAccepted
    PROVE  LoaderInv'
<1>1. CASE L!CheckRequired
  BY <1>1 DEF L!CheckRequired, L!Goto, L!Close, LoaderInv, CollectionInv, AttachedInv, L!Steps,
     AfterConnect4, AfterSockops, AfterCounting
<1>2. CASE L!pruneOptionalPrograms
  BY <1>2 DEF L!pruneOptionalPrograms, L!Pruned, L!Goto, LoaderInv, CollectionInv,
     AttachedInv, L!Steps, AfterConnect4, AfterSockops, AfterCounting
<1>3. CASE L!LoadAccepted
  BY <1>3 DEF L!LoadAccepted, L!Goto, LoaderInv, CollectionInv, AttachedInv, L!Steps,
     AfterConnect4, AfterSockops, AfterCounting
<1> QED BY <1>1, <1>2, <1>3
\* The verifier drops a program from the collection before anything is attached.
LEMMA RejectKeepsLoaderInv ==
    ASSUME LoaderInv, NEW p, L!LoadRejected(p)
    PROVE  LoaderInv'
<1>1. CASE p \in L!optionalPrograms /\ removals < MaxRemovals
  BY <1>1 DEF L!LoadRejected, LoaderInv, CollectionInv, AttachedInv, L!Steps,
     AfterConnect4, AfterSockops, AfterCounting
<1>2. CASE ~(p \in L!optionalPrograms /\ removals < MaxRemovals)
  BY <1>2, CloseKeepsLoaderInv DEF L!LoadRejected
<1> QED BY <1>1, <1>2

LEMMA RequiredKeepsLoaderInv ==
    ASSUME LoaderInv,
           \/ L!AttachRequired("connect4", "connect4", "connect6")
           \/ L!AttachRequired("sockops", "sockops", "release")
    PROVE  LoaderInv'
<1>1. CASE L!Close("required")
  BY <1>1, CloseKeepsLoaderInv DEF L!AttachRequired
<1>2. CASE ~L!Close("required")
  BY <1>2 DEF L!AttachRequired, L!Goto, LoaderInv, CollectionInv, AttachedInv, L!Steps,
     AfterConnect4, AfterSockops, AfterCounting
<1> QED BY <1>1, <1>2

LEMMA OptionalKeepsLoaderInv ==
    ASSUME LoaderInv,
           \/ L!AttachOptional("connect6", "connect6", "sockops")
           \/ L!AttachOptional("release", "sock_release", "sendmsg")
           \/ L!AttachSendmsgFentry
           \/ L!AttachOptional("retransmit", "retransmit", "loss_probe")
           \/ L!AttachOptional("loss_probe", "loss_probe", "dns")
           \/ L!AttachOptional("udp_tx", "udp_sendmsg", "udp_rx")
           \/ L!AttachOptional("udp_rx", "udp_recvmsg_exit", "quic")
           \/ L!AttachOptional("quic", "quic_egress", "config")
    PROVE  LoaderInv'
<1>1. links \subseteq links' /\ links' \subseteq progs /\ progs' = progs /\ kernel' = kernel
  BY DEF L!AttachSendmsgFentry, L!AttachOptional, L!Goto, LoaderInv, CollectionInv
<1>2. \/ step = "connect6" /\ step' = "sockops"
      \/ step = "release" /\ step' = "sendmsg"
      \/ step = "sendmsg" /\ step' = "cleanup"
      \/ step \in AfterCounting /\ step' \in AfterCounting
  BY DEF L!AttachSendmsgFentry, L!AttachOptional, L!Goto, AfterCounting
<1> QED
  BY <1>1, <1>2 DEF LoaderInv, CollectionInv, AttachedInv, L!Steps, AfterConnect4,
     AfterSockops, AfterCounting

\* attachByteCountingHooks leaves only with both directions counted: by the
\* fentry pair, or by the kprobe pair.
LEMMA CountingKeepsLoaderInv ==
    ASSUME LoaderInv,
           \/ L!AttachCleanupFentry \/ L!NoFentry
           \/ L!attachKprobe("kprobe_send", "sendmsg_kprobe", "kprobe_clean")
           \/ L!attachKprobe("kprobe_clean", "cleanup_kprobe", "retransmit")
    PROVE  LoaderInv'
<1>1. CASE L!AttachCleanupFentry
  BY <1>1 DEF L!AttachCleanupFentry, L!Goto, LoaderInv, CollectionInv, AttachedInv, L!Steps,
     AfterConnect4, AfterSockops, AfterCounting
<1>2. CASE L!NoFentry
  BY <1>2 DEF L!NoFentry, L!Goto, LoaderInv, CollectionInv, AttachedInv, L!Steps,
     AfterConnect4, AfterSockops, AfterCounting
<1>3. CASE L!attachKprobe("kprobe_send", "sendmsg_kprobe", "kprobe_clean")
  <2>1. CASE \E why : L!Close(why)
    BY <1>3, <2>1, CloseKeepsLoaderInv DEF L!attachKprobe
  <2>2. CASE ~\E why : L!Close(why)
    BY <1>3, <2>2 DEF L!attachKprobe, L!Goto, LoaderInv, CollectionInv, AttachedInv,
       L!Steps, AfterConnect4, AfterSockops, AfterCounting
  <2> QED BY <2>1, <2>2
<1>4. CASE L!attachKprobe("kprobe_clean", "cleanup_kprobe", "retransmit")
  <2>1. CASE \E why : L!Close(why)
    BY <1>4, <2>1, CloseKeepsLoaderInv DEF L!attachKprobe
  <2>2. CASE ~\E why : L!Close(why)
    BY <1>4, <2>2 DEF L!attachKprobe, L!Goto, LoaderInv, CollectionInv, AttachedInv,
       L!Steps, AfterConnect4, AfterSockops, AfterCounting
  <2> QED BY <2>1, <2>2
<1> QED BY <1>1, <1>2, <1>3, <1>4

LEMMA FinishKeepsLoaderInv ==
    ASSUME LoaderInv, L!AttachDns \/ L!pushConfig \/ L!StartReader
    PROVE  LoaderInv'
<1>1. CASE L!AttachDns
  BY <1>1 DEF L!AttachDns, LoaderInv, CollectionInv, AttachedInv, L!Steps,
     AfterConnect4, AfterSockops, AfterCounting
<1>2. CASE \E why : L!Close(why)
  BY <1>2, CloseKeepsLoaderInv DEF L!AttachDns, L!pushConfig, L!StartReader
<1>3. CASE (L!pushConfig \/ L!StartReader) /\ ~\E why : L!Close(why)
  BY <1>3 DEF L!pushConfig, L!StartReader, L!Goto, LoaderInv, CollectionInv, AttachedInv,
     L!Steps, AfterConnect4, AfterSockops, AfterCounting
<1> QED BY <1>1, <1>2, <1>3

LEMMA StepKeepsLoaderInv ==
    ASSUME LoaderInv, L!Next \/ UNCHANGED loaderVars PROVE LoaderInv'
<1>1. CASE L!Done \/ UNCHANGED loaderVars
  BY <1>1 DEF L!Done, L!vars, loaderVars, LoaderInv, CollectionInv, AttachedInv
<1>2. CASE L!AttachStep
  BY <1>2, RequiredKeepsLoaderInv, OptionalKeepsLoaderInv, CountingKeepsLoaderInv,
     FinishKeepsLoaderInv, Zenon DEF L!AttachStep
<1>3. CASE \E p \in L!Program : L!LoadRejected(p)
  BY <1>3, RejectKeepsLoaderInv
<1>4. CASE L!CheckRequired \/ L!pruneOptionalPrograms \/ L!LoadAccepted
  BY <1>4, PrepareKeepsLoaderInv
<1>5. CASE L!pushConfig \/ L!StartReader
  BY <1>5, FinishKeepsLoaderInv
<1> QED BY <1>1, <1>2, <1>3, <1>4, <1>5 DEF L!Next, L!Start

LEMMA LoaderInvariant == AgentIOSpec => []LoaderInv
<1>1. AgentIOInit => LoaderInv
  BY DEF AgentIOInit, L!Init, LoaderInv, CollectionInv, AttachedInv, L!Steps,
     AfterConnect4, AfterSockops, AfterCounting
<1>2. LoaderInv /\ [AgentIONext]_allVars => LoaderInv'
  BY PartSteps, StepKeepsLoaderInv
<1> QED BY <1>1, <1>2, PTL DEF AgentIOSpec

\* Whatever the kernel offers, the verifier rejects and the attach calls answer,
\* no byte of TCP traffic is recorded by two programs: attachByteCountingHooks
\* may fall from a half-attached fentry pair to the kprobes only when those
\* were pruned, and then it fails.
THEOREM LoaderOneCounter == AgentIOSpec => []OneCounterPerByte
<1>1. LoaderInv => OneCounterPerByte
  BY DEF LoaderInv, CollectionInv, OneCounterPerByte, L!OneCounterPerByte, L!Kprobes, L!Tracing
<1> QED BY <1>1, LoaderInvariant, PTL

\* A Start that returns without an error has attached connect4 and sockops and
\* a program for each TCP direction.
THEOREM LoaderRunningMeasures == AgentIOSpec => []RunningMeasures
<1>1. LoaderInv => RunningMeasures
  BY DEF LoaderInv, AttachedInv, RunningMeasures, L!RunningMeasures, L!Required, L!Steps,
     AfterConnect4, AfterSockops, AfterCounting
<1> QED BY <1>1, LoaderInvariant, PTL
-----------------------------------------------------------------------------
(* The exporter's pod ring.                                                 *)

Filled == {i \in X!Slot : podRing[i] # None}

\* No pod has two slots, and the ring is full or is filled up to the position
\* written next: the slot at that position is the oldest, or empty.
RingInv ==
    /\ podMetrics \in [Pod -> Nat \cup {None}]
    /\ podRing \in [X!Slot -> Pod \cup {None}]
    /\ podRingPos \in X!Slot
    /\ X!Tracked = {podRing[i] : i \in X!Slot} \ {None}
    /\ podCost \subseteq X!Tracked
    /\ \A i, j \in Filled : podRing[i] = podRing[j] => i = j
    /\ Filled = X!Slot \/ Filled = 1 .. podRingPos - 1

\* The bound UpdateFromPoll compares len(podMetrics) with tells a full ring
\* from one that is still filling.
LEMMA TrackedCount ==
    ASSUME RingInv
    PROVE  /\ Cardinality(X!Tracked) = Cardinality(Filled)
           /\ Cardinality(X!Tracked) \in Nat
           /\ Cardinality(X!Tracked) >= maxPodMetrics <=> Filled = X!Slot
<1>1. maxPodMetrics \in Nat \ {0} /\ None \notin Pod
  BY AgentIOAssumption DEF X!ConstantsOK
<1>2. IsFiniteSet(X!Slot) /\ Cardinality(X!Slot) = maxPodMetrics
  BY <1>1, FS_Interval DEF X!Slot
<1>3. IsFiniteSet(Filled)
  BY <1>2, FS_Subset DEF Filled
<1>4. [i \in Filled |-> podRing[i]] \in Bijection(Filled, X!Tracked)
  BY DEF RingInv, Filled, Bijection, Injection, Surjection, IsInjective
<1>5. /\ Cardinality(X!Tracked) = Cardinality(Filled) /\ IsFiniteSet(X!Tracked)
  BY <1>3, <1>4, FS_Bijection DEF ExistsBijection
<1>6. Cardinality(X!Tracked) \in Nat
  BY <1>5, FS_CardinalityType
<1>7. ASSUME Filled # X!Slot PROVE Cardinality(Filled) < maxPodMetrics
  <2>1. Filled = 1 .. podRingPos - 1 /\ podRingPos \in 1 .. maxPodMetrics
    BY <1>7 DEF RingInv, X!Slot
  <2>2. podRingPos - 1 \in Nat
    BY <1>1, <2>1
  <2>3. Cardinality(1 .. podRingPos - 1) = podRingPos - 1
    BY <2>2, FS_Interval
  <2> QED BY <1>1, <2>1, <2>3
<1> QED BY <1>1, <1>2, <1>5, <1>6, <1>7

\* The instance's cardinality is the library theorems'.
LEMMA SameCardinality ==
    ASSUME NEW S PROVE X!Cardinality(S) = Cardinality(S)
BY DEF X!Cardinality, Cardinality

LEMMA NextSlot ==
    ASSUME NEW n \in Nat \ {0}, NEW i \in 1 .. n
    PROVE  (i % n) + 1 = IF i = n THEN 1 ELSE i + 1
OBVIOUS

\* A full ring hands the oldest pod's slot to p; one still filling takes an
\* empty slot and evicts nobody.
LEMMA AdmitEvicts ==
    ASSUME RingInv, NEW p \in Pod \ X!Tracked, X!Admit(p)
    PROVE  /\ podMetrics' = [q \in Pod |-> IF q = p THEN 1
                                           ELSE IF q \in {podRing[podRingPos]} \ {None} THEN None
                                           ELSE podMetrics[q]]
           /\ podCost' \subseteq (podCost \ ({podRing[podRingPos]} \ {None})) \cup {p}
           /\ X!Tracked' = (X!Tracked \ {podRing[podRingPos]}) \cup {p}
<1>1. /\ maxPodMetrics \in Nat \ {0} /\ None \notin Pod /\ None \notin Nat
      /\ X!Slot = 1 .. maxPodMetrics
  BY AgentIOAssumption DEF X!ConstantsOK, X!Slot
<1> DEFINE old == podRing[podRingPos]
           victim == IF Cardinality(X!Tracked) >= maxPodMetrics THEN {old} \ {None} ELSE {}
<1>2. victim = {old} \ {None}
  <2>1. CASE Filled = X!Slot
    BY <2>1, TrackedCount
  <2>2. CASE Filled # X!Slot
    <3>1. podRingPos \in X!Slot \ Filled
      BY <1>1, <2>2 DEF RingInv
    <3>2. old = None
      BY <3>1 DEF Filled
    <3> QED BY <3>2
  <2> QED BY <2>1, <2>2
<1>3. /\ podMetrics' = [q \in Pod |-> IF q = p THEN 1
                                      ELSE IF q \in {old} \ {None} THEN None ELSE podMetrics[q]]
      /\ podCost' \subseteq (podCost \ ({old} \ {None})) \cup {p}
  <2>1. /\ podMetrics' = [q \in Pod |-> IF q = p THEN 1
                                        ELSE IF q \in victim THEN None ELSE podMetrics[q]]
        /\ podCost' \in {podCost \ victim, (podCost \ victim) \cup {p}}
    BY SameCardinality, Zenon DEF X!Admit
  <2> HIDE DEF victim
  <2>2. podCost' \subseteq (podCost \ victim) \cup {p}
    BY <2>1
  <2> QED BY <1>2, <2>1, <2>2
<1>4. X!Tracked' = (X!Tracked \ {old}) \cup {p}
  BY <1>1, <1>3 DEF X!Tracked, RingInv
<1> QED BY <1>3, <1>4

LEMMA AdmitKeepsRingInv ==
    ASSUME RingInv, NEW p \in Pod \ X!Tracked, X!Admit(p)
    PROVE  RingInv'
<1> DEFINE old == podRing[podRingPos]
<1>1. /\ maxPodMetrics \in Nat \ {0} /\ None \notin Pod /\ None \notin Nat
      /\ X!Slot = 1 .. maxPodMetrics
  BY AgentIOAssumption DEF X!ConstantsOK, X!Slot
<1>3. /\ podMetrics' = [q \in Pod |-> IF q = p THEN 1
                                      ELSE IF q \in {old} \ {None} THEN None ELSE podMetrics[q]]
      /\ podCost' \subseteq (podCost \ ({old} \ {None})) \cup {p}
  BY AdmitEvicts
<1>4. /\ podRing' = [podRing EXCEPT ![podRingPos] = p]
      /\ podRingPos' = (podRingPos % maxPodMetrics) + 1
  BY DEF X!Admit
<1>5. podRingPos' = IF podRingPos = maxPodMetrics THEN 1 ELSE podRingPos + 1
  <2>1. podRingPos \in 1 .. maxPodMetrics
    BY <1>1 DEF RingInv
  <2> QED BY <1>1, <1>4, <2>1, NextSlot
<1>6. /\ podMetrics' \in [Pod -> Nat \cup {None}]
      /\ podRing' \in [X!Slot -> Pod \cup {None}]
      /\ podRingPos' \in X!Slot
  BY <1>1, <1>3, <1>4, <1>5 DEF RingInv
<1>7. X!Tracked' = (X!Tracked \ {old}) \cup {p}
  BY AdmitEvicts
<1>8. Filled' = Filled \cup {podRingPos}
  BY <1>1, <1>4 DEF Filled, RingInv
<1>9. \A i, j \in Filled' : podRing'[i] = podRing'[j] => i = j
  <2>1. \A i \in Filled : podRing[i] # p
    BY DEF RingInv, Filled
  <2> QED BY <1>1, <1>4, <1>8, <2>1 DEF RingInv
<1>10. X!Tracked' = {podRing'[i] : i \in X!Slot} \ {None}
  <2>1. ASSUME NEW i \in X!Slot, i # podRingPos
        PROVE  podRing'[i] = podRing[i] /\ (podRing[i] = old => old = None)
    BY <1>4, <2>1 DEF RingInv, Filled
  <2>2. podRing'[podRingPos] = p
    BY <1>4 DEF RingInv
  <2>3. ASSUME NEW x \in X!Tracked' PROVE x \in {podRing'[i] : i \in X!Slot} \ {None}
    BY <1>1, <1>7, <2>1, <2>2, <2>3 DEF RingInv
  <2>4. ASSUME NEW i \in X!Slot, podRing'[i] # None PROVE podRing'[i] \in X!Tracked'
    BY <1>1, <1>7, <2>1, <2>2, <2>4 DEF RingInv
  <2> QED BY <2>3, <2>4
<1>11. podCost' \subseteq X!Tracked'
  BY <1>1, <1>3, <1>7 DEF RingInv
<1>12. Filled' = X!Slot \/ Filled' = 1 .. podRingPos' - 1
  <2>1. CASE Filled = X!Slot
    BY <1>8, <2>1 DEF RingInv
  <2>2. CASE Filled = 1 .. podRingPos - 1 /\ podRingPos = maxPodMetrics
    BY <1>1, <1>8, <2>2
  <2>3. CASE Filled = 1 .. podRingPos - 1 /\ podRingPos # maxPodMetrics
    BY <1>1, <1>5, <1>8, <2>3 DEF RingInv
  <2> QED BY <2>1, <2>2, <2>3 DEF RingInv
<1> QED
  BY <1>6, <1>9, <1>10, <1>11, <1>12 DEF RingInv

LEMMA CountKeepsRingInv ==
    ASSUME RingInv, NEW p, X!CountPod(p) PROVE RingInv'
<1>1. CASE UNCHANGED X!podVars
  BY <1>1 DEF X!podVars, RingInv, Filled, X!Tracked
<1>2. CASE p \in X!Tracked /\ ~UNCHANGED X!podVars
  <2>1. /\ podMetrics' = [podMetrics EXCEPT ![p] = @ + 1]
        /\ podCost' \subseteq podCost \cup {p}
        /\ UNCHANGED <<podRing, podRingPos>>
    BY <1>2 DEF X!CountPod
  <2>2. None \notin Nat
    BY AgentIOAssumption DEF X!ConstantsOK
  <2>3. podMetrics' \in [Pod -> Nat \cup {None}] /\ X!Tracked' = X!Tracked
    BY <1>2, <2>1, <2>2 DEF X!Tracked, RingInv
  <2> QED BY <1>2, <2>1, <2>3 DEF RingInv, Filled
<1>3. CASE p \in Pod \ X!Tracked /\ X!Admit(p)
  BY <1>3, AdmitKeepsRingInv
<1> QED BY <1>1, <1>2, <1>3 DEF X!CountPod

LEMMA StepKeepsRingInv ==
    ASSUME RingInv, X!Next \/ UNCHANGED exporterVars PROVE RingInv'
<1>1. CASE UNCHANGED X!podVars
  BY <1>1 DEF X!podVars, RingInv, Filled, X!Tracked
<1>2. CASE X!FoldFlow
  BY <1>1, <1>2, CountKeepsRingInv DEF X!FoldFlow, X!Fold
<1>3. ASSUME ~X!FoldFlow PROVE UNCHANGED X!podVars
  BY <1>3 DEF X!Next, X!Poll, X!UpdateFromPoll, X!LockPods, X!EndPoll, X!Scrape,
     X!ScrapePods, X!ClientReads, exporterVars, X!podVars
<1> QED BY <1>1, <1>2, <1>3

LEMMA RingInitially ==
    ASSUME AgentIOInit PROVE RingInv
<1>1. maxPodMetrics \in Nat \ {0} /\ X!Slot = 1 .. maxPodMetrics
  BY AgentIOAssumption DEF X!ConstantsOK, X!Slot
<1>2. X!Tracked = {} /\ Filled = {}
  BY DEF AgentIOInit, X!Init, X!Tracked, Filled
<1> QED BY <1>1, <1>2 DEF AgentIOInit, X!Init, RingInv

\* For every capacity and every order in which pods appear, are evicted and
\* come back, UpdateFromPoll keeps the pod maps and the eviction ring in step:
\* no pod is tracked that the ring cannot evict, none has two slots, and no
\* cost is kept for an evicted pod.
THEOREM ExporterRingMatchesPods == AgentIOSpec => []RingMatchesPods
<1>1. AgentIOInit => RingInv
  BY RingInitially
<1>2. RingInv /\ [AgentIONext]_allVars => RingInv'
  BY PartSteps, StepKeepsRingInv
<1>3. RingInv => RingMatchesPods
  <2> SUFFICES ASSUME RingInv PROVE RingMatchesPods
    OBVIOUS
  <2>1. X!Cardinality(X!Tracked) = X!Cardinality({i \in X!Slot : podRing[i] # None})
    BY TrackedCount, SameCardinality DEF Filled
  <2> QED BY <2>1, Zenon DEF RingInv, RingMatchesPods, X!RingMatchesPods
<1> QED BY <1>1, <1>2, <1>3, PTL DEF AgentIOSpec

-----------------------------------------------------------------------------
(* UpdateFromPoll: the counters.                                            *)

TypeTotal == SumFunctionOnSet(bytesByType, TrafficType)
PodTotal == SumFunctionOnSet(podMetrics, X!Tracked)
Unfolded == IF polling = None THEN 0 ELSE Len(polling)

\* What was handed over is counted or waits in the batch, and the lock of the
\* poll is held only while there is one.
CountInv ==
    /\ RingInv
    /\ bytesByType \in [TrafficType -> Nat] /\ skipped \in Nat /\ total \in Nat
    /\ polling \in Seq(X!ClassifiedFlow) \cup {None}
    /\ podMu = "poll" => polling # None
    /\ TypeTotal + skipped = total - Unfolded
    /\ PodTotal <= TypeTotal

\* The instance's sum is the one the sum lemmas are about.
LEMMA SameSum ==
    ASSUME NEW F, NEW S PROVE X!SumFunctionOnSet(F, S) = SumFunctionOnSet(F, S)
BY DEF X!SumFunctionOnSet, X!FoldFunctionOnSet, X!MapThenFoldSet,
       SumFunctionOnSet, FoldFunctionOnSet, MapThenFoldSet

LEMMA ExporterConstants ==
    /\ None \notin Pod /\ None \notin Nat /\ None \notin Seq(X!ClassifiedFlow)
    /\ IsFiniteSet(TrafficType)
<1>1. X!IsFiniteSet(TrafficType) => IsFiniteSet(TrafficType)
  BY DEF X!IsFiniteSet, IsFiniteSet
<1> QED BY <1>1, AgentIOAssumption DEF X!ConstantsOK

LEMMA TrackedFacts ==
    ASSUME RingInv
    PROVE  /\ IsFiniteSet(X!Tracked) /\ Integral(podMetrics, X!Tracked)
           /\ \A p \in X!Tracked : podMetrics[p] \in Nat /\ p \in Pod
           /\ PodTotal \in Int
<1>1. IsFiniteSet(X!Tracked)
  <2>1. IsFiniteSet(X!Slot)
    BY AgentIOAssumption, FS_Interval DEF X!ConstantsOK, X!Slot
  <2>2. IsFiniteSet({podRing[i] : i \in X!Slot})
    <3> DEFINE f == [i \in X!Slot |-> podRing[i]]
    <3>1. f \in Surjection(X!Slot, {podRing[i] : i \in X!Slot})
      BY DEF Surjection
    <3> QED BY <2>1, <3>1, FS_Surjection
  <2> QED BY <2>2, FS_Subset DEF RingInv
<1>2. \A p \in X!Tracked : podMetrics[p] \in Nat /\ p \in Pod
  BY DEF RingInv, X!Tracked
<1>3. Integral(podMetrics, X!Tracked)
  BY <1>2 DEF Integral
<1> QED BY <1>1, <1>2, <1>3, SumInt DEF PodTotal

LEMMA TypesFacts ==
    ASSUME bytesByType \in [TrafficType -> Nat]
    PROVE  Integral(bytesByType, TrafficType) /\ TypeTotal \in Int
<1>1. Integral(bytesByType, TrafficType)
  BY DEF Integral
<1> QED BY <1>1, ExporterConstants, SumInt DEF TypeTotal

\* The pods together gain at most the flow's byte: an admission may take an
\* evicted pod's bytes out.
LEMMA PodGains ==
    ASSUME RingInv, NEW p \in Pod \cup {None}, X!CountPod(p)
    PROVE  PodTotal' <= PodTotal + 1 /\ PodTotal' \in Int
<1>1. /\ IsFiniteSet(X!Tracked) /\ Integral(podMetrics, X!Tracked) /\ PodTotal \in Int
      /\ \A q \in X!Tracked : podMetrics[q] \in Nat /\ q \in Pod
  BY TrackedFacts
<1>2. None \notin Pod /\ None \notin Nat
  BY ExporterConstants
<1>3. CASE UNCHANGED X!podVars
  BY <1>1, <1>3 DEF X!podVars, PodTotal, X!Tracked
<1>4. CASE p \in X!Tracked /\ podMetrics' = [podMetrics EXCEPT ![p] = @ + 1]
  <2>1. X!Tracked' = X!Tracked
    BY <1>1, <1>2, <1>4 DEF X!Tracked, RingInv
  <2>2. /\ podMetrics'[p] = podMetrics[p] + 1
        /\ \A q \in X!Tracked \ {p} : podMetrics[q] = podMetrics'[q]
    BY <1>1, <1>4 DEF RingInv
  <2>3. Integral(podMetrics', X!Tracked)
    BY <1>1, <1>4, <2>2 DEF Integral
  <2>4. SumFunctionOnSet(podMetrics', X!Tracked)
        = SumFunctionOnSet(podMetrics, X!Tracked) - podMetrics[p] + podMetrics'[p]
    <3> DEFINE S == X!Tracked
    <3>1. /\ IsFiniteSet(S) /\ Integral(podMetrics, S) /\ Integral(podMetrics', S) /\ p \in S
          /\ \A q \in S \ {p} : podMetrics[q] = podMetrics'[q]
      BY <1>1, <1>4, <2>2, <2>3
    <3> HIDE DEF S
    <3>2. SumFunctionOnSet(podMetrics', S) = SumFunctionOnSet(podMetrics, S) - podMetrics[p] + podMetrics'[p]
      BY <3>1, SumChange
    <3> QED BY <3>2 DEF S
  <2>5. PodTotal' = PodTotal - podMetrics[p] + (podMetrics[p] + 1)
    BY <2>1, <2>2, <2>4 DEF PodTotal
  <2>6. podMetrics[p] \in Nat
    BY <1>1, <1>4
  <2> QED BY <1>1, <2>5, <2>6
<1>5. CASE p \in Pod \ X!Tracked /\ X!Admit(p)
  <2> DEFINE old == podRing[podRingPos]
             S == X!Tracked \ {old}
  <2>1. /\ podMetrics' = [q \in Pod |-> IF q = p THEN 1
                              ELSE IF q \in {old} \ {None} THEN None ELSE podMetrics[q]]
        /\ X!Tracked' = S \cup {p}
    BY <1>5, AdmitEvicts
  <2>2. IsFiniteSet(S) /\ p \notin S /\ Integral(podMetrics, S)
    BY <1>1, <1>5, FS_Subset DEF Integral
  <2>3. podMetrics'[p] = 1 /\ \A q \in S : podMetrics'[q] = podMetrics[q]
    BY <1>1, <1>5, <2>1
  <2>4. Integral(podMetrics', S \cup {p}) /\ Integral(podMetrics', S)
    BY <2>2, <2>3 DEF Integral
  <2>5. SumFunctionOnSet(podMetrics, S) <= PodTotal /\ SumFunctionOnSet(podMetrics, S) \in Int
    <3>1. SumFunctionOnSet(podMetrics, S) \in Int
      BY <2>2, SumInt
    <3>2. CASE old \in X!Tracked
      <4>1. PodTotal = podMetrics[old] + SumFunctionOnSet(podMetrics, S)
        BY <1>1, <3>2, SumRemove DEF PodTotal
      <4>2. podMetrics[old] \in Nat
        BY <1>1, <3>2
      <4> QED BY <3>1, <4>1, <4>2
    <3>3. CASE old \notin X!Tracked
      <4>1. S = X!Tracked
        BY <3>3
      <4> QED BY <1>1, <3>1, <4>1 DEF PodTotal
    <3> QED BY <3>2, <3>3
  <2> HIDE DEF S
  <2>6. SumFunctionOnSet(podMetrics', S \cup {p}) = podMetrics'[p] + SumFunctionOnSet(podMetrics', S)
    BY <2>2, <2>4, SumAdd
  <2>7. SumFunctionOnSet(podMetrics', S) = SumFunctionOnSet(podMetrics, S)
    BY <2>2, <2>3, <2>4, SumSame
  <2>8. PodTotal' = 1 + SumFunctionOnSet(podMetrics, S)
    BY <2>1, <2>3, <2>6, <2>7 DEF PodTotal
  <2> QED BY <1>1, <2>5, <2>8
<1> QED BY <1>3, <1>4, <1>5 DEF X!CountPod

LEMMA FoldKeepsCountInv ==
    ASSUME CountInv, X!FoldFlow PROVE CountInv'
<1> DEFINE f == Head(polling)
<1>1. /\ podMu = "poll" /\ polling # <<>> /\ polling # None /\ X!Fold(f)
      /\ polling' = Tail(polling) /\ UNCHANGED <<podMu, total>>
  BY DEF X!FoldFlow, CountInv
<1>2. polling \in Seq(X!ClassifiedFlow)
  BY <1>1 DEF CountInv
<1>3. /\ polling' \in Seq(X!ClassifiedFlow) /\ Len(polling') = Len(polling) - 1
      /\ Len(polling) \in Nat /\ f \in X!ClassifiedFlow
  <2> DEFINE Flow == X!ClassifiedFlow
  <2>1. polling \in Seq(Flow)
    BY <1>2
  <2> HIDE DEF Flow
  <2>2. /\ Tail(polling) \in Seq(Flow) /\ Len(Tail(polling)) = Len(polling) - 1
        /\ Len(polling) \in Nat /\ Head(polling) \in Flow
    BY <1>1, <2>1
  <2> QED BY <1>1, <2>2 DEF Flow
<1>4. f.type \in TrafficType /\ f.pod \in Pod \cup {None} /\ f.sidecar \in BOOLEAN
  BY <1>3 DEF X!ClassifiedFlow
<1> HIDE DEF f
<1>5. Unfolded = Len(polling) /\ Unfolded' = Len(polling) - 1 /\ polling' # None
  BY <1>1, <1>3, ExporterConstants DEF Unfolded
<1>6. /\ RingInv /\ bytesByType \in [TrafficType -> Nat] /\ skipped \in Nat /\ total \in Nat
      /\ TypeTotal + skipped = total - Unfolded /\ PodTotal <= TypeTotal
  BY DEF CountInv
<1>7. /\ Integral(bytesByType, TrafficType) /\ TypeTotal \in Int /\ PodTotal \in Int
  BY <1>6, TypesFacts, TrackedFacts
<1>8. CASE f.sidecar
  <2>1. skipped' = skipped + 1 /\ UNCHANGED <<bytesByType, X!podVars>>
    BY <1>1, <1>8 DEF X!Fold
  <2>2. RingInv' /\ PodTotal' = PodTotal /\ TypeTotal' = TypeTotal
    BY <1>6, <2>1 DEF X!podVars, RingInv, Filled, X!Tracked, PodTotal, TypeTotal
  <2>3. TypeTotal' + skipped' = total' - Unfolded'
    BY <1>1, <1>3, <1>5, <1>6, <1>7, <2>1, <2>2
  <2> QED BY <1>1, <1>3, <1>5, <1>6, <2>1, <2>2, <2>3 DEF CountInv
<1>9. CASE ~f.sidecar
  <2>1. /\ bytesByType' = [bytesByType EXCEPT ![f.type] = @ + 1] /\ skipped' = skipped
        /\ X!CountPod(f.pod)
    BY <1>1, <1>9 DEF X!Fold
  <2>2. RingInv' /\ PodTotal' <= PodTotal + 1 /\ PodTotal' \in Int
    BY <1>4, <1>6, <2>1, CountKeepsRingInv, PodGains
  <2>3. /\ bytesByType' \in [TrafficType -> Nat]
        /\ bytesByType[f.type] \in Nat /\ bytesByType'[f.type] = bytesByType[f.type] + 1
        /\ \A t \in TrafficType \ {f.type} : bytesByType[t] = bytesByType'[t]
    BY <1>4, <1>6, <2>1
  <2>4. Integral(bytesByType', TrafficType)
    BY <2>3 DEF Integral
  <2>5. SumFunctionOnSet(bytesByType', TrafficType)
        = SumFunctionOnSet(bytesByType, TrafficType) - bytesByType[f.type] + bytesByType'[f.type]
    BY <1>4, <1>7, <2>3, <2>4, ExporterConstants, SumChange
  <2>6. TypeTotal' = TypeTotal - bytesByType[f.type] + (bytesByType[f.type] + 1)
    BY <2>3, <2>5 DEF TypeTotal
  <2>7. TypeTotal' = TypeTotal + 1
    BY <1>7, <2>3, <2>6
  <2>8. TypeTotal' + skipped' = total' - Unfolded'
    <3>1. total' = total /\ skipped' = skipped /\ Len(polling) \in Nat
      BY <1>1, <1>3, <2>1
    <3>2. /\ total \in Nat /\ skipped \in Nat /\ TypeTotal + skipped = total - Len(polling)
      BY <1>5, <1>6
    <3> QED BY <1>5, <1>7, <2>7, <3>1, <3>2
  <2>9. PodTotal' <= TypeTotal'
    BY <1>6, <1>7, <2>2, <2>7
  <2> QED BY <1>1, <1>3, <1>5, <1>6, <2>1, <2>2, <2>3, <2>8, <2>9 DEF CountInv
<1> QED BY <1>4, <1>8, <1>9

LEMMA StepKeepsCountInv ==
    ASSUME CountInv, X!Next \/ UNCHANGED exporterVars PROVE CountInv'
<1>1. RingInv'
  BY StepKeepsRingInv DEF CountInv
<1>2. CASE X!FoldFlow
  BY <1>2, FoldKeepsCountInv
<1>3. ASSUME UNCHANGED <<bytesByType, skipped, X!podVars>>
      PROVE  TypeTotal' = TypeTotal /\ PodTotal' = PodTotal
  BY <1>3 DEF X!podVars, X!Tracked, TypeTotal, PodTotal
<1>4. ASSUME NEW flows \in X!SeqOf(X!ClassifiedFlow, MaxBatch), X!UpdateFromPoll(flows)
      PROVE  CountInv'
  <2>1. /\ polling = None /\ polling' = flows /\ total' = total + Len(flows)
        /\ UNCHANGED <<bytesByType, skipped, X!podVars, podMu>>
    BY <1>4 DEF X!UpdateFromPoll
  <2>2. flows \in Seq(X!ClassifiedFlow)
    BY <1>4, AgentIOAssumption DEF X!SeqOf, X!ConstantsOK
  <2>3. Len(flows) \in Nat /\ flows # None
    BY <2>2, ExporterConstants
  <2>4. Unfolded = 0 /\ Unfolded' = Len(flows)
    BY <2>1, <2>3 DEF Unfolded
  <2>5. TypeTotal' = TypeTotal /\ PodTotal' = PodTotal /\ TypeTotal \in Int
    BY <1>3, <2>1, TypesFacts DEF CountInv
  <2> QED BY <1>1, <2>1, <2>2, <2>3, <2>4, <2>5 DEF CountInv
<1>5. CASE X!EndPoll
  <2>1. /\ podMu' = "free" /\ polling = <<>> /\ polling' = None /\ total' = total
        /\ UNCHANGED <<bytesByType, skipped, X!podVars>>
    BY <1>5 DEF X!EndPoll
  <2>2. Unfolded = 0 /\ Unfolded' = 0
    BY <2>1 DEF Unfolded
  <2>3. TypeTotal' = TypeTotal /\ PodTotal' = PodTotal
    BY <1>3, <2>1
  <2> QED BY <1>1, <2>1, <2>2, <2>3 DEF CountInv
<1>6. CASE X!LockPods \/ X!Scrape \/ X!ScrapePods \/ X!ClientReads \/ UNCHANGED exporterVars
  <2>1. /\ UNCHANGED <<bytesByType, skipped, X!podVars, polling, total>>
        /\ podMu' = "poll" => polling # None
    BY <1>6 DEF X!LockPods, X!Scrape, X!ScrapePods, X!ClientReads, exporterVars, X!podVars, CountInv
  <2>2. TypeTotal' = TypeTotal /\ PodTotal' = PodTotal /\ Unfolded' = Unfolded
    BY <1>3, <2>1 DEF Unfolded
  <2> QED BY <1>1, <2>1, <2>2 DEF CountInv
<1> QED BY <1>2, <1>4, <1>5, <1>6 DEF X!Next, X!Poll

\* UpdateFromPoll, for every set of traffic types and pods, every batch and
\* every order of evictions: a byte handed over is counted once, as internal to
\* a sidecar or under one traffic type, and the pods are charged no more.
THEOREM ExporterEachByteOnce == AgentIOSpec => []EachByteOneCounter
<1>1. AgentIOInit => CountInv
  <2> SUFFICES ASSUME AgentIOInit PROVE CountInv
    OBVIOUS
  <2>1. RingInv
    BY RingInitially
  <2>2. /\ bytesByType = [t \in TrafficType |-> 0] /\ skipped = 0 /\ total = 0
        /\ polling = None /\ podMu = "free" /\ X!Tracked = {}
    BY DEF AgentIOInit, X!Init, X!NoConns, X!Tracked
  <2>3. PodTotal = 0 /\ Unfolded = 0
    BY <2>2, SumEmpty DEF PodTotal, Unfolded
  <2>4. TypeTotal = 0
    <3>1. bytesByType \in [TrafficType -> Nat]
      BY <2>2
    <3>2. Integral(bytesByType, TrafficType) /\ TypeTotal \in Int
      BY <3>1, TypesFacts
    <3>3. TypeTotal = TypeTotal + TypeTotal
      BY <2>2, <3>2, ExporterConstants, SumPlus DEF TypeTotal
    <3> QED BY <3>2, <3>3
  <2> QED BY <2>1, <2>2, <2>3, <2>4 DEF CountInv
<1>2. CountInv /\ [AgentIONext]_allVars => CountInv'
  BY PartSteps, StepKeepsCountInv
<1>3. CountInv => EachByteOneCounter
  <2> SUFFICES ASSUME CountInv PROVE X!EachByteOneCounter
    BY DEF EachByteOneCounter
  <2>1. X!SumFunction(bytesByType) = TypeTotal
    BY SameSum DEF X!SumFunction, TypeTotal, CountInv
  <2>2. X!SumFunctionOnSet(podMetrics, X!Tracked) = PodTotal
    BY SameSum DEF PodTotal
  <2> QED BY <2>1, <2>2 DEF X!EachByteOneCounter, CountInv, Unfolded
<1> QED BY <1>1, <1>2, <1>3, PTL DEF AgentIOSpec

-----------------------------------------------------------------------------
(* subscribeWithDurableUpgrade.                                             *)

\* The faults the ladder has met by the time it reaches a rung: a refusal
\* costs none, but the upgrade it leads to can then only succeed or fail.
LadderInv ==
    /\ faults \in Nat
    /\ ladder = "upgrade" /\ ~Refused(TRUE) => faults >= 1
    /\ ladder = "retry" => cap = MaxDeliver
    /\ ladder = "fallback" => faults >= 1
    /\ ladder = "failed" => faults >= 2

LEMMA StepKeepsLadderInv ==
    ASSUME LadderInv, Next \/ UNCHANGED vars PROVE LadderInv'
<1>1. CASE UNCHANGED binding /\ faults' \in Nat /\ faults' >= faults
  BY <1>1 DEF binding, LadderInv, Refused
<1>2. CASE Attempt("down", TRUE, "upgrade")
  BY <1>2 DEF Attempt, SubscribeOk, Refused, Fault, LadderInv
<1>3. CASE Upgrade
  BY <1>3 DEF Upgrade, Refused, Fault, LadderInv
<1>4. CASE Attempt("retry", TRUE, "fallback")
  BY <1>4 DEF Attempt, SubscribeOk, Refused, Fault, LadderInv
<1>5. CASE Attempt("fallback", FALSE, "failed")
  BY <1>5 DEF Attempt, SubscribeOk, Refused, Fault, LadderInv
<1>6. CASE Restart \/ Crash
  BY <1>6 DEF Restart, Crash, Fault, LadderInv, Refused
<1>7. ASSUME ~Subscribe, ~Restart, ~Crash
      PROVE  UNCHANGED binding /\ faults' \in Nat /\ faults' >= faults
  <2>1. CASE \E m \in Msg : Publish(m) \/ Deliver(m) \/ AckWaitExpired(m)
    BY <2>1 DEF Publish, Deliver, AckWaitExpired, Fault, LadderInv
  <2>2. CASE Handle \/ PoisonTerm
    BY <2>2 DEF Handle, PoisonTerm, Settle, Fault, LadderInv
  <2>3. CASE Ack \/ Term \/ NakWithDelay
    BY <2>3 DEF Ack, Term, NakWithDelay, Settle, Fault, LadderInv
  <2>4. CASE UNCHANGED vars
    BY <2>4 DEF vars, LadderInv
  <2> QED BY <1>7, <2>1, <2>2, <2>3, <2>4 DEF Next, Process
<1> QED BY <1>1, <1>2, <1>3, <1>4, <1>5, <1>6, <1>7 DEF Subscribe

\* One failing request never keeps the subscriber from binding, whatever
\* durable it finds: Subscribe returns an error only after two failures.
THEOREM SubscriberLadderBinds == AgentIOSpec => []LadderBinds
<1>1. AgentIOInit => LadderInv
  BY DEF AgentIOInit, Init, LadderInv
<1>2. LadderInv /\ [AgentIONext]_allVars => LadderInv'
  BY PartSteps, StepKeepsLadderInv
<1>3. LadderInv => LadderBinds
  BY DEF LadderInv, LadderBinds
<1> QED BY <1>1, <1>2, <1>3, PTL DEF AgentIOSpec

-----------------------------------------------------------------------------
(* processMsg: settlements.                                                 *)

Received == [msg : Msg, n : Nat]

\* A batch that left the stream was handled or logged, and one with no cut
\* attempt is back in the stream only with deliveries to spare.
StreamOK(m) ==
    /\ status[m] = "gone" => m \in handled \cup logged
    /\ status[m] = "unsent" => delivered[m] = 0
    /\ m \notin cut /\ status[m] = "stored" => delivered[m] < MaxDeliver

\* A delivery waiting for the callback is the latest of its batch and the
\* server waits for it, unless an attempt of that batch was cut.
WaitingOK(d) ==
    d.msg \notin cut => status[d.msg] = "inflight" /\ d.n = delivered[d.msg]

SettleInv ==
    /\ status \in [Msg -> {"unsent", "stored", "inflight", "gone"}]
    /\ delivered \in [Msg -> Nat]
    /\ queue \in Seq(Received)
    /\ \A m \in Msg : StreamOK(m)
    /\ \A i \in 1 .. Len(queue) : WaitingOK(queue[i])
    /\ \A i, j \in 1 .. Len(queue) :
          queue[i].msg = queue[j].msg /\ queue[i].msg \notin cut => i = j
    /\ result # "none" => queue # <<>>
    /\ result = "ok" => Head(queue).msg \in handled

LEMMA QueueFacts ==
    ASSUME SettleInv
    PROVE  /\ Len(queue) \in Nat
           /\ \A i \in 1 .. Len(queue) : queue[i] \in Received /\ queue[i].msg \in Msg
           /\ queue # <<>> => Len(queue) >= 1 /\ Head(queue) = queue[1]
<1>1. queue \in Seq(Received)
  BY DEF SettleInv
<1>2. Len(queue) \in Nat /\ \A i \in 1 .. Len(queue) : queue[i] \in Received
  BY <1>1
<1>3. \A d \in Received : d.msg \in Msg
  BY DEF Received
<1>4. queue # <<>> => Len(queue) >= 1 /\ Head(queue) = queue[1]
  BY <1>1
<1> QED BY <1>2, <1>3, <1>4

LEMMA PublishKeepsSettleInv ==
    ASSUME SettleInv, NEW m \in Msg, Publish(m) PROVE SettleInv'
<1>1. /\ status[m] = "unsent" /\ delivered[m] = 0
      /\ UNCHANGED <<delivered, cut, queue, result, handled>>
      /\ logged \subseteq logged'
      /\ \/ status' = [status EXCEPT ![m] = "stored"]
         \/ status' = [status EXCEPT ![m] = "gone"] /\ m \in logged'
  BY DEF Publish, SettleInv, StreamOK
<1>2. status' \in [Msg -> {"unsent", "stored", "inflight", "gone"}]
  BY <1>1 DEF SettleInv
<1>3. ASSUME NEW k \in Msg PROVE StreamOK(k)'
  BY <1>1, DeliveryAssumption DEF SettleInv, StreamOK
<1>4. ASSUME NEW i \in 1 .. Len(queue) PROVE WaitingOK(queue[i])'
  BY <1>1, QueueFacts DEF SettleInv, WaitingOK
<1> QED BY <1>1, <1>2, <1>3, <1>4 DEF SettleInv

LEMMA DeliverKeepsSettleInv ==
    ASSUME SettleInv, NEW m \in Msg, Deliver(m) PROVE SettleInv'
<1> DEFINE e == [msg |-> m, n |-> delivered[m] + 1]
<1>1. e \in Received /\ e.msg = m /\ e.n = delivered[m] + 1
  BY DEF Received, SettleInv
<1> HIDE DEF e
<1>2. /\ queue' \in Seq(Received) /\ Len(queue') = Len(queue) + 1
      /\ Len(queue) \in Nat /\ queue'[Len(queue) + 1] = e
      /\ \A i \in 1 .. Len(queue) : queue'[i] = queue[i]
      /\ queue # <<>> => Head(queue') = Head(queue)
      /\ queue' # <<>>
  <2>1. queue' = Append(queue, e)
    BY DEF Deliver, e
  <2> QED BY <1>1, <2>1, AppendProperties, HeadTailAppend, QueueFacts DEF SettleInv
<1>3. /\ status' = [status EXCEPT ![m] = "inflight"]
      /\ delivered' = [delivered EXCEPT ![m] = @ + 1]
      /\ UNCHANGED <<cut, result, handled, logged>> /\ status[m] = "stored"
  BY DEF Deliver
<1>4. /\ status' \in [Msg -> {"unsent", "stored", "inflight", "gone"}]
      /\ delivered' \in [Msg -> Nat]
  BY <1>3 DEF SettleInv
<1>5. ASSUME NEW k \in Msg PROVE StreamOK(k)'
  BY <1>3 DEF SettleInv, StreamOK
<1>6. ASSUME NEW i \in 1 .. Len(queue) PROVE WaitingOK(queue[i])' /\ (queue[i].msg = m => m \in cut)
  <2>1. WaitingOK(queue[i]) /\ queue[i].msg \in Msg /\ queue'[i] = queue[i]
    BY <1>2, QueueFacts DEF SettleInv
  <2> QED BY <1>3, <2>1 DEF SettleInv, WaitingOK
<1>7. status'[e.msg] = "inflight" /\ e.n = delivered'[e.msg]
  BY <1>1, <1>3 DEF SettleInv
<1>8. ASSUME NEW i \in 1 .. Len(queue') PROVE WaitingOK(queue[i])'
  <2>1. CASE i \in 1 .. Len(queue)
    BY <1>6, <2>1
  <2>2. CASE i = Len(queue) + 1
    BY <1>2, <1>7, <2>2 DEF WaitingOK
  <2> QED BY <1>2, <2>1, <2>2
<1>9. ASSUME NEW i \in 1 .. Len(queue'), NEW j \in 1 .. Len(queue'),
             queue'[i].msg = queue'[j].msg, queue'[i].msg \notin cut'
      PROVE  i = j
  <2>1. CASE i \in 1 .. Len(queue) /\ j \in 1 .. Len(queue)
    <3>1. queue[i].msg = queue[j].msg /\ queue[i].msg \notin cut
      BY <1>2, <1>3, <1>9, <2>1
    <3> QED BY <2>1, <3>1 DEF SettleInv
  <2>2. CASE i \in 1 .. Len(queue) /\ j = Len(queue) + 1
    BY <1>1, <1>2, <1>3, <1>6, <1>9, <2>2
  <2>3. CASE i = Len(queue) + 1 /\ j \in 1 .. Len(queue)
    BY <1>1, <1>2, <1>3, <1>6, <1>9, <2>3
  <2>4. CASE i = Len(queue) + 1 /\ j = Len(queue) + 1
    BY <2>4
  <2> QED BY <1>2, <2>1, <2>2, <2>3, <2>4
<1> QED BY <1>2, <1>3, <1>4, <1>5, <1>8, <1>9 DEF SettleInv

LEMMA ExpiryKeepsSettleInv ==
    ASSUME SettleInv, NEW m \in Msg, AckWaitExpired(m) PROVE SettleInv'
<1>1. /\ status' = [status EXCEPT ![m] = "stored"] /\ status[m] = "inflight"
      /\ cut' = cut \cup {m}
      /\ UNCHANGED <<delivered, queue, result, handled, logged>>
  BY DEF AckWaitExpired
<1>2. status' \in [Msg -> {"unsent", "stored", "inflight", "gone"}]
  BY <1>1 DEF SettleInv
<1>3. ASSUME NEW k \in Msg PROVE StreamOK(k)'
  BY <1>1 DEF SettleInv, StreamOK
<1>4. ASSUME NEW i \in 1 .. Len(queue) PROVE WaitingOK(queue[i])'
  BY <1>1, QueueFacts DEF SettleInv, WaitingOK
<1> QED BY <1>1, <1>2, <1>3, <1>4 DEF SettleInv
\* A verdict on the head, whether or not it reaches the server.  Only a nak
\* puts its batch back, and only a handled or logged batch is taken away.
LEMMA VerdictKeepsSettleInv ==
    ASSUME SettleInv, queue # <<>>, Done, NEW to,
           Settle(Head(queue).msg, to), UNCHANGED <<delivered, handled>>,
           logged \subseteq logged',
           \/ to = "gone" /\ Head(queue).msg \in handled \cup logged'
           \/ to = "stored" /\ Head(queue).n < MaxDeliver
    PROVE  SettleInv'
<1> DEFINE m == Head(queue).msg
<1>1. m \in Msg /\ Head(queue) = queue[1] /\ 1 \in 1 .. Len(queue) /\ WaitingOK(queue[1])
  BY QueueFacts DEF SettleInv
<1>2. m \notin cut => status[m] = "inflight" /\ delivered[m] = Head(queue).n
  BY <1>1 DEF WaitingOK
<1> DEFINE settled == IF status[m] = "gone" \/ (to = "stored" /\ status[m] # "inflight")
                      THEN status[m] ELSE to
<1>3. \/ status' = [status EXCEPT ![m] = settled] /\ cut' = cut
      \/ status' = status /\ cut' = cut \cup {m}
  BY DEF Settle
<1>4. settled \in {status[m], to} /\ to \in {"gone", "stored"}
  OBVIOUS
<1>5. /\ status' \in [Msg -> {"unsent", "stored", "inflight", "gone"}]
      /\ \A k \in Msg \ {m} : status'[k] = status[k] /\ (k \in cut' <=> k \in cut)
      /\ cut \subseteq cut'
  BY <1>1, <1>3, <1>4 DEF SettleInv
<1>6. ASSUME NEW k \in Msg PROVE StreamOK(k)'
  <2>1. StreamOK(k) /\ delivered' = delivered /\ handled' = handled
    BY DEF SettleInv
  <2>2. CASE k # m
    BY <1>5, <2>1, <2>2 DEF StreamOK
  <2>3. CASE k = m /\ m \in cut'
    <3>1. status'[m] \in {status[m], settled}
      BY <1>1, <1>3 DEF SettleInv
    <3> QED BY <2>1, <2>3, <3>1 DEF StreamOK
  <2>4. CASE k = m /\ m \notin cut'
    <3>1. status'[m] = to
      BY <1>1, <1>2, <1>3, <2>4 DEF SettleInv
    <3> QED BY <1>2, <1>5, <2>1, <2>4, <3>1 DEF StreamOK
  <2> QED BY <2>2, <2>3, <2>4
<1>7. /\ queue' \in Seq(Received) /\ Len(queue) \in Nat /\ Len(queue') = Len(queue) - 1
      /\ \A i \in 1 .. Len(queue') : i + 1 \in 1 .. Len(queue) /\ queue'[i] = queue[i + 1]
  <2>1. queue' = Tail(queue)
    BY DEF Done
  <2> QED BY <2>1, HeadTailProperties, QueueFacts DEF SettleInv
<1>8. ASSUME NEW i \in 1 .. Len(queue') PROVE WaitingOK(queue[i])'
  <2>1. /\ i + 1 \in 1 .. Len(queue) /\ i + 1 # 1 /\ queue'[i] = queue[i + 1]
        /\ WaitingOK(queue[i + 1]) /\ queue[i + 1].msg \in Msg
    BY <1>7, QueueFacts DEF SettleInv
  <2>2. queue[i + 1].msg = m => m \in cut
    BY <1>1, <2>1 DEF SettleInv
  <2> QED BY <1>5, <2>1, <2>2 DEF WaitingOK
<1>9. ASSUME NEW i \in 1 .. Len(queue'), NEW j \in 1 .. Len(queue'),
             queue'[i].msg = queue'[j].msg, queue'[i].msg \notin cut'
      PROVE  i = j
  <2>1. /\ i + 1 \in 1 .. Len(queue) /\ j + 1 \in 1 .. Len(queue)
        /\ queue[i + 1].msg = queue[j + 1].msg /\ queue[i + 1].msg \notin cut
    BY <1>5, <1>7, <1>9
  <2>2. i + 1 = j + 1
    BY <2>1 DEF SettleInv
  <2> QED BY <1>7, <2>2
<1>10. result' = "none"
  BY DEF Done
<1> QED BY <1>5, <1>6, <1>7, <1>8, <1>9, <1>10 DEF SettleInv

LEMMA ProcessKeepsSettleInv ==
    ASSUME SettleInv, Process PROVE SettleInv'
<1>1. CASE Handle
  <2>1. /\ queue # <<>> /\ handled \subseteq handled'
        /\ result' = "ok" => Head(queue).msg \in handled'
        /\ UNCHANGED <<status, delivered, cut, queue, logged>>
    BY <1>1 DEF Handle, server
  <2>2. ASSUME NEW k \in Msg PROVE StreamOK(k)'
    BY <2>1 DEF SettleInv, StreamOK
  <2>3. ASSUME NEW i \in 1 .. Len(queue) PROVE WaitingOK(queue[i])'
    BY <2>1 DEF SettleInv, WaitingOK
  <2> QED BY <2>1, <2>2, <2>3 DEF SettleInv
<1>2. CASE PoisonTerm
  BY <1>2, VerdictKeepsSettleInv DEF PoisonTerm
<1>3. CASE Ack
  BY <1>3, VerdictKeepsSettleInv DEF Ack, SettleInv
<1>4. CASE Term
  BY <1>4, VerdictKeepsSettleInv DEF Term, SettleInv
<1>5. CASE NakWithDelay
  <2>1. queue # <<>> /\ Head(queue).n \in Nat
    BY <1>5, QueueFacts DEF NakWithDelay, SettleInv, Received
  <2>2. Head(queue).n < MaxDeliver
    BY <1>5, <2>1, DeliveryAssumption DEF NakWithDelay, GivesUp
  <2> QED BY <1>5, <2>1, <2>2, VerdictKeepsSettleInv DEF NakWithDelay
<1> QED BY <1>1, <1>2, <1>3, <1>4, <1>5 DEF Process

\* A crash forgets the deliveries the client had; the server's side of them
\* stays in flight until the ack wait cuts them.
LEMMA CrashKeepsSettleInv ==
    ASSUME SettleInv, Crash PROVE SettleInv'
<1>1. /\ queue' = <<>> /\ result' = "none"
      /\ UNCHANGED <<status, delivered, cut, handled, logged>>
  BY DEF Crash, server
<1>2. queue' \in Seq(Received) /\ Len(queue') = 0
  BY <1>1
<1>3. ASSUME NEW k \in Msg PROVE StreamOK(k)'
  BY <1>1 DEF SettleInv, StreamOK
<1> QED BY <1>1, <1>2, <1>3 DEF SettleInv

LEMMA StepKeepsSettleInv ==
    ASSUME SettleInv, Next \/ UNCHANGED vars PROVE SettleInv'
<1>1. CASE UNCHANGED <<server, queue, result, handled, logged>>
  <2>1. ASSUME NEW k \in Msg PROVE StreamOK(k)'
    BY <1>1 DEF SettleInv, StreamOK, server
  <2>2. ASSUME NEW i \in 1 .. Len(queue) PROVE WaitingOK(queue[i])'
    BY <1>1 DEF SettleInv, WaitingOK, server
  <2> QED BY <1>1, <2>1, <2>2 DEF SettleInv, server
<1>2. CASE Subscribe \/ Restart \/ UNCHANGED vars
  BY <1>1, <1>2 DEF Subscribe, Attempt, Upgrade, Restart, vars
<1>3. CASE \E m \in Msg : Publish(m) \/ Deliver(m) \/ AckWaitExpired(m)
  BY <1>3, PublishKeepsSettleInv, DeliverKeepsSettleInv, ExpiryKeepsSettleInv
<1>4. CASE Process \/ Crash
  BY <1>4, ProcessKeepsSettleInv, CrashKeepsSettleInv
<1> QED BY <1>2, <1>3, <1>4 DEF Next

\* Deliveries are made under a cap lower than the configured one only after the
\* ladder's last rung, which logs it.
CapInv ==
    /\ cap \in Nat \cup {Absent} /\ delivered \in [Msg -> Nat]
    /\ cap \in 1 .. MaxDeliver - 1 =>
          (ladder # "bound" /\ \A m \in Msg : delivered[m] = 0) \/ cap \in warned

LEMMA StepKeepsCapInv ==
    ASSUME CapInv, Next \/ UNCHANGED vars PROVE CapInv'
<1>1. CASE Attempt("down", TRUE, "upgrade") \/ Attempt("retry", TRUE, "fallback")
  BY <1>1, DeliveryAssumption DEF Attempt, SubscribeOk, Refused, server, CapInv, Unlimited, Absent
<1>2. CASE Attempt("fallback", FALSE, "failed")
  <2>1. CASE ladder' = "bound"
    BY <1>2, <2>1 DEF Attempt, SubscribeOk, server, CapInv, Unlimited, Absent
  <2>2. CASE ladder' # "bound"
    BY <1>2, <2>2 DEF Attempt, server, CapInv
  <2> QED BY <2>1, <2>2
<1>3. CASE Upgrade
  BY <1>3, DeliveryAssumption DEF Upgrade, server, CapInv, Absent
<1>4. CASE Restart \/ Crash
  BY <1>4 DEF Restart, Crash, server, CapInv
<1>5. CASE \E m \in Msg : Deliver(m)
  <2>1. PICK m \in Msg : Deliver(m)
    BY <1>5
  <2>2. /\ UNCHANGED <<cap, warned, ladder>> /\ ladder = "bound"
        /\ delivered' \in [Msg -> Nat]
    BY <2>1 DEF Deliver, binding, CapInv
  <2> QED BY <2>2 DEF CapInv
<1>6. ASSUME ~Subscribe, ~Restart, ~Crash, ~\E m \in Msg : Deliver(m)
      PROVE  UNCHANGED <<binding, delivered>>
  <2>1. CASE \E m \in Msg : Publish(m) \/ AckWaitExpired(m)
    BY <2>1 DEF Publish, AckWaitExpired
  <2>2. CASE Process
    BY <2>2 DEF Process, Handle, PoisonTerm, Ack, Term, NakWithDelay, server
  <2>3. CASE UNCHANGED vars
    BY <2>3 DEF vars, server
  <2> QED BY <1>6, <2>1, <2>2, <2>3 DEF Next
<1>7. CASE UNCHANGED <<binding, delivered>>
  BY <1>7 DEF binding, CapInv
<1> QED BY <1>1, <1>2, <1>3, <1>4, <1>5, <1>6, <1>7 DEF Subscribe

\* For every number of batches, deliveries, faults and caps: a batch that will
\* never be handled was logged by processMsg or the publisher, or was stored
\* before this code created the consumer, or one of its attempts was cut short (a
\* crash, an expired ack wait, a lost verdict), or the consumer's own cap is below
\* the configured one and the ladder has logged that it could not change it.
THEOREM SubscriberLossExplained == AgentIOSpec => []LossExplained
<1>1. AgentIOInit => SettleInv /\ CapInv
  <2> SUFFICES ASSUME AgentIOInit PROVE SettleInv /\ CapInv
    OBVIOUS
  <2>1. queue \in Seq(Received) /\ Len(queue) = 0
    BY DEF AgentIOInit, Init
  <2>2. SettleInv
    BY <2>1 DEF AgentIOInit, Init, SettleInv, StreamOK
  <2>3. CapInv
    BY DeliveryAssumption DEF AgentIOInit, Init, CapInv, Absent
  <2> QED BY <2>2, <2>3
<1>2. SettleInv /\ CapInv /\ [AgentIONext]_allVars => (SettleInv /\ CapInv)'
  BY PartSteps, StepKeepsSettleInv, StepKeepsCapInv
<1>3. ASSUME SettleInv, CapInv, NEW m \in Msg, Dropped(m),
             m \notin logged, m \notin missed, m \notin cut
      PROVE  LowCapLogged
  <2>1. status[m] = "stored" /\ Exhausted(m) /\ delivered[m] < MaxDeliver
    BY <1>3 DEF SettleInv, StreamOK, Dropped, Settled
  <2>2. delivered[m] \in Nat /\ cap \in 1 .. delivered[m]
    BY <1>3, <2>1 DEF CapInv, Exhausted, Unlimited, Absent
  <2> QED BY <1>3, <2>1, <2>2, DeliveryAssumption DEF CapInv, LowCapLogged
<1>4. SettleInv /\ CapInv => LossExplained
  BY <1>3 DEF LossExplained
<1> QED BY <1>1, <1>2, <1>4, PTL DEF AgentIOSpec
=============================================================================
