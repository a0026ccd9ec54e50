------------------------------- MODULE MCAgentIO -------------------------------
(***************************************************************************)
(* What the data path is connected to: the kernel at start-up (Loader),    *)
(* the metrics endpoint (Exporter) and the subscriber of the batches the   *)
(* agent publishes (Delivery).  They run one after the other or in other   *)
(* processes and share no variable, so `subject' picks the one that moves. *)
(***************************************************************************)
EXTENDS Delivery

CONSTANTS
    MaxRemovals,                                                \* Loader
    TrafficType, Pod, maxPodMetrics, MaxBatch, MaxFlows, None   \* Exporter

VARIABLES
    subject,
    kernel, step, progs, removals, links, config, dns, cause,   \* Loader
    bytesByType, connsByType, skipped, podMetrics, podCost, podRing, podRingPos,
    podMu, polling, scraping, total                             \* Exporter

L == INSTANCE Loader
X == INSTANCE Exporter

ASSUME AgentIOAssumption == L!ConstantsOK /\ X!ConstantsOK

loaderVars == <<kernel, step, progs, removals, links, config, dns, cause>>
exporterVars == <<bytesByType, connsByType, skipped, podMetrics, podCost, podRing,
                  podRingPos, podMu, polling, scraping, total>>
allVars == <<subject, vars, loaderVars, exporterVars>>

\* A part that stays out has one initial state.
AgentIOInit ==
    /\ subject \in {"loader", "exporter", "delivery"}
    /\ Init /\ L!Init /\ X!Init
    /\ subject # "loader" => kernel = [fentry |-> FALSE, tcx |-> FALSE, trackUDP |-> FALSE]
    /\ subject # "delivery" => cap = Absent

AgentIONext ==
    /\ \/ subject = "loader" /\ L!Next /\ UNCHANGED <<vars, exporterVars>>
       \/ subject = "exporter" /\ X!Next /\ UNCHANGED <<vars, loaderVars>>
       \/ subject = "delivery" /\ Next /\ UNCHANGED <<loaderVars, exporterVars>>
    /\ UNCHANGED subject

LoaderStep(A) == subject = "loader" /\ A /\ UNCHANGED <<subject, vars, exporterVars>>
ExporterStep(A) == subject = "exporter" /\ A /\ UNCHANGED <<subject, vars, loaderVars>>
DeliveryStep(A) == subject = "delivery" /\ A /\ UNCHANGED <<subject, loaderVars, exporterVars>>

\* Each part's own fairness: Start runs to its end; the poll loop runs whenever
\* it can and a mutex goes to its waiter, but clients may stall; a live server
\* delivers and times out, a live client processes and subscribes.
AgentIOSpec ==
    /\ AgentIOInit /\ [][AgentIONext]_allVars
    /\ WF_allVars(LoaderStep(L!Start))
    /\ WF_allVars(ExporterStep(X!FoldFlow)) /\ WF_allVars(ExporterStep(X!EndPoll))
    /\ SF_allVars(ExporterStep(X!LockPods))
    /\ \A m \in Msg : /\ WF_allVars(DeliveryStep(Deliver(m)))
                      /\ WF_allVars(DeliveryStep(AckWaitExpired(m)))
    /\ WF_allVars(DeliveryStep(Process)) /\ WF_allVars(DeliveryStep(Subscribe))
    /\ WF_allVars(DeliveryStep(Restart))

-----------------------------------------------------------------------------
\* Loader!OneCounterPerByte: no kernel function ever has two recording programs.
OneCounterPerByte == L!OneCounterPerByte

\* Loader!RunningMeasures: an agent that runs observes connections and counts
\* both TCP directions.
RunningMeasures == L!RunningMeasures

\* Loader!StartEnds: Start ends, however many programs the verifier rejects.
StartEnds == subject = "loader" => L!StartEnds

\* Exporter!RingMatchesPods: the tracked pods are exactly the ring's.
RingMatchesPods == X!RingMatchesPods

\* Exporter!EachByteOneCounter: every byte is sidecar-internal or of one type.
EachByteOneCounter == X!EachByteOneCounter

\* Exporter!PollCompletes: a poll that began ends, unless a client stops reading
\* for good in the middle of a scrape.
PollCompletes == subject = "exporter" => X!PollCompletes

\* Delivery!EventuallySettled: every batch in the stream is settled in the end.
BatchesSettled == subject = "delivery" => EventuallySettled
=============================================================================
