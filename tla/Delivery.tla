------------------------------- MODULE Delivery -------------------------------
(***************************************************************************)
(* pkg/nats: flow batches from the agent through a JetStream work queue    *)
(* (external) to a subscriber that acknowledges, naks with a delay or      *)
(* terminates each one, and binds its durable consumer by a ladder of      *)
(* attempts.  The server redelivers what is not settled, up to the         *)
(* consumer's own max_deliver if it has one, which need not be the         *)
(* configured one; a new consumer gets only what is published after it.    *)
(* Verdicts may be lost, the subscriber may crash, and a handler may       *)
(* outlast the ack wait.                                                   *)
(***************************************************************************)
EXTENDS Integers, Sequences, FiniteSetsExt

CONSTANTS
    Msg, Poison,            \* batches; the ones that do not unmarshal
    MaxDeliver,             \* SubscriberConfig.MaxDeliver
    OldCaps,                \* caps an older release or setting may have left
    NakBaseDelay, NakMaxDelay,
    MaxFaults               \* bound: crashes, lost verdicts, timeouts, errors

ASSUME DeliveryAssumption ==
    /\ Poison \subseteq Msg /\ MaxDeliver \in Nat \ {0} /\ MaxFaults \in Nat
    /\ OldCaps \subseteq Nat
    /\ NakBaseDelay \in Nat \ {0} /\ NakMaxDelay \in Nat \ {0}

VARIABLES
    cap,            \* max_deliver of the durable consumer: Absent if there is no
                    \* durable, Unlimited if it has no cap
    ownDurable,     \* this code created the durable
    ladder,         \* where subscribeWithDurableUpgrade is
    warned,         \* caps with which subscribe(false) bound, each logged
    missed,         \* batches stored before the durable was created
    status,         \* server: the batch is "unsent", "stored", "inflight", "gone"
    delivered,      \* server: deliveries of the batch so far
    queue,          \* client: deliveries waiting for the callback, oldest first
    result,         \* what the handler said of the head: "none", "ok", "failed"
    delay,          \* the delay of the last nak
    handled, logged, \* batches the handler accepted; drops that were logged
    cut,            \* batches with an attempt whose verdict never arrived
    faults

server == <<status, delivered, delay, cut>>
binding == <<cap, ownDurable, ladder, warned, missed>>
vars == <<binding, server, queue, result, handled, logged, faults>>

Ladder == {"down", "upgrade", "retry", "fallback", "bound", "failed"}

Unlimited == 0
Absent == -1

\* Types; client-side deliveries carry the count the server stamped on them.
TypeOK ==
    /\ cap \in Nat \cup {Absent} /\ ownDurable \in BOOLEAN
    /\ ladder \in Ladder /\ warned \subseteq Nat /\ missed \subseteq Msg
    /\ status \in [Msg -> {"unsent", "stored", "inflight", "gone"}]
    /\ delivered \in [Msg -> Nat]
    /\ queue \in Seq([msg : Msg, n : Nat \ {0}])
    /\ result \in {"none", "ok", "failed"}
    /\ delay \in [Msg -> 0 .. NakMaxDelay]
    /\ handled \subseteq Msg /\ logged \subseteq Msg /\ cut \subseteq Msg
    /\ faults \in 0 .. MaxFaults

Init ==
    /\ cap \in OldCaps \cup {Absent} /\ ownDurable = FALSE
    /\ ladder = "down" /\ warned = {} /\ missed = {}
    /\ status = [m \in Msg |-> "unsent"]
    /\ delivered = [m \in Msg |-> 0]
    /\ queue = <<>> /\ result = "none"
    /\ delay = [m \in Msg |-> 0]
    /\ handled = {} /\ logged = {} /\ cut = {}
    /\ faults = 0

Fault == faults < MaxFaults /\ faults' = faults + 1

-----------------------------------------------------------------------------
(* The stream (external).                                                    *)

\* Publish; a failed publish is logged by the agent and the batch dropped.
Publish(m) ==
    /\ status[m] = "unsent"
    /\ \/ status' = [status EXCEPT ![m] = "stored"] /\ UNCHANGED <<logged, faults>>
       \/ Fault /\ status' = [status EXCEPT ![m] = "gone"] /\ logged' = logged \cup {m}
    /\ UNCHANGED <<binding, delivered, delay, cut, queue, result, handled>>

Exhausted(m) == cap \notin {Absent, Unlimited} /\ delivered[m] >= cap

Deliver(m) ==
    /\ ladder = "bound" /\ status[m] = "stored" /\ m \notin missed /\ ~Exhausted(m)
    /\ status' = [status EXCEPT ![m] = "inflight"]
    /\ delivered' = [delivered EXCEPT ![m] = @ + 1]
    /\ queue' = Append(queue, [msg |-> m, n |-> delivered[m] + 1])
    /\ UNCHANGED <<binding, delay, cut, result, handled, logged, faults>>

\* The ack wait of an unsettled delivery runs out; that is a fault only while
\* the client still works on it.
AckWaitExpired(m) ==
    /\ status[m] = "inflight"
    /\ IF \E i \in DOMAIN queue : queue[i].msg = m THEN Fault ELSE UNCHANGED faults
    /\ status' = [status EXCEPT ![m] = "stored"]
    /\ cut' = cut \cup {m}
    /\ UNCHANGED <<binding, delivered, delay, queue, result, handled, logged>>

\* The settlement of m reaches the server, or is lost.
Settle(m, to) ==
    \/ status' = [status EXCEPT ![m] = IF @ = "gone" \/ (to = "stored" /\ @ # "inflight")
                                       THEN @ ELSE to]
       /\ UNCHANGED <<cut, faults>>
    \/ Fault /\ cut' = cut \cup {m} /\ UNCHANGED status

-----------------------------------------------------------------------------
(* processMsg: the handler, then the verdict on the head of the queue.       *)

Handle ==
    /\ queue # <<>> /\ result = "none" /\ Head(queue).msg \notin Poison
    /\ result' \in {"ok", "failed"}
    /\ handled' = IF result' = "ok" THEN handled \cup {Head(queue).msg} ELSE handled
    /\ UNCHANGED <<binding, server, queue, logged, faults>>

\* The loop of nakDelay: it stops at the first doubling that reaches the cap.
nakDelay(n) ==
    LET loop[i \in 1 .. n] ==
            IF i = 1 THEN NakBaseDelay
            ELSE IF 2 * loop[i - 1] >= NakMaxDelay THEN NakMaxDelay
            ELSE 2 * loop[i - 1]
    IN  IF loop[n] > NakMaxDelay THEN NakMaxDelay ELSE loop[n]

\* Mutant: gives up one delivery late.
GivesUpLate(n) == n > MaxDeliver

GivesUp(n) == n >= MaxDeliver

Done == queue' = Tail(queue) /\ result' = "none"

\* Mutant: a batch that does not unmarshal is tried again in the callback.
PoisonRetried ==
    /\ queue # <<>> /\ Head(queue).msg \in Poison
    /\ logged' = logged \cup {Head(queue).msg}
    /\ UNCHANGED <<binding, server, queue, result, handled, faults>>

\* A batch that does not unmarshal is terminated.
PoisonTerm ==
    /\ queue # <<>> /\ Head(queue).msg \in Poison
    /\ logged' = logged \cup {Head(queue).msg}
    /\ Settle(Head(queue).msg, "gone")
    /\ Done /\ UNCHANGED <<binding, delivered, delay, handled>>

Ack ==
    /\ result = "ok"
    /\ Settle(Head(queue).msg, "gone")
    /\ Done /\ UNCHANGED <<binding, delivered, delay, handled, logged>>

Term ==
    /\ result = "failed" /\ GivesUp(Head(queue).n)
    /\ logged' = logged \cup {Head(queue).msg}
    /\ Settle(Head(queue).msg, "gone")
    /\ Done /\ UNCHANGED <<binding, delivered, delay, handled>>

NakWithDelay ==
    /\ result = "failed" /\ ~GivesUp(Head(queue).n)
    /\ delay' = [delay EXCEPT ![Head(queue).msg] = nakDelay(Head(queue).n)]
    /\ Settle(Head(queue).msg, "stored")
    /\ Done /\ UNCHANGED <<binding, delivered, handled, logged>>

\* The process dies; what it had received is lost with it.
Crash ==
    /\ Fault
    /\ ladder' = "down"
    /\ queue' = <<>> /\ result' = "none"
    /\ UNCHANGED <<cap, ownDurable, warned, missed, server, handled, logged>>

-----------------------------------------------------------------------------
(* subscribeWithDurableUpgrade.                                              *)

\* One subscribe call.  A missing durable is created, with DeliverNew: what the
\* stream already holds is not for it.  One that is there is bound as it is,
\* but refused when a cap is requested and it has another.
SubscribeOk(capped) ==
    IF cap # Absent THEN UNCHANGED <<cap, ownDurable, missed>>
    ELSE /\ ownDurable' = TRUE
         /\ cap' = IF capped THEN MaxDeliver ELSE Unlimited
         /\ missed' = {m \in Msg : status[m] = "stored"}

Refused(capped) == capped /\ cap \notin {Absent, MaxDeliver}

\* An attempt binds, is refused, or its request fails; a bind without the cap
\* is logged as an error.
Attempt(from, capped, failure) ==
    /\ ladder = from
    /\ \/ /\ ~Refused(capped) /\ SubscribeOk(capped)
          /\ warned' = IF capped THEN warned ELSE warned \cup {cap'}
          /\ ladder' = "bound" /\ UNCHANGED faults
       \/ /\ IF Refused(capped) THEN UNCHANGED faults ELSE Fault
          /\ ladder' = failure /\ UNCHANGED <<cap, ownDurable, warned, missed>>
    /\ UNCHANGED <<server, queue, result, handled, logged>>

\* upgradeDurableMaxDeliver gives up when the consumer is missing or has the
\* configured cap already, or when a request fails; otherwise it sets the cap.
Upgrade ==
    /\ ladder = "upgrade"
    /\ IF cap \notin {Absent, MaxDeliver}
       THEN \/ cap' = MaxDeliver /\ ladder' = "retry" /\ UNCHANGED faults
            \/ Fault /\ ladder' = "fallback" /\ UNCHANGED cap
       ELSE ladder' = "fallback" /\ UNCHANGED <<cap, faults>>
    /\ UNCHANGED <<ownDurable, warned, missed, server, queue, result, handled, logged>>

\* Mutant: no attempt without the cap.
SubscribeNoFallback ==
    \/ Attempt("down", TRUE, "upgrade")
    \/ Upgrade
    \/ Attempt("retry", TRUE, "failed")
    \/ ladder = "fallback" /\ ladder' = "failed"
          /\ UNCHANGED <<cap, ownDurable, warned, missed>>
          /\ UNCHANGED <<server, queue, result, handled, logged, faults>>

Subscribe ==
    \/ Attempt("down", TRUE, "upgrade")
    \/ Upgrade
    \/ Attempt("retry", TRUE, "fallback")
    \/ Attempt("fallback", FALSE, "failed")

\* The process is restarted after a failed Subscribe.
Restart ==
    /\ ladder = "failed" /\ ladder' = "down"
    /\ UNCHANGED <<cap, ownDurable, warned, missed>>
    /\ UNCHANGED <<server, queue, result, handled, logged, faults>>

Process == Handle \/ PoisonTerm \/ Ack \/ Term \/ NakWithDelay

Next ==
    \/ \E m \in Msg : Publish(m) \/ Deliver(m) \/ AckWaitExpired(m)
    \/ Process \/ Crash \/ Subscribe \/ Restart

\* A live server delivers and times out, a live client processes and subscribes.
Fairness ==
    /\ \A m \in Msg : WF_vars(Deliver(m)) /\ WF_vars(AckWaitExpired(m))
    /\ WF_vars(Process) /\ WF_vars(Subscribe) /\ WF_vars(Restart)

Spec == Init /\ [][Next]_vars /\ Fairness

-----------------------------------------------------------------------------
Settled(m) == status[m] = "gone" \/ (status[m] = "stored" /\ Exhausted(m))

\* m was never handled and, with the consumer as it is, never will be.
Dropped(m) ==
    /\ Settled(m) \/ m \in missed
    /\ m \notin handled /\ \A i \in DOMAIN queue : queue[i].msg # m

\* The consumer stops before processMsg does, and the ladder has said so.
LowCapLogged == cap \in 1 .. MaxDeliver - 1 /\ cap \in warned

\* processMsg, DeliverNew and the server-side cap: a batch that is never handled
\* has a log line of its own, was in the stream before the consumer was made, or
\* an attempt's verdict never arrived; or the consumer has a lower cap than the
\* configured one, and then the ladder has logged that it bound without it.
LossExplained ==
    \A m \in Msg : Dropped(m) =>
        m \in logged \/ m \in missed \/ m \in cut \/ LowCapLogged

\* subscribeWithDurableUpgrade: one failing request never halts ingestion, and
\* a durable left by an older release does not either.
LadderBinds == ladder = "failed" => faults >= 2

\* Every batch in the stream is settled in the end, poison and failing ones
\* included, whatever server-side cap the consumer has or lacks, unless the
\* consumer was created, with DeliverNew, after the batch was stored.
EventuallySettled == \A m \in Msg : status[m] = "stored" ~> Settled(m) \/ m \in missed

-----------------------------------------------------------------------------
(* What the comments of the code say.                                       *)

\* subscriber.go: "dropped data is logged, never silent" (of what was delivered).
NeverSilent == \A m \in Msg : Dropped(m) /\ delivered[m] > 0 => m \in logged

\* subscriber.go: "subscribe with MaxDeliver - fresh installs [...] bind here".
FreshIsCapped == ownDurable => cap = MaxDeliver

\* subscriber.go: "redelivery is bounded only client-side" after a bind without
\* the cap; a lower cap of the consumer bounds it before that.
BoundOnlyByClient == ladder = "bound" /\ cap \in warned => cap \notin 1 .. MaxDeliver - 1
=============================================================================
