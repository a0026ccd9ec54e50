------------------------------ MODULE FlowDrain ------------------------------
(***************************************************************************)
(* The poller (pkg/poller) draining the kernel maps of module DataPlane    *)
(* while the byte-counting programs keep running, and the agent's ordered  *)
(* shutdown (pkg/agent/shutdown.go).                                       *)
(***************************************************************************)
EXTENDS DataPlane

CONSTANTS
    Batch,        \* the probe found batch operations (kernel 5.6)
    AtomicDelete, \* hash maps have LookupAndDelete (kernel 5.14)
    DrainErrors,  \* whether map iteration and batch calls may fail
    CallErrors    \* whether a LookupAndDelete, Lookup or Delete may fail

ASSUME FlowDrainAssumption ==
    /\ Batch \in BOOLEAN /\ AtomicDelete \in BOOLEAN
    /\ DrainErrors \in BOOLEAN /\ CallErrors \in BOOLEAN

VARIABLES
    phase,      \* where poll() is: idle, flows, quic, deliver
    todo,       \* keys this phase has still to visit
    half,       \* key looked up but not yet deleted (lossy fallback), or NoKey
    snap,       \* flows collected by this poll: <<key, call>>
    delivered,  \* what the handler received while it could still publish
    reported,   \* drop counters last handed to OnDrops
    life,       \* the agent's life cycle
    pubOpen,    \* the NATS publisher accepts messages
    overlapped, \* calls whose write raced a delete of their element
    unseen,     \* calls in an element whose Lookup failed before its Delete
    kept,       \* calls read from an element whose Delete then failed
    due         \* calls recorded when the poll loop had exited

pollVars == <<phase, todo, half, snap, delivered, reported, life, pubOpen,
              overlapped, unseen, kept, due>>
vars == <<dpVars, pollVars>>

TypeOK ==
    /\ DPTypeOK
    /\ phase \in {"idle", "flows", "quic", "deliver"}
    /\ todo \subseteq Key
    /\ half \in Key \cup {NoKey}
    /\ snap \subseteq Key \X Call
    /\ delivered \subseteq Key \X Call
    /\ reported \subseteq Drop
    /\ life \in {"running", "stopping", "final", "flushed", "detached"}
    /\ pubOpen \in BOOLEAN
    /\ overlapped \subseteq Call
    /\ unseen \subseteq Call
    /\ kept \subseteq Call
    /\ due \subseteq Call

-----------------------------------------------------------------------------
Calls(e) == UNION {slot[e][c] : c \in CPU}

\* Calls whose program is between its lookup of element e and its write.
Holding(e) == {d \in Call : \E c \in CPU : /\ hook[c] # NoHook
                                           /\ hook[c].call = d
                                           /\ hook[c].elem = e}

InMap(d) == \E e \in Elem : owner[e] # NoKey /\ d \in Calls(e)

FDInit ==
    /\ Init
    /\ phase = "idle" /\ todo = {} /\ half = NoKey
    /\ snap = {} /\ delivered = {} /\ reported = {}
    /\ life = "running" /\ pubOpen = TRUE
    /\ overlapped = {} /\ unseen = {} /\ kept = {} /\ due = {}

\* Map iteration collects the keys present; an error cuts it short.
Iterate(K) ==
    LET live == {k \in K : Lookup(k) # NoElem}
    IN  IF DrainErrors THEN SUBSET live ELSE {live}

\* Mutant: only the final flush polls; the ticker is never armed.
PollBeginAtStop ==
    /\ phase = "idle" /\ life = "final"
    /\ phase' = "flows"
    /\ todo' \in IF Batch THEN {FKey} ELSE Iterate(FKey)
    /\ UNCHANGED <<dpVars, half, snap, delivered, reported, life, pubOpen,
                   overlapped, unseen, kept, due>>

\* A batch drain walks every bucket and needs no keys up front.
PollBegin ==
    /\ phase = "idle" /\ life \in {"running", "stopping", "final"}
    /\ phase' = "flows"
    /\ todo' \in IF Batch THEN {FKey} ELSE Iterate(FKey)
    /\ UNCHANGED <<dpVars, half, snap, delivered, reported, life, pubOpen,
                   overlapped, unseen, kept, due>>

\* Unlink element e from its key; its content is never read again.
Unlink(e) ==
    /\ owner' = [owner EXCEPT ![e] = NoKey]
    /\ slot'  = [slot EXCEPT ![e] = [c \in CPU |-> {}]]
    /\ UNCHANGED <<enabled, sk, origDst, conn, hook, stage, metered, skipped,
                   drops, ring>>

\* The calls that pollBatch makes on a key: batch operations never touch
\* quic_flows, which pollQuic always drains key by key.
ByBatch(k) == Batch /\ k \in FKey

\* One element of BatchLookupAndDelete, or one LookupAndDelete: read and
\* unlink in one step, summing the per-CPU copies.
DrainKey(k) ==
    /\ ByBatch(k) \/ AtomicDelete
    /\ half = NoKey /\ k \in todo
    /\ todo' = todo \ {k}
    /\ LET e == Lookup(k) IN
       IF e = NoElem
       THEN UNCHANGED <<dpVars, snap, overlapped>>
       ELSE /\ snap' = snap \cup ({k} \X Calls(e))
            /\ Unlink(e)
            /\ overlapped' = overlapped \cup Holding(e)
    /\ UNCHANGED <<phase, half, delivered, reported, life, pubOpen, unseen,
                   kept, due>>

\* LookupAndDelete failed, for want of kernel support or any other error but
\* not-exist: the code falls back to a Lookup ...
FallBack(k) ==
    /\ ~ByBatch(k) /\ (~AtomicDelete \/ CallErrors)
    /\ half = NoKey /\ k \in todo
    /\ todo' = todo \ {k}
    /\ half' = k
    /\ UNCHANGED <<dpVars, phase, delivered, reported, life, pubOpen,
                   overlapped, kept, due>>

LossyRead(k) ==
    /\ FallBack(k)
    /\ Lookup(k) # NoElem
    /\ snap' = snap \cup ({k} \X Calls(Lookup(k)))
    /\ UNCHANGED unseen

\* ... which may fail too and then leaves the element unread ...
LossyReadFails(k) ==
    /\ FallBack(k)
    /\ CallErrors \/ Lookup(k) = NoElem
    /\ unseen' = IF Lookup(k) = NoElem THEN unseen
                 ELSE unseen \cup Calls(Lookup(k))
    /\ UNCHANGED snap

\* ... and a Delete either way: it takes what was not read with it, and what
\* arrived since.
LossyDelete ==
    /\ half # NoKey /\ Lookup(half) # NoElem
    /\ LET e == Lookup(half) IN
       /\ Unlink(e)
       /\ overlapped' = overlapped \cup Holding(e)
            \cup {d \in Calls(e) \ unseen : <<half, d>> \notin snap}
    /\ half' = NoKey
    /\ UNCHANGED <<phase, todo, snap, delivered, reported, life, pubOpen,
                   unseen, kept, due>>

\* The Delete's error is ignored: what was read stays in the map.
LossyDeleteFails ==
    /\ half # NoKey
    /\ CallErrors \/ Lookup(half) = NoElem
    /\ kept' = kept \cup {d \in Call : <<half, d>> \in snap}
    /\ half' = NoKey
    /\ UNCHANGED <<dpVars, phase, todo, snap, delivered, reported, life,
                   pubOpen, overlapped, unseen, due>>

\* pollBatch gives up on an error; what is left waits for the next tick.
BatchError ==
    /\ DrainErrors /\ Batch /\ phase = "flows" /\ todo # {}
    /\ todo' = {}
    /\ UNCHANGED <<dpVars, phase, half, snap, delivered, reported, life,
                   pubOpen, overlapped, unseen, kept, due>>

\* pollQuic follows, always key by key; its snapshots are appended.
PollQuic ==
    /\ phase = "flows" /\ todo = {} /\ half = NoKey
    /\ phase' = "quic"
    /\ todo' \in Iterate(QKey)
    /\ UNCHANGED <<dpVars, half, snap, delivered, reported, life, pubOpen,
                   overlapped, unseen, kept, due>>

\* The end of poll(): cumulative drop counters go to OnDrops.
PollEnd ==
    /\ phase = "quic" /\ todo = {} /\ half = NoKey
    /\ phase' = "deliver"
    /\ reported' = drops
    /\ UNCHANGED <<dpVars, todo, half, snap, delivered, life, pubOpen,
                   overlapped, unseen, kept, due>>

\* The handler: a batch handed over after the publisher closed is lost.
Deliver ==
    /\ phase = "deliver"
    /\ phase' = "idle"
    /\ delivered' = IF pubOpen THEN delivered \cup snap ELSE delivered
    /\ snap' = {}
    /\ life' = IF life = "final" THEN "flushed" ELSE life
    /\ UNCHANGED <<dpVars, todo, half, reported, pubOpen, overlapped, unseen,
                   kept, due>>

-----------------------------------------------------------------------------
(* Shutdown: stop the poller, close the publisher, close the loader.        *)

\* Stop cancels the loop's context; a poll in progress runs to its end.
StopRequested ==
    /\ life = "running"
    /\ life' = "stopping"
    /\ UNCHANGED <<dpVars, phase, todo, half, snap, delivered, reported,
                   pubOpen, overlapped, unseen, kept, due>>

\* The loop has returned; Stop goes on to its final flush.
LoopExit ==
    /\ life = "stopping" /\ phase = "idle"
    /\ life' = "final"
    /\ due' = {d \in Call : InMap(d)}
    /\ UNCHANGED <<dpVars, phase, todo, half, snap, delivered, reported,
                   pubOpen, overlapped, unseen, kept>>

\* Mutant: the publisher does not wait for the poller.
ClosePublisherEarly ==
    /\ life # "running" /\ pubOpen
    /\ pubOpen' = FALSE
    /\ UNCHANGED <<dpVars, phase, todo, half, snap, delivered, reported, life,
                   overlapped, unseen, kept, due>>

ClosePublisher ==
    /\ life = "flushed" /\ pubOpen
    /\ pubOpen' = FALSE
    /\ UNCHANGED <<dpVars, phase, todo, half, snap, delivered, reported, life,
                   overlapped, unseen, kept, due>>

CloseLoader ==
    /\ life = "flushed" /\ ~pubOpen
    /\ life' = "detached"
    /\ UNCHANGED <<dpVars, phase, todo, half, snap, delivered, reported,
                   pubOpen, overlapped, unseen, kept, due>>

\* The connection-event reader (modelled in full elsewhere) makes room.
ReadEvent ==
    /\ ring # <<>>
    /\ ring' = Tail(ring)
    /\ UNCHANGED <<enabled, sk, origDst, conn, owner, slot, hook, stage,
                   metered, skipped, drops, pollVars>>

Terminated == life = "detached" /\ UNCHANGED vars

DrainStep == \/ \E k \in Key : DrainKey(k) \/ LossyRead(k) \/ LossyReadFails(k)
             \/ LossyDelete \/ LossyDeleteFails \/ BatchError

PollStep == PollBegin \/ DrainStep \/ PollQuic \/ PollEnd \/ Deliver

ShutdownStep == StopRequested \/ LoopExit \/ ClosePublisher \/ CloseLoader

Next ==
    \/ life # "detached" /\ KernelStep /\ UNCHANGED pollVars
    \/ life # "detached" /\ ReadEvent
    \/ PollStep
    \/ ShutdownStep
    \/ Terminated

Spec == FDInit /\ [][Next]_vars

\* A running program returns; the poll loop's goroutine is scheduled and its
\* ticker keeps firing.  Nothing obliges sockets, traffic or SIGTERM.
Fairness ==
    /\ WF_vars(PollStep)
    /\ WF_vars((\E c \in CPU : HookExit(c)) /\ UNCHANGED pollVars)

FairSpec == Spec /\ Fairness

\* Errors of a batch call are the kernel's and pass: no flow's drain is cut
\* off at every poll.
PassingErrors == FairSpec /\ \A k \in FKey : SF_vars(DrainKey(k))

-----------------------------------------------------------------------------
(* Properties *)

\* Elements whose content the poller has still to read.
Unread == {e \in Elem : owner[e] \notin {NoKey, half}}

Finished == {d \in metered : \A c \in CPU : hook[c] # NoHook => hook[c].call # d}

InFlows(d, F) == \E k \in Key : <<k, d>> \in F

Counted(d) == <<"flow", d, "delta">> \in drops \/ <<"quic", d, "delta">> \in drops

Accounted(d) == InMap(d) \/ InFlows(d, snap) \/ InFlows(d, delivered)

\* Each byte is reported at most once (constitution P5): a call is in at most
\* one per-CPU counter, or in the poll's collected flows, or delivered, and
\* under one key only, whichever hooks, CPUs and drains it met.  The one
\* exception is a read element whose Delete failed.
NoDoubleCount ==
    \A d \in Call \ kept :
      /\ \A e1, e2 \in Unread, c1, c2 \in CPU :
            d \in slot[e1][c1] /\ d \in slot[e2][c2] => e1 = e2 /\ c1 = c2
      /\ \A k1, k2 \in Key :
            <<k1, d>> \in snap \cup delivered /\ <<k2, d>> \in snap \cup delivered
            => k1 = k2
      /\ \A k \in Key : ~(<<k, d>> \in snap /\ <<k, d>> \in delivered)
      /\ InFlows(d, snap \cup delivered) =>
            \A e \in Unread : d \notin Calls(e)

\* Bytes disappear only in a named window: every admitted call whose program
\* has returned is in a map, in the poll, delivered, or counted as dropped,
\* unless its write raced the delete of its element, its element was deleted
\* after a Lookup that failed, or its program is one that leaves a missing
\* flow entry alone.
Conservation ==
    \A d \in Finished : \/ Accounted(d) \/ Counted(d)
                        \/ d \in overlapped \/ d \in unseen \/ d \in skipped

OwnKeys(d) == {WireKey[CallSock[d]]} \cup {KeyOf[CallSock[d]][i] : i \in ConnKind}

\* A call is reported under the flow key of its own socket, unless its write
\* raced the delete and recycling of its element.
Attribution ==
    \A d \in Call, k \in Key :
       \/ d \in overlapped
       \/ k \in OwnKeys(d)
       \/ /\ <<k, d>> \notin snap \cup delivered
          /\ \A e \in Elem : owner[e] = k => d \notin Calls(e)

\* Orderly shutdown loses nothing that was recorded when the loop exited:
\* the final flush reads the maps before they go away and hands the flows
\* over before the publisher closes (shutdown.go, constitution P4).  Left out
\* are elements whose own Lookup failed and iterations cut short by an error.
FinalFlushComplete ==
    life = "detached" =>
        \A d \in due : \/ InFlows(d, delivered)
                        \/ d \in overlapped \/ d \in unseen

\* While the agent runs, every admitted call is eventually delivered or its
\* loss is explained, although batch calls fail half-way through a poll.
EventuallyReported ==
    \A d \in Call :
       (d \in metered) ~> (\/ InFlows(d, delivered) \/ Counted(d)
                           \/ d \in overlapped \/ d \in unseen
                           \/ d \in skipped
                           \/ life # "running")

-----------------------------------------------------------------------------
(* The inductive strengthening behind the first three properties.           *)

InSlot(d) == \E e \in Elem, c \in CPU : d \in slot[e][c]

Recorded(d) == InSlot(d) \/ InFlows(d, snap) \/ InFlows(d, delivered)

\* A key has one element, and a free element is empty.
LinkInv ==
    /\ \A e1, e2 \in Elem : owner[e1] = owner[e2] /\ owner[e1] # NoKey => e1 = e2
    /\ \A e \in Elem, c \in CPU : owner[e] = NoKey => slot[e][c] = {}

\* A call runs one program at a time, on one CPU; the element that program
\* looked up is still its flow's, or a delete overtook it.
HookInv ==
    \A c \in CPU : hook[c] # NoHook =>
        LET h == hook[c] IN
        /\ stage[h.call] = h.prog
        /\ h.call \in metered
        /\ \A x \in CPU : hook[x] # NoHook /\ hook[x].call = h.call => x = c
        /\ h.key \in OwnKeys(h.call)
        /\ h.elem # NoElem => owner[h.elem] = h.key \/ h.call \in overlapped

\* A call that can still be recorded has not been recorded yet: the TC
\* program runs after the socket program only if the latter did not count.
StageInv ==
    /\ \A s \in Udp : conn[s] # "none" => TrackUDP
    /\ \A d \in Call :
        /\ stage[d] \in {"idle", "socket"} => ~Recorded(d)
        /\ stage[d] \in {"wire", "tc"} /\ ~UdpSocketTx => ~Recorded(d)
        /\ stage[d] = "tc" => ~UdpSocketTx
        /\ stage[d] = "socket" /\ AfterSocket(d) = "wire" => UdpSocketTx

\* A poll drains before it delivers, and the publisher closes only when no
\* poll is under way.
PollInv ==
    /\ phase = "idle" => snap = {}
    /\ phase \in {"idle", "deliver"} => todo = {} /\ half = NoKey
    /\ life \in {"flushed", "detached"} => phase = "idle"
    /\ ~pubOpen => life \in {"flushed", "detached"}

\* A call is in one per-CPU copy of one element, read or unread.
SlotInv ==
    \A d \in Call, e1, e2 \in Elem, c1, c2 \in CPU :
        d \in slot[e1][c1] /\ d \in slot[e2][c2] => e1 = e2 /\ c1 = c2

\* What the map shares with the flows while a key is between its Lookup and
\* its Delete was read by that very Lookup.
HalfInv ==
    half # NoKey =>
        \A d \in Call \ kept, e \in Elem :
            /\ owner[e] = half /\ d \in Calls(e)
            /\ InFlows(d, snap \cup delivered)
            => <<half, d>> \in snap

LedgerInv ==
    /\ TypeOK /\ LinkInv /\ HookInv /\ StageInv /\ PollInv /\ SlotInv /\ HalfInv
    /\ NoDoubleCount /\ Conservation /\ Attribution

-----------------------------------------------------------------------------
(* What the comments of the code say.                                       *)

\* poller.go: "increments landing in between either make this snapshot or
\* survive for the next tick".
IncrementsSurvive ==
    \A d \in Finished \ skipped : Accounted(d) \/ Counted(d)

\* poller_map_test.go: "each delta accounted exactly once", also when a Delete
\* has failed.
ReadOnce == \A d \in Call, k \in Key : ~(<<k, d>> \in snap /\ <<k, d>> \in delivered)

\* quic.bpf.c: "UDP TX bytes have exactly one owner per agent run": a QUIC
\* datagram of a connected socket has been admitted by one of the two hooks
\* when it leaves the host.
QuicOwned == \A d \in QuicCall : stage[d] = "done" => d \in metered

\* maps.h: the drop counters cover "data the kernel side could NOT record".
GapsAreCounted ==
    \A d \in Finished \ (overlapped \cup unseen) : Accounted(d) \/ Counted(d)
=============================================================================
