------------------------------ MODULE DataPlane ------------------------------
(***************************************************************************)
(* The kernel side of the agent: the eBPF programs of pkg/ebpf/bpf and the *)
(* maps they share.  Sockets connect, establish, carry traffic and close;  *)
(* the byte-counting programs run concurrently, one per CPU, and are       *)
(* interleaved with each other and with whatever userspace does to the     *)
(* maps (module FlowDrain adds the poller).                                *)
(*                                                                         *)
(* Byte counters are modelled by provenance: a send, receive or retransmit *)
(* is a Call, and a counter holds the SET of calls whose sizes were added  *)
(* to it.  "A byte is counted exactly once" then reads "a call is in       *)
(* exactly one place".  Drop counters hold the set of operations that were *)
(* counted as dropped; the exported number is its cardinality.             *)
(***************************************************************************)
EXTENDS Naturals, Sequences, FiniteSets

CONSTANTS
    CPU,            \* CPUs that run byte-counting programs
    Sock,           \* sockets, each standing for its socket cookie
    Call,           \* send / receive / retransmit calls, each made once
    FElem, QElem,   \* preallocated elements of flow_aggregates, quic_flows
    FKey, QKey,     \* flow_key and quic_flow_key values
    NoKey, NoElem, NoHook,
    Udp, V6, Passive, Sidecar,  \* properties of a socket's tuple
    KeyOf,          \* KeyOf[s][k]: flow_key of s; k says whether pid is known
    WireKey,        \* quic_flow_key of a socket's packets
    CallSock, CallKind,
    QuicCall,       \* calls whose packet the TC program parses as QUIC
    TrackUDP, UdpSendmsgAttached, Sampling,
    Switchable,     \* whether SetEnabled is called while the agent runs
    ConnCap, DstCap, RingCap    \* connections, cookie_to_original_dst, events

Elem == FElem \cup QElem
Key  == FKey \cup QKey
ConnKind == {"bare", "intent"}      \* without / with the connect4 record

ASSUME DataPlaneAssumption ==
    /\ FElem \cap QElem = {} /\ FKey \cap QKey = {}
    /\ NoKey \notin Key /\ NoElem \notin Elem
    /\ NoHook \notin [call : Call, prog : {"socket", "tc"}, key : Key,
                      elem : Elem \cup {NoElem}]
    /\ Udp \subseteq Sock /\ V6 \subseteq Sock /\ Sidecar \subseteq Sock
    /\ Passive \subseteq Sock \ Udp
    /\ KeyOf \in [Sock -> [ConnKind -> FKey]]
    /\ WireKey \in [Sock -> QKey]
    /\ CallSock \in [Call -> Sock]
    /\ CallKind \in [Call -> {"tx", "rx", "retrans"}]
    /\ \A d \in Call : CallKind[d] = "retrans" => CallSock[d] \notin Udp
    /\ QuicCall \subseteq Call
    /\ \A d \in QuicCall : CallSock[d] \in Udp /\ CallKind[d] = "tx"
    /\ TrackUDP \in BOOLEAN /\ UdpSendmsgAttached \in BOOLEAN
    /\ Sampling \in BOOLEAN /\ Switchable \in BOOLEAN
    /\ ConnCap \in Nat \ {0} /\ DstCap \in Nat \ {0} /\ RingCap \in Nat

VARIABLES
    enabled,    \* agent_config.enabled
    sk,         \* the kernel's own view of each socket (external)
    origDst,    \* sockets with an entry in cookie_to_original_dst
    conn,       \* connections map: "none", or the kind of entry
    owner,      \* key each map element is linked under, NoKey when free
    slot,       \* slot[e][c]: calls in CPU c's copy of element e
    hook,       \* the byte-counting program running on each CPU
    stage,      \* how far each call has travelled past the hooks
    metered,    \* calls a program admitted and set out to record
    skipped,    \* calls admitted, then not recorded and not counted
    drops,      \* drop_counters: what was counted as dropped, per slot
    ring        \* the events ring buffer

dpVars == <<enabled, sk, origDst, conn, owner, slot, hook, stage, metered,
            skipped, drops, ring>>

Event == {"connect", "establish", "close"} \X Sock \X ConnKind
Drop  == ({"flow", "quic"} \X Call \X {"delta"})
         \cup ({"flow"} \X Sock \X {"seed"})
         \cup ({"events"} \X Sock \X {"connect", "establish", "close"})
Hook  == [call : Call, prog : {"socket", "tc"}, key : Key,
          elem : Elem \cup {NoElem}]
Stage == {"idle", "socket", "wire", "tc", "done"}

DPTypeOK ==
    /\ enabled \in BOOLEAN
    /\ sk \in [Sock -> {"fresh", "connecting", "open", "closed"}]
    /\ origDst \subseteq Sock
    /\ conn \in [Sock -> ConnKind \cup {"none"}]
    /\ owner \in [Elem -> Key \cup {NoKey}]
    /\ slot \in [Elem -> [CPU -> SUBSET Call]]
    /\ hook \in [CPU -> Hook \cup {NoHook}]
    /\ stage \in [Call -> Stage]
    /\ metered \subseteq Call /\ skipped \subseteq Call
    /\ drops \subseteq Drop
    /\ ring \in Seq(Event)

-----------------------------------------------------------------------------
(* Configuration and helpers *)

\* The flag the loader pushes to agent_config after attaching: the socket
\* path owns UDP TX exactly when UDP is tracked and fentry/udp_sendmsg runs.
UdpSocketTx == TrackUDP /\ UdpSendmsgAttached

\* get_config() succeeds and the protocol is one connect4/connect6 record.
Recordable(s) == enabled /\ (s \notin Udp \/ TrackUDP)

\* should_sample: every connection when the rate is 0 or 1, else either way.
ShouldSample == IF Sampling THEN BOOLEAN ELSE {TRUE}

\* An LRU hash insert: when the map is full some other entry is evicted.
LruInsert(S, s, cap) ==
    IF s \in S \/ Cardinality(S) < cap
    THEN {S \cup {s}}
    ELSE {(S \ {v}) \cup {s} : v \in S}

Tracked == {s \in Sock : conn[s] # "none"}

\* connections after inserting entry `kind` for s into an LRU map.
ConnInsert(s, kind) ==
    {[t \in Sock |-> IF t = s THEN kind ELSE
                     IF t \in T THEN conn[t] ELSE "none"] :
        T \in LruInsert(Tracked, s, ConnCap)}

\* bpf_ringbuf_reserve + submit, or count_drop(DROP_SLOT_EVENTS_RINGBUF).
\* `lost` is what the same program already added to drop_counters.
Emit(type, s, kind, lost) ==
    IF Len(ring) < RingCap
    THEN /\ ring' = Append(ring, <<type, s, kind>>)
         /\ drops' = drops \cup lost
    ELSE /\ drops' = drops \cup lost \cup {<<"events", s, type>>}
         /\ UNCHANGED ring

Pool(k)      == IF k \in QKey THEN QElem ELSE FElem
FreeElems(k) == {e \in Pool(k) : owner[e] = NoKey}

\* Mutant: the bucket's element, whatever its key.
LookupBucket(k) == IF \E e \in Pool(k) : owner[e] # NoKey
                   THEN CHOOSE e \in Pool(k) : owner[e] # NoKey
                   ELSE NoElem

\* bpf_map_lookup_elem: the element linked under k, if any.
Lookup(k) == IF \E e \in Elem : owner[e] = k
             THEN CHOOSE e \in Elem : owner[e] = k
             ELSE NoElem

\* Linking a fresh element: this CPU's copy gets the value, the others zero.
Insert(e, k, c, calls) ==
    /\ owner' = [owner EXCEPT ![e] = k]
    /\ slot'  = [slot EXCEPT ![e] = [x \in CPU |-> IF x = c THEN calls ELSE {}]]

-----------------------------------------------------------------------------
\* Sockets that are closed already are the ones a behaviour does not use.
Init ==
    /\ enabled = TRUE
    /\ sk \in [Sock -> {"fresh", "closed"}]
    /\ origDst = {}
    /\ conn = [s \in Sock |-> "none"]
    /\ owner = [e \in Elem |-> NoKey]
    /\ slot = [e \in Elem |-> [c \in CPU |-> {}]]
    /\ hook = [c \in CPU |-> NoHook]
    /\ stage = [d \in Call |-> "idle"]
    /\ metered = {} /\ skipped = {} /\ drops = {}
    /\ ring = <<>>

\* Loader.SetEnabled: flips the kill switch every recording program reads.
SetEnabled ==
    /\ Switchable
    /\ enabled' = ~enabled
    /\ UNCHANGED <<sk, origDst, conn, owner, slot, hook, stage, metered,
                   skipped, drops, ring>>

\* cgroup/connect4 and connect6.  UDP over IPv4 also gets its connections
\* entry here (BPF_NOEXIST), since it has no establish phase.
Connect(s) ==
    /\ sk[s] = "fresh" /\ s \notin Passive
    /\ sk' = [sk EXCEPT ![s] = IF s \in Udp THEN "open" ELSE "connecting"]
    /\ \E sampled \in ShouldSample :
          IF Recordable(s) /\ sampled
          THEN /\ origDst' \in LruInsert(origDst, s, DstCap)
               /\ IF s \in Udp \ V6 /\ conn[s] = "none"
                  THEN conn' \in ConnInsert(s, "intent")
                  ELSE UNCHANGED conn
               /\ Emit("connect", s, "intent", {})
          ELSE UNCHANGED <<origDst, conn, drops, ring>>
    /\ UNCHANGED <<enabled, owner, slot, hook, stage, metered, skipped>>

\* The flow_aggregates seed of handle_established: an existing entry gets a
\* connection count, a missing one is inserted with no bytes.
Seed(c, k) ==
    IF Lookup(k) = NoElem /\ FreeElems(k) # {}
    THEN \E e \in FreeElems(k) : Insert(e, k, c, {})
    ELSE UNCHANGED <<owner, slot>>

SeedDrops(s, k) ==
    IF Lookup(k) = NoElem /\ FreeElems(k) = {} THEN {<<"flow", s, "seed">>} ELSE {}

\* handle_established: consume the connect4 record (outgoing only), write
\* the connections entry, seed the aggregate, emit the establish event.
HandleEstablished(s, kind) ==
    LET k == KeyOf[s][kind] IN
    /\ origDst' = IF kind = "intent" THEN origDst \ {s} ELSE origDst
    /\ conn' \in ConnInsert(s, kind)
    /\ \E c \in CPU : Seed(c, k)
    /\ Emit("establish", s, kind, SeedDrops(s, k))

\* The kernel gives a TCP four-tuple to one open socket at a time (external);
\* a later socket may reuse it.
TupleFree(s) ==
    \A t \in Sock \ {s} : sk[t] = "open" /\ t \notin Udp =>
        \A i, j \in ConnKind : KeyOf[t][i] # KeyOf[s][j]

\* BPF_SOCK_OPS_ACTIVE_ESTABLISHED_CB.
EstablishActive(s) ==
    /\ s \notin Udp /\ sk[s] = "connecting" /\ TupleFree(s)
    /\ sk' = [sk EXCEPT ![s] = "open"]
    /\ IF enabled /\ (s \in origDst \/ ~Sampling)
       THEN HandleEstablished(s, IF s \in origDst THEN "intent" ELSE "bare")
       ELSE UNCHANGED <<origDst, conn, owner, slot, drops, ring>>
    /\ UNCHANGED <<enabled, hook, stage, metered, skipped>>

\* BPF_SOCK_OPS_PASSIVE_ESTABLISHED_CB: sampled here, never correlated.
EstablishPassive(s) ==
    /\ sk[s] = "fresh" /\ s \in Passive /\ TupleFree(s)
    /\ sk' = [sk EXCEPT ![s] = "open"]
    /\ \E sampled \in ShouldSample :
          IF enabled /\ sampled
          THEN HandleEstablished(s, "bare")
          ELSE UNCHANGED <<origDst, conn, owner, slot, drops, ring>>
    /\ UNCHANGED <<enabled, hook, stage, metered, skipped>>

\* Mutant: the entry is removed before the event is filled from it.
StateCloseDeleteFirst(s) ==
    /\ s \notin Udp /\ sk[s] \in {"connecting", "open"}
    /\ sk' = [sk EXCEPT ![s] = "closed"]
    /\ conn' = [conn EXCEPT ![s] = "none"]
    /\ IF enabled /\ conn[s] # "none"
       THEN Emit("close", s, conn'[s], {})
       ELSE UNCHANGED <<drops, ring>>
    /\ UNCHANGED <<enabled, origDst, owner, slot, hook, stage, metered, skipped>>

\* BPF_SOCK_OPS_STATE_CB reaching TCP_CLOSE: final event, then the entry is
\* removed whether or not the event fitted.
StateClose(s) ==
    /\ s \notin Udp /\ sk[s] \in {"connecting", "open"}
    /\ sk' = [sk EXCEPT ![s] = "closed"]
    /\ IF enabled /\ conn[s] # "none"
       THEN /\ Emit("close", s, conn[s], {})
            /\ conn' = [conn EXCEPT ![s] = "none"]
       ELSE UNCHANGED <<conn, drops, ring>>
    /\ UNCHANGED <<enabled, origDst, owner, slot, hook, stage, metered, skipped>>

\* cgroup/sock_release: runs even when disabled; leaves TCP entries alone.
SockRelease(s) ==
    /\ IF s \in Udp THEN sk[s] = "open" ELSE s \in origDst
    /\ sk' = [sk EXCEPT ![s] = IF s \notin Udp /\ @ = "open" THEN @ ELSE "closed"]
    /\ conn' = IF s \in Udp THEN [conn EXCEPT ![s] = "none"] ELSE conn
    /\ origDst' = origDst \ {s}
    /\ UNCHANGED <<enabled, owner, slot, hook, stage, metered, skipped,
                   drops, ring>>

-----------------------------------------------------------------------------
(* Byte counting.  A program first looks its flow up (HookEnter) and then   *)
(* writes through the pointer or inserts (HookExit); other CPUs and the     *)
(* poller run in between.                                                   *)

\* Mutant: UDP sends counted whether or not the flag gives them to the socket.
SocketHookCountsUngated(d) == enabled /\ conn[CallSock[d]] # "none"

\* The early returns of the socket-level byte-counting programs.
SocketHookCounts(d) ==
    LET s == CallSock[d] IN
    /\ enabled /\ conn[s] # "none"
    /\ CallKind[d] # "retrans" /\ s \notin Udp => s \notin Sidecar
    /\ s \in Udp /\ CallKind[d] = "tx" => UdpSendmsgAttached

\* A UDP datagram passes the TC egress hook after the socket hook.
AfterSocket(d) ==
    IF CallSock[d] \in Udp /\ CallKind[d] = "tx" THEN "wire" ELSE "done"

Running(d, prog, k) ==
    [call |-> d, prog |-> prog, key |-> k, elem |-> Lookup(k)]

\* tcp_sendmsg, tcp_cleanup_rbuf, udp_sendmsg, udp_recvmsg, retransmit and
\* loss-probe programs, up to and including the flow_aggregates lookup.
SocketHookEnter(c, d) ==
    LET s == CallSock[d] IN
    /\ hook[c] = NoHook /\ stage[d] = "idle" /\ sk[s] = "open"
    /\ IF SocketHookCounts(d)
       THEN /\ hook' = [hook EXCEPT ![c] = Running(d, "socket", KeyOf[s][conn[s]])]
            /\ stage' = [stage EXCEPT ![d] = "socket"]
            /\ metered' = metered \cup {d}
       ELSE /\ stage' = [stage EXCEPT ![d] = AfterSocket(d)]
            /\ UNCHANGED <<hook, metered>>
    /\ UNCHANGED <<enabled, sk, origDst, conn, owner, slot, skipped, drops, ring>>

\* tollwing_quic_egress: records nothing while the socket path owns UDP TX.
QuicHookCounts(d) == enabled /\ ~UdpSocketTx /\ d \in QuicCall

QuicHookEnter(c, d) ==
    /\ hook[c] = NoHook /\ stage[d] = "wire"
    /\ IF QuicHookCounts(d)
       THEN /\ hook' = [hook EXCEPT ![c] = Running(d, "tc", WireKey[CallSock[d]])]
            /\ stage' = [stage EXCEPT ![d] = "tc"]
            /\ metered' = metered \cup {d}
       ELSE /\ stage' = [stage EXCEPT ![d] = "done"]
            /\ UNCHANGED <<hook, metered>>
    /\ UNCHANGED <<enabled, sk, origDst, conn, owner, slot, skipped, drops, ring>>

\* update_flow_aggregate and the QUIC program insert a missing entry; the
\* UDP receive and retransmit programs only update one that exists.
InsertsOnMiss(h) ==
    \/ h.prog = "tc"
    \/ CallKind[h.call] = "tx"
    \/ CallKind[h.call] = "rx" /\ CallSock[h.call] \notin Udp

DropSlot(h) == IF h.prog = "tc" THEN "quic" ELSE "flow"

\* += through the pointer the lookup returned.  Map elements are
\* preallocated and recycled without a grace period: if the element was
\* unlinked meanwhile the addition is void, and if it was linked again
\* under another key the addition lands there.
AddToElem(c, h) ==
    /\ h.elem # NoElem
    /\ slot' = IF owner[h.elem] = NoKey THEN slot
               ELSE [slot EXCEPT ![h.elem][c] = @ \cup {h.call}]
    /\ UNCHANGED <<owner, drops, skipped>>

\* bpf_map_update_elem(BPF_NOEXIST) succeeds.
InsertElem(c, h) ==
    /\ h.elem = NoElem /\ InsertsOnMiss(h) /\ Lookup(h.key) = NoElem
    /\ \E e \in FreeElems(h.key) : Insert(e, h.key, c, {h.call})
    /\ UNCHANGED <<drops, skipped>>

\* Mutant: the lost delta is not counted.
InsertFailsSilently(h) ==
    /\ h.elem = NoElem /\ InsertsOnMiss(h)
    /\ Lookup(h.key) # NoElem \/ FreeElems(h.key) = {}
    /\ UNCHANGED <<owner, slot, drops, skipped>>

\* It fails: map full, or another CPU inserted the key first.
InsertFails(h) ==
    /\ h.elem = NoElem /\ InsertsOnMiss(h)
    /\ Lookup(h.key) # NoElem \/ FreeElems(h.key) = {}
    /\ drops' = drops \cup {<<DropSlot(h), h.call, "delta">>}
    /\ UNCHANGED <<owner, slot, skipped>>

SkipMissing(h) ==
    /\ h.elem = NoElem /\ ~InsertsOnMiss(h)
    /\ skipped' = skipped \cup {h.call}
    /\ UNCHANGED <<owner, slot, drops>>

HookExit(c) ==
    /\ hook[c] # NoHook
    /\ LET h == hook[c] IN
       /\ AddToElem(c, h) \/ InsertElem(c, h) \/ InsertFails(h) \/ SkipMissing(h)
       /\ stage' = [stage EXCEPT ![h.call] =
                        IF h.prog = "socket" THEN AfterSocket(h.call) ELSE "done"]
    /\ hook' = [hook EXCEPT ![c] = NoHook]
    /\ UNCHANGED <<enabled, sk, origDst, conn, metered, ring>>

-----------------------------------------------------------------------------
SocketStep == \E s \in Sock : \/ Connect(s) \/ EstablishActive(s)
                              \/ EstablishPassive(s) \/ StateClose(s)
                              \/ SockRelease(s)

HookStep == \E c \in CPU : \/ HookExit(c)
                           \/ \E d \in Call : \/ SocketHookEnter(c, d)
                                              \/ QuicHookEnter(c, d)

KernelStep == SetEnabled \/ SocketStep \/ HookStep
=============================================================================
