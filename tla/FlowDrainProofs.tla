--------------------------- MODULE FlowDrainProofs ---------------------------
(***************************************************************************)
(* Type correctness of FlowDrain; then no byte is reported twice, none     *)
(* disappears outside the named windows, and none is reported under        *)
(* another socket's flow, for every number of CPUs, sockets, calls, keys   *)
(* and map elements and in every drain mode.  The argument is the          *)
(* inductive invariant LedgerInv of FlowDrain.                             *)
(***************************************************************************)
EXTENDS FlowDrain, FiniteSetTheorems, TLAPS

-----------------------------------------------------------------------------
(* The helpers of DataPlane *)

\* A lookup returns an element linked under the key, or none if there is none.
LEMMA LookupFacts ==
    ASSUME NEW k
    PROVE  /\ Lookup(k) # NoElem => Lookup(k) \in Elem /\ owner[Lookup(k)] = k
           /\ (\E e \in Elem : owner[e] = k) => Lookup(k) # NoElem
BY DataPlaneAssumption DEF Lookup, Elem

LEMMA PoolFacts ==
    ASSUME NEW k
    PROVE  \A e \in FreeElems(k) : e \in Elem /\ owner[e] = NoKey
BY DEF FreeElems, Pool, Elem

LEMMA LruType ==
    ASSUME NEW S \in SUBSET Sock, NEW s \in Sock, NEW cap, NEW T \in LruInsert(S, s, cap)
    PROVE  T \in SUBSET Sock
BY DEF LruInsert

LEMMA ConnInsertType ==
    ASSUME DPTypeOK, NEW s \in Sock, NEW kind \in ConnKind,
           NEW f \in ConnInsert(s, kind)
    PROVE  f \in [Sock -> ConnKind \cup {"none"}]
BY DEF ConnInsert, DPTypeOK

LEMMA EmitType ==
    ASSUME DPTypeOK, NEW type \in {"connect", "establish", "close"},
           NEW s \in Sock, NEW kind \in ConnKind, NEW lost \in SUBSET Drop,
           Emit(type, s, kind, lost)
    PROVE  ring' \in Seq(Event) /\ drops' \subseteq Drop
<1>1. <<type, s, kind>> \in Event
  BY DEF Event
<1>2. <<"events", s, type>> \in Drop
  BY DEF Drop
<1>3. ring \in Seq(Event) /\ Append(ring, <<type, s, kind>>) \in Seq(Event)
  BY <1>1 DEF DPTypeOK
<1>4. drops \subseteq Drop
  BY DEF DPTypeOK
<1>5. CASE Len(ring) < RingCap
  BY <1>3, <1>4, <1>5 DEF Emit
<1>6. CASE ~(Len(ring) < RingCap)
  BY <1>2, <1>3, <1>4, <1>6 DEF Emit
<1> QED
  BY <1>5, <1>6

LEMMA InsertType ==
    ASSUME DPTypeOK, NEW e \in Elem, NEW k \in Key, NEW c \in CPU,
           NEW calls \in SUBSET Call, Insert(e, k, c, calls)
    PROVE  /\ owner' \in [Elem -> Key \cup {NoKey}]
           /\ slot' \in [Elem -> [CPU -> SUBSET Call]]
BY DEF Insert, DPTypeOK

LEMMA KeyOfType ==
    ASSUME NEW s \in Sock, NEW kind \in ConnKind
    PROVE  KeyOf[s][kind] \in FKey /\ KeyOf[s][kind] \in Key /\ WireKey[s] \in Key
BY DataPlaneAssumption DEF Key

LEMMA RunningType ==
    ASSUME NEW d \in Call, NEW prog \in {"socket", "tc"}, NEW k \in Key
    PROVE  Running(d, prog, k) \in Hook
BY LookupFacts DEF Running, Hook

\* A hook record and the call it carries.
LEMMA HookFacts ==
    ASSUME DPTypeOK, NEW c \in CPU, hook[c] # NoHook
    PROVE  /\ hook[c] \in Hook
           /\ hook[c].call \in Call /\ hook[c].key \in Key
           /\ hook[c].elem \in Elem \cup {NoElem}
           /\ hook[c].prog \in {"socket", "tc"}
BY DEF DPTypeOK, Hook

-----------------------------------------------------------------------------
(* Every kernel step keeps DPTypeOK. *)

LEMMA EstablishedType ==
    ASSUME DPTypeOK, NEW s \in Sock, NEW kind \in ConnKind,
           HandleEstablished(s, kind)
    PROVE  /\ origDst' \subseteq Sock
           /\ conn' \in [Sock -> ConnKind \cup {"none"}]
           /\ owner' \in [Elem -> Key \cup {NoKey}]
           /\ slot' \in [Elem -> [CPU -> SUBSET Call]]
           /\ ring' \in Seq(Event) /\ drops' \subseteq Drop
<1> DEFINE k == KeyOf[s][kind]
<1>1. origDst' \subseteq Sock
  BY DEF HandleEstablished, DPTypeOK
<1>2. conn' \in [Sock -> ConnKind \cup {"none"}]
  BY ConnInsertType DEF HandleEstablished
<1>3. owner' \in [Elem -> Key \cup {NoKey}] /\ slot' \in [Elem -> [CPU -> SUBSET Call]]
  <2>1. PICK c \in CPU : Seed(c, k)
    BY DEF HandleEstablished
  <2>2. k \in Key
    BY KeyOfType
  <2>3. CASE \E e \in FreeElems(k) : Insert(e, k, c, {})
    <3>1. PICK e \in FreeElems(k) : Insert(e, k, c, {})
      BY <2>3
    <3>2. e \in Elem
      BY PoolFacts
    <3> QED BY <2>2, <3>1, <3>2, InsertType
  <2>4. CASE UNCHANGED <<owner, slot>>
    BY <2>4 DEF DPTypeOK
  <2> QED BY <2>1, <2>3, <2>4 DEF Seed
<1>4. ring' \in Seq(Event) /\ drops' \subseteq Drop
  <2>1. SeedDrops(s, k) \in SUBSET Drop
    BY DEF SeedDrops, Drop
  <2>2. Emit("establish", s, kind, SeedDrops(s, k))
    BY DEF HandleEstablished
  <2> QED BY <2>1, <2>2, EmitType
<1> QED
  BY <1>1, <1>2, <1>3, <1>4

LEMMA SocketStepType ==
    ASSUME DPTypeOK, NEW s \in Sock,
           \/ Connect(s) \/ EstablishActive(s) \/ EstablishPassive(s)
           \/ StateClose(s) \/ SockRelease(s)
    PROVE  DPTypeOK'
<1>1. CASE Connect(s)
  <2>1. sk' \in [Sock -> {"fresh", "connecting", "open", "closed"}]
    BY <1>1 DEF Connect, DPTypeOK
  <2>2. PICK sampled \in ShouldSample :
          IF Recordable(s) /\ sampled
          THEN /\ origDst' \in LruInsert(origDst, s, DstCap)
               /\ IF s \in Udp \ V6 /\ conn[s] = "none"
                  THEN conn' \in ConnInsert(s, "intent")
                  ELSE UNCHANGED conn
               /\ Emit("connect", s, "intent", {})
          ELSE UNCHANGED <<origDst, conn, drops, ring>>
    BY <1>1 DEF Connect
  <2>3. CASE Recordable(s) /\ sampled
    <3>1. origDst' \subseteq Sock
      BY <2>2, <2>3, LruType DEF DPTypeOK
    <3>2. conn' \in [Sock -> ConnKind \cup {"none"}]
      BY <2>2, <2>3, ConnInsertType DEF DPTypeOK, ConnKind
    <3>3. ring' \in Seq(Event) /\ drops' \subseteq Drop
      BY <2>2, <2>3, EmitType DEF ConnKind
    <3> QED BY <1>1, <2>1, <3>1, <3>2, <3>3 DEF Connect, DPTypeOK
  <2>4. CASE ~(Recordable(s) /\ sampled)
    BY <1>1, <2>1, <2>2, <2>4 DEF Connect, DPTypeOK
  <2> QED BY <2>3, <2>4
<1>2. CASE EstablishActive(s)
  <2>1. sk' \in [Sock -> {"fresh", "connecting", "open", "closed"}]
    BY <1>2 DEF EstablishActive, DPTypeOK
  <2>2. CASE enabled /\ (s \in origDst \/ ~Sampling)
    <3>1. PICK kind \in ConnKind : HandleEstablished(s, kind)
      BY <1>2, <2>2 DEF EstablishActive, ConnKind
    <3> QED BY <1>2, <2>1, <3>1, EstablishedType DEF EstablishActive, DPTypeOK
  <2>3. CASE ~(enabled /\ (s \in origDst \/ ~Sampling))
    BY <1>2, <2>1, <2>3 DEF EstablishActive, DPTypeOK
  <2> QED BY <2>2, <2>3
<1>3. CASE EstablishPassive(s)
  <2>1. sk' \in [Sock -> {"fresh", "connecting", "open", "closed"}]
    BY <1>3 DEF EstablishPassive, DPTypeOK
  <2>2. CASE HandleEstablished(s, "bare")
    BY <1>3, <2>1, <2>2, EstablishedType DEF EstablishPassive, DPTypeOK, ConnKind
  <2>3. CASE UNCHANGED <<origDst, conn, owner, slot, drops, ring>>
    BY <1>3, <2>1, <2>3 DEF EstablishPassive, DPTypeOK
  <2> QED BY <1>3, <2>2, <2>3 DEF EstablishPassive
<1>4. CASE StateClose(s)
  <2>1. sk' \in [Sock -> {"fresh", "connecting", "open", "closed"}]
    BY <1>4 DEF StateClose, DPTypeOK
  <2>2. CASE enabled /\ conn[s] # "none"
    <3>1. conn[s] \in ConnKind
      BY <2>2 DEF DPTypeOK
    <3>2. Emit("close", s, conn[s], {}) /\ conn' = [conn EXCEPT ![s] = "none"]
      BY <1>4, <2>2 DEF StateClose
    <3>3. ring' \in Seq(Event) /\ drops' \subseteq Drop
      BY <3>1, <3>2, EmitType
    <3> QED BY <1>4, <2>1, <3>2, <3>3 DEF StateClose, DPTypeOK
  <2>3. CASE ~(enabled /\ conn[s] # "none")
    BY <1>4, <2>1, <2>3 DEF StateClose, DPTypeOK
  <2> QED BY <2>2, <2>3
<1>5. CASE SockRelease(s)
  BY <1>5 DEF SockRelease, DPTypeOK
<1> QED
  BY <1>1, <1>2, <1>3, <1>4, <1>5

LEMMA HookEnterType ==
    ASSUME DPTypeOK, NEW c \in CPU, NEW d \in Call,
           SocketHookEnter(c, d) \/ QuicHookEnter(c, d)
    PROVE  DPTypeOK'
<1> DEFINE s == CallSock[d]
<1>1. s \in Sock
  BY DataPlaneAssumption
<1>2. AfterSocket(d) \in Stage
  BY DEF AfterSocket, Stage
<1>3. CASE SocketHookEnter(c, d)
  <2>1. CASE SocketHookCounts(d)
    <3>1. conn[s] \in ConnKind
      BY <1>1, <2>1 DEF SocketHookCounts, DPTypeOK
    <3>2. Running(d, "socket", KeyOf[s][conn[s]]) \in Hook
      BY <1>1, <3>1, KeyOfType, RunningType
    <3>3. hook' \in [CPU -> Hook \cup {NoHook}]
      BY <1>3, <2>1, <3>2 DEF SocketHookEnter, DPTypeOK
    <3>4. stage' \in [Call -> Stage] /\ metered' \subseteq Call
      BY <1>3, <2>1 DEF SocketHookEnter, DPTypeOK, Stage
    <3> QED BY <1>3, <3>3, <3>4 DEF SocketHookEnter, DPTypeOK
  <2>2. CASE ~SocketHookCounts(d)
    BY <1>2, <1>3, <2>2 DEF SocketHookEnter, DPTypeOK
  <2> QED BY <2>1, <2>2
<1>4. CASE QuicHookEnter(c, d)
  <2>1. CASE QuicHookCounts(d)
    <3>2. Running(d, "tc", WireKey[s]) \in Hook
      BY <1>1, DataPlaneAssumption, RunningType DEF Key
    <3>3. hook' \in [CPU -> Hook \cup {NoHook}]
      BY <1>4, <2>1, <3>2 DEF QuicHookEnter, DPTypeOK
    <3>4. stage' \in [Call -> Stage] /\ metered' \subseteq Call
      BY <1>4, <2>1 DEF QuicHookEnter, DPTypeOK, Stage
    <3> QED BY <1>4, <3>3, <3>4 DEF QuicHookEnter, DPTypeOK
  <2>2. CASE ~QuicHookCounts(d)
    BY <1>4, <2>2 DEF QuicHookEnter, DPTypeOK, Stage
  <2> QED BY <2>1, <2>2
<1> QED
  BY <1>3, <1>4

LEMMA HookExitType ==
    ASSUME DPTypeOK, NEW c \in CPU, HookExit(c)
    PROVE  DPTypeOK'
<1> DEFINE h == hook[c]
<1>1. /\ h.call \in Call /\ h.key \in Key
      /\ h.elem \in Elem \cup {NoElem}
  BY HookFacts DEF HookExit
<1>2. hook' \in [CPU -> Hook \cup {NoHook}]
  BY DEF HookExit, DPTypeOK
<1>3. stage' \in [Call -> Stage]
  BY <1>1 DEF HookExit, DPTypeOK, AfterSocket, Stage
<1>4. /\ owner' \in [Elem -> Key \cup {NoKey}]
      /\ slot' \in [Elem -> [CPU -> SUBSET Call]]
      /\ drops' \subseteq Drop /\ skipped' \subseteq Call
  <2>1. CASE AddToElem(c, h)
    BY <1>1, <2>1 DEF AddToElem, DPTypeOK
  <2>2. CASE InsertElem(c, h)
    <3>1. PICK e \in FreeElems(h.key) : Insert(e, h.key, c, {h.call})
      BY <2>2 DEF InsertElem
    <3>2. e \in Elem
      BY PoolFacts
    <3> QED BY <1>1, <2>2, <3>1, <3>2, InsertType DEF InsertElem, DPTypeOK
  <2>3. CASE InsertFails(h)
    <3>1. <<DropSlot(h), h.call, "delta">> \in Drop
      BY <1>1 DEF DropSlot, Drop
    <3> QED BY <2>3, <3>1 DEF InsertFails, DPTypeOK
  <2>4. CASE SkipMissing(h)
    BY <1>1, <2>4 DEF SkipMissing, DPTypeOK
  <2> QED BY <2>1, <2>2, <2>3, <2>4 DEF HookExit
<1> QED
  BY <1>2, <1>3, <1>4 DEF HookExit, DPTypeOK

LEMMA KernelStepType ==
    ASSUME DPTypeOK, KernelStep
    PROVE  DPTypeOK'
<1>1. CASE SetEnabled
  BY <1>1 DEF SetEnabled, DPTypeOK
<1>2. CASE SocketStep
  BY <1>2, SocketStepType DEF SocketStep
<1>3. CASE HookStep
  BY <1>3, HookEnterType, HookExitType DEF HookStep
<1> QED
  BY <1>1, <1>2, <1>3 DEF KernelStep

-----------------------------------------------------------------------------
(* The poller and the shutdown sequence. *)

\* Per-CPU copies of an element summed: the calls in any of them.
LEMMA CallsFacts ==
    ASSUME NEW e
    PROVE  \A d : d \in Calls(e) <=> \E c \in CPU : d \in slot[e][c]
BY DEF Calls

LEMMA CallsType ==
    ASSUME DPTypeOK, NEW e \in Elem
    PROVE  Calls(e) \subseteq Call /\ Holding(e) \subseteq Call
BY CallsFacts DEF DPTypeOK, Holding

LEMMA UnlinkType ==
    ASSUME DPTypeOK, NEW e \in Elem, Unlink(e)
    PROVE  DPTypeOK'
BY DEF Unlink, DPTypeOK

LEMMA DPStutterType ==
    ASSUME DPTypeOK, UNCHANGED dpVars
    PROVE  DPTypeOK'
BY DEF DPTypeOK, dpVars

LEMMA IterateType ==
    ASSUME NEW K \in SUBSET Key, NEW S \in Iterate(K)
    PROVE  S \subseteq Key
BY DEF Iterate

LEMMA DrainStepType ==
    ASSUME TypeOK, DrainStep
    PROVE  TypeOK'
<1> USE DEF TypeOK
<1>1. ASSUME NEW k \in Key, DrainKey(k) PROVE TypeOK'
  <2>1. CASE Lookup(k) = NoElem
    BY <1>1, <2>1, DPStutterType DEF DrainKey
  <2>2. CASE Lookup(k) # NoElem
    <3>1. Lookup(k) \in Elem
      BY <2>2, LookupFacts
    <3>2. Calls(Lookup(k)) \subseteq Call /\ Holding(Lookup(k)) \subseteq Call
      BY <3>1, CallsType
    <3>3. DPTypeOK'
      BY <1>1, <2>2, <3>1, UnlinkType DEF DrainKey
    <3> QED BY <1>1, <2>2, <3>2, <3>3 DEF DrainKey
  <2> QED BY <2>1, <2>2
<1>2. ASSUME NEW k \in Key, LossyRead(k) \/ LossyReadFails(k) PROVE TypeOK'
  <2>1. DPTypeOK'
    BY <1>2, DPStutterType DEF LossyRead, LossyReadFails, FallBack
  <2>2. Lookup(k) # NoElem => Calls(Lookup(k)) \subseteq Call
    BY LookupFacts, CallsType
  <2> QED BY <1>2, <2>1, <2>2 DEF LossyRead, LossyReadFails, FallBack
<1>3. CASE LossyDelete
  <2>1. Lookup(half) \in Elem
    BY <1>3, LookupFacts DEF LossyDelete
  <2>2. Calls(Lookup(half)) \subseteq Call /\ Holding(Lookup(half)) \subseteq Call
    BY <2>1, CallsType
  <2>3. DPTypeOK'
    BY <1>3, <2>1, UnlinkType DEF LossyDelete
  <2> QED BY <1>3, <2>2, <2>3 DEF LossyDelete
<1>4. CASE BatchError
  BY <1>4, DPStutterType DEF BatchError
<1>5. CASE LossyDeleteFails
  BY <1>5, DPStutterType DEF LossyDeleteFails
<1> QED
  BY <1>1, <1>2, <1>3, <1>4, <1>5 DEF DrainStep

LEMMA PollerStepType ==
    ASSUME TypeOK, PollStep \/ ShutdownStep
    PROVE  TypeOK'
<1> USE DEF TypeOK
<1>1. CASE PollBegin
  <2>1. todo' \subseteq Key
    BY <1>1, IterateType DEF PollBegin, Key
  <2> QED BY <1>1, <2>1, DPStutterType DEF PollBegin
<1>2. CASE DrainStep
  BY <1>2, DrainStepType
<1>3. CASE PollQuic
  <2>1. todo' \subseteq Key
    BY <1>3, IterateType DEF PollQuic, Key
  <2> QED BY <1>3, <2>1, DPStutterType DEF PollQuic
<1>4. CASE PollEnd
  BY <1>4, DPStutterType DEF PollEnd, DPTypeOK
<1>5. CASE Deliver
  BY <1>5, DPStutterType DEF Deliver
<1>6. CASE StopRequested \/ ClosePublisher \/ CloseLoader
  BY <1>6, DPStutterType DEF StopRequested, ClosePublisher, CloseLoader
<1>7. CASE LoopExit
  BY <1>7, DPStutterType DEF LoopExit
<1> QED
  BY <1>1, <1>2, <1>3, <1>4, <1>5, <1>6, <1>7 DEF PollStep, ShutdownStep

\* Whatever the interleaving of kernel programs, poller and shutdown, the
\* maps, the poll's progress and the life cycle keep their types.
THEOREM FlowDrainTypeOK == Spec => []TypeOK
<1>1. FDInit => TypeOK
  BY DEF FDInit, Init, TypeOK, DPTypeOK, Event, Stage
<1>2. TypeOK /\ [Next]_vars => TypeOK'
  <2> SUFFICES ASSUME TypeOK, [Next]_vars PROVE TypeOK'
    OBVIOUS
  <2>1. CASE KernelStep /\ UNCHANGED pollVars
    BY <2>1, KernelStepType DEF TypeOK, pollVars
  <2>2. CASE ReadEvent
    BY <2>2 DEF ReadEvent, TypeOK, DPTypeOK, pollVars
  <2>3. CASE PollStep \/ ShutdownStep
    BY <2>3, PollerStepType
  <2>4. CASE Terminated \/ UNCHANGED vars
    <3>1. UNCHANGED vars
      BY <2>4 DEF Terminated
    <3> QED BY <3>1, DPStutterType DEF vars, TypeOK, pollVars
  <2> QED
    BY <2>1, <2>2, <2>3, <2>4 DEF Next
<1> QED
  BY <1>1, <1>2, PTL DEF Spec

-----------------------------------------------------------------------------
(* Small facts about the ledger's vocabulary *)

LEMMA InSlotFacts ==
    ASSUME NEW d
    PROVE  /\ InSlot(d) <=> \E e \in Elem : d \in Calls(e)
           /\ InMap(d) => InSlot(d)
BY CallsFacts DEF InSlot, InMap

\* A free element holds nothing, so whatever holds a call is linked.
LEMMA SlotLinked ==
    ASSUME DPTypeOK, LinkInv, NEW e \in Elem, NEW c \in CPU, NEW d, d \in slot[e][c]
    PROVE  owner[e] # NoKey /\ owner[e] \in Key
BY DEF LinkInv, DPTypeOK

\* Before a program writes, its call is nowhere in the ledger.
LEMMA RunningNotRecorded ==
    ASSUME LedgerInv, NEW c \in CPU, hook[c] # NoHook
    PROVE  ~Recorded(hook[c].call)
<1>1. hook[c].call \in Call /\ hook[c].prog \in {"socket", "tc"}
  BY HookFacts DEF LedgerInv, TypeOK
<1>2. stage[hook[c].call] = hook[c].prog
  BY DEF LedgerInv, HookInv
<1> QED
  BY <1>1, <1>2 DEF LedgerInv, StageInv

-----------------------------------------------------------------------------
(* Steps that touch no counter: the ledger is as before. *)

LEMMA UntouchedStep ==
    ASSUME LedgerInv, TypeOK', PollInv', HalfInv', NoDoubleCount',
           UNCHANGED <<owner, slot, hook, stage, metered, skipped, snap,
                       delivered, overlapped>>,
           drops \subseteq drops', unseen \subseteq unseen',
           \A s \in Udp : conn'[s] # "none" => TrackUDP
    PROVE  LedgerInv'
<1>1. LinkInv' /\ SlotInv'
  BY DEF LedgerInv, LinkInv, SlotInv
<1>2. HookInv'
  BY DEF LedgerInv, HookInv, OwnKeys
<1>3. StageInv'
  BY DEF LedgerInv, StageInv, Recorded, InSlot, InFlows, AfterSocket
<1>4. Conservation'
  <2>1. \A d : Accounted(d)' = Accounted(d)
    BY DEF Accounted, InMap, InFlows, Calls
  <2>2. \A d : Counted(d) => Counted(d)'
    BY DEF Counted
  <2>3. Finished' = Finished
    BY DEF Finished
  <2> QED
    BY <2>1, <2>2, <2>3 DEF LedgerInv, Conservation
<1>5. Attribution'
  <2>1. \A e : Calls(e)' = Calls(e)
    BY DEF Calls
  <2> QED
    BY <2>1 DEF LedgerInv, Attribution, OwnKeys
<1> QED
  BY <1>1, <1>2, <1>3, <1>4, <1>5 DEF LedgerInv

LEMMA QuietStep ==
    ASSUME LedgerInv, TypeOK', PollInv',
           UNCHANGED <<owner, slot, hook, stage, metered, skipped, snap,
                       delivered, overlapped, half, unseen, kept>>,
           drops \subseteq drops',
           \A s \in Udp : conn'[s] # "none" => TrackUDP
    PROVE  LedgerInv'
<1>1. \A e : Calls(e)' = Calls(e)
  BY DEF Calls
<1>2. HalfInv'
  BY <1>1 DEF LedgerInv, HalfInv, InFlows
<1>3. NoDoubleCount'
  BY <1>1 DEF LedgerInv, NoDoubleCount, Unread, InFlows
<1> QED
  BY <1>2, <1>3, UntouchedStep

\* The poll invariant survives the steps of the kernel.
LEMMA PollInvFrame ==
    ASSUME PollInv, UNCHANGED <<half, todo, snap, phase, life, pubOpen>>
    PROVE  PollInv'
BY DEF PollInv

-----------------------------------------------------------------------------
(* The seed of a new flow: an empty element is linked. *)

LEMMA SeedStep ==
    ASSUME LedgerInv, TypeOK',
           UNCHANGED <<hook, stage, metered, skipped, snap, delivered, unseen,
                       kept, overlapped, half, todo, phase, life, pubOpen>>,
           drops \subseteq drops',
           \A s \in Udp : conn'[s] # "none" => TrackUDP,
           NEW e \in Elem, NEW k \in Key, NEW c \in CPU,
           owner[e] = NoKey, Lookup(k) = NoElem, Insert(e, k, c, {})
    PROVE  LedgerInv'
<1> USE DEF LedgerInv
<1>1. owner' = [owner EXCEPT ![e] = k] /\ owner \in [Elem -> Key \cup {NoKey}]
  BY DEF Insert, TypeOK, DPTypeOK
<1>2. slot' = slot
  <2>1. slot[e] \in [CPU -> SUBSET Call] /\ \A x \in CPU : slot[e][x] = {}
    BY DEF LinkInv, TypeOK, DPTypeOK
  <2>2. slot[e] = [x \in CPU |-> {}]
    BY <2>1
  <2>3. slot' = [slot EXCEPT ![e] = [x \in CPU |-> {}]]
    BY DEF Insert
  <2> QED
    BY <2>2, <2>3 DEF TypeOK, DPTypeOK
<1>3. \A e1 \in Elem : owner[e1] # k
  BY LookupFacts
<1>4. k # NoKey /\ NoKey \notin Key
  BY DataPlaneAssumption
<1>5. \A e1 \in Elem : owner[e1] # NoKey => owner'[e1] = owner[e1]
  BY <1>1
<1>6. LinkInv'
  BY <1>1, <1>2, <1>3, <1>4 DEF LinkInv
<1>7. HookInv'
  <2> SUFFICES ASSUME NEW x \in CPU, hook'[x] # NoHook, NEW h, h = hook'[x]
               PROVE  /\ stage'[h.call] = h.prog
                      /\ h.call \in metered'
                      /\ \A y \in CPU : hook'[y] # NoHook /\ hook'[y].call = h.call => y = x
                      /\ h.key \in OwnKeys(h.call)
                      /\ h.elem # NoElem => owner'[h.elem] = h.key \/ h.call \in overlapped'
    BY DEF HookInv, OwnKeys
  <2>1. h.key \in Key /\ h.elem \in Elem \cup {NoElem}
    BY HookFacts DEF TypeOK
  <2>2. h.elem # NoElem => owner'[h.elem] = h.key \/ h.call \in overlapped'
    BY <1>4, <1>5, <2>1 DEF HookInv
  <2> QED BY <2>2 DEF HookInv
<1>8. StageInv' /\ SlotInv'
  BY <1>2 DEF StageInv, Recorded, InSlot, InFlows, AfterSocket, SlotInv
<1>9. PollInv'
  BY PollInvFrame
<1>10. Calls(e) = {} /\ \A x : Calls(x)' = Calls(x)
  BY <1>2 DEF Calls, LinkInv
<1>11. NoDoubleCount'
  BY <1>1, <1>2, <1>10, CallsFacts DEF NoDoubleCount, Unread, InFlows
<1>12. Conservation'
  <2>1. \A d : InMap(d) => InMap(d)'
    BY <1>5, <1>10 DEF InMap
  <2>2. \A d : Accounted(d) => Accounted(d)'
    BY <2>1 DEF Accounted, InFlows
  <2>3. Finished' = Finished /\ \A d : Counted(d) => Counted(d)'
    BY DEF Finished, Counted
  <2> QED BY <2>2, <2>3 DEF Conservation
<1>13. Attribution'
  BY <1>1, <1>10 DEF Attribution, OwnKeys
<1>14. HalfInv'
  BY <1>1, <1>10 DEF HalfInv, InFlows
<1> QED
  BY <1>6, <1>7, <1>8, <1>9, <1>11, <1>12, <1>13, <1>14

-----------------------------------------------------------------------------
(* A program is entered: a call moves on, and may start running. *)

LEMMA EnterStep ==
    ASSUME LedgerInv, TypeOK', NEW c \in CPU, NEW d \in Call,
           SocketHookEnter(c, d) \/ QuicHookEnter(c, d), UNCHANGED pollVars
    PROVE  LedgerInv'
<1> USE DEF LedgerInv, pollVars
<1>1. /\ hook[c] = NoHook
      /\ stage[d] \in {"idle", "wire"}
      /\ UNCHANGED <<owner, slot, skipped, drops, conn>>
  BY DEF SocketHookEnter, QuicHookEnter
<1>2. LinkInv' /\ SlotInv'
  BY <1>1 DEF LinkInv, SlotInv
<1>3. PollInv'
  BY <1>1, PollInvFrame
<1>4. NoDoubleCount' /\ HalfInv'
  <2>1. \A e : Calls(e)' = Calls(e)
    BY <1>1 DEF Calls
  <2> QED
    BY <1>1, <2>1 DEF NoDoubleCount, HalfInv, Unread, InFlows
<1>5. Attribution'
  <2>1. \A e : Calls(e)' = Calls(e)
    BY <1>1 DEF Calls
  <2> QED
    BY <1>1, <2>1 DEF Attribution, OwnKeys
<1>6. /\ \A x \in Call : Recorded(x)' = Recorded(x)
      /\ \A x : Accounted(x)' = Accounted(x) /\ Counted(x)' = Counted(x)
  BY <1>1 DEF Recorded, InSlot, InFlows, Accounted, InMap, Calls, Counted
<1>7. \A x \in CPU : hook[x] # NoHook => hook[x].call # d
  BY <1>1, HookFacts DEF HookInv, TypeOK
<1>8. stage \in [Call -> Stage] /\ hook \in [CPU -> Hook \cup {NoHook}] /\ d \in Call
  BY DEF TypeOK, DPTypeOK
<1>9. CASE /\ UNCHANGED <<hook, metered>>
           /\ \/ stage' = [stage EXCEPT ![d] = AfterSocket(d)]
              \/ stage' = [stage EXCEPT ![d] = "done"]
  <2>1. /\ \A x \in Call \ {d} : stage'[x] = stage[x]
        /\ stage'[d] \in {"wire", "done"}
    BY <1>8, <1>9 DEF AfterSocket
  <2>2. HookInv'
    <3> SUFFICES ASSUME NEW x \in CPU, hook[x] # NoHook
                 PROVE  stage'[hook[x].call] = hook[x].prog
      BY <1>1, <1>9 DEF HookInv, OwnKeys
    <3>1. hook[x].call \in Call \ {d}
      BY <1>7, HookFacts DEF TypeOK
    <3> QED BY <2>1, <3>1 DEF HookInv
  <2>3. StageInv'
    <3>1. \A s \in Udp : conn'[s] # "none" => TrackUDP
      BY <1>1 DEF StageInv
    <3>2. ~UdpSocketTx /\ stage'[d] = "wire" => ~Recorded(d)
      BY <1>1, <1>8 DEF StageInv
    <3> QED
      BY <1>6, <2>1, <3>1, <3>2 DEF StageInv, AfterSocket
  <2>4. Conservation'
    <3>1. Finished' = Finished
      BY <1>9 DEF Finished
    <3> QED BY <1>1, <1>6, <3>1 DEF Conservation
  <2> QED
    BY <1>2, <1>3, <1>4, <1>5, <2>2, <2>3, <2>4
<1>10. CASE \E prog \in {"socket", "tc"}, k \in OwnKeys(d) :
              /\ hook' = [hook EXCEPT ![c] = Running(d, prog, k)]
              /\ stage' = [stage EXCEPT ![d] = prog]
              /\ metered' = metered \cup {d}
              /\ prog = "tc" => ~UdpSocketTx /\ stage[d] = "wire"
              /\ prog = "socket" => stage[d] = "idle"
              /\ prog = "socket" /\ AfterSocket(d) = "wire" => UdpSocketTx
  <2>1. PICK prog \in {"socket", "tc"}, k \in OwnKeys(d) :
              /\ hook' = [hook EXCEPT ![c] = Running(d, prog, k)]
              /\ stage' = [stage EXCEPT ![d] = prog]
              /\ metered' = metered \cup {d}
              /\ prog = "tc" => ~UdpSocketTx /\ stage[d] = "wire"
              /\ prog = "socket" => stage[d] = "idle"
              /\ prog = "socket" /\ AfterSocket(d) = "wire" => UdpSocketTx
    BY <1>10
  <2>2. /\ hook'[c].call = d /\ hook'[c].prog = prog /\ hook'[c].key = k
        /\ hook'[c].elem = Lookup(k)
        /\ \A x \in CPU \ {c} : hook'[x] = hook[x]
    BY <1>8, <2>1 DEF Running
  <2>3. stage'[d] = prog /\ \A x \in Call \ {d} : stage'[x] = stage[x]
    BY <1>8, <2>1
  <2>4. HookInv'
    <3> SUFFICES ASSUME NEW x \in CPU, hook'[x] # NoHook
                 PROVE  /\ stage'[hook'[x].call] = hook'[x].prog
                        /\ hook'[x].call \in metered'
                        /\ \A y \in CPU : hook'[y] # NoHook /\ hook'[y].call = hook'[x].call => y = x
                        /\ hook'[x].key \in OwnKeys(hook'[x].call)
                        /\ hook'[x].elem # NoElem =>
                              owner'[hook'[x].elem] = hook'[x].key \/ hook'[x].call \in overlapped'
      BY DEF HookInv, OwnKeys
    <3>1. CASE x = c
      <4>1. Lookup(k) # NoElem => owner'[Lookup(k)] = k
        BY <1>1, LookupFacts
      <4> QED BY <1>7, <2>1, <2>2, <2>3, <3>1, <4>1
    <3>2. CASE x # c
      <4>1. hook'[x] = hook[x] /\ hook[x] # NoHook /\ hook[x].call # d
        BY <1>7, <2>2, <3>2
      <4>2. hook[x].call \in Call
        BY <4>1, HookFacts DEF TypeOK
      <4> QED BY <1>1, <1>7, <2>1, <2>2, <2>3, <3>2, <4>1, <4>2 DEF HookInv
    <3> QED BY <3>1, <3>2
  <2>5. StageInv'
    <3>1. \A s \in Udp : conn'[s] # "none" => TrackUDP
      BY <1>1 DEF StageInv
    <3>2. ~Recorded(d)
      BY <2>1 DEF StageInv
    <3> QED
      BY <1>6, <2>1, <2>3, <3>1, <3>2 DEF StageInv, AfterSocket
  <2>6. Conservation'
    <3>1. hook'[c] # NoHook
      <4>1. k \in Key
        BY KeyOfType, DataPlaneAssumption DEF OwnKeys, Key
      <4> QED BY <1>8, <2>1, <4>1, RunningType, DataPlaneAssumption DEF Hook
    <3>2. Finished' \subseteq Finished
      BY <1>1, <2>1, <2>2, <3>1 DEF Finished
    <3> QED BY <1>1, <1>6, <3>2 DEF Conservation
  <2> QED
    BY <1>2, <1>3, <1>4, <1>5, <2>4, <2>5, <2>6
<1>11. CASE SocketHookEnter(c, d) /\ SocketHookCounts(d)
  <2>1. KeyOf[CallSock[d]][conn[CallSock[d]]] \in OwnKeys(d)
    BY <1>11, DataPlaneAssumption DEF OwnKeys, SocketHookCounts, TypeOK, DPTypeOK
  <2>2. AfterSocket(d) = "wire" => UdpSocketTx
    BY <1>11 DEF AfterSocket, SocketHookCounts, UdpSocketTx, StageInv
  <2> QED
    BY <1>10, <1>11, <2>1, <2>2 DEF SocketHookEnter
<1>12. CASE QuicHookEnter(c, d) /\ QuicHookCounts(d)
  <2>1. WireKey[CallSock[d]] \in OwnKeys(d)
    BY DEF OwnKeys
  <2> QED
    BY <1>10, <1>12, <2>1 DEF QuicHookEnter, QuicHookCounts
<1>13. CASE \/ SocketHookEnter(c, d) /\ ~SocketHookCounts(d)
            \/ QuicHookEnter(c, d) /\ ~QuicHookCounts(d)
  BY <1>9, <1>13 DEF SocketHookEnter, QuicHookEnter
<1> QED
  BY <1>11, <1>12, <1>13

-----------------------------------------------------------------------------
(* A program returns: its call enters the ledger, once. *)

\* What any outcome of the write does to the maps, seen from the ledger:
\* only the program's own call is added, to one counter, of its own flow
\* unless a delete overtook it; nothing that was linked is unlinked.
ExitEffect(c, d, k) ==
    /\ \A e \in Elem, x \in CPU : slot'[e][x] \subseteq slot[e][x] \cup {d}
    /\ \A e1, e2 \in Elem, x1, x2 \in CPU :
          d \in slot'[e1][x1] /\ d \in slot'[e2][x2] => e1 = e2 /\ x1 = x2
    /\ \A e \in Elem, x \in CPU :
          d \in slot'[e][x] => owner'[e] = k \/ d \in overlapped
    /\ \A e \in Elem : owner[e] # NoKey =>
          owner'[e] = owner[e] /\ \A x \in CPU : slot[e][x] \subseteq slot'[e][x]
    /\ \/ \E e \in Elem, x \in CPU : d \in slot'[e][x]
       \/ d \in overlapped \/ d \in skipped' \/ Counted(d)'
    /\ drops \subseteq drops' /\ skipped \subseteq skipped'
    /\ LinkInv'

LEMMA ExitHasEffect ==
    ASSUME LedgerInv, NEW c \in CPU, NEW h \in Hook, hook[c] = h, HookExit(c)
    PROVE  ExitEffect(c, h.call, h.key)
<1> DEFINE d == h.call
<1> USE DEF LedgerInv
<1>1. /\ d \in Call /\ h.key \in Key /\ h.elem \in Elem \cup {NoElem}
      /\ h.key # NoKey
  BY HookFacts, DataPlaneAssumption DEF HookExit, TypeOK
<1>2. \A e \in Elem, x \in CPU : d \notin slot[e][x]
  BY RunningNotRecorded DEF HookExit, Recorded, InSlot
<1>3. h.elem # NoElem => owner[h.elem] = h.key \/ d \in overlapped
  BY DEF HookExit, HookInv
<1>4. /\ slot \in [Elem -> [CPU -> SUBSET Call]]
      /\ owner \in [Elem -> Key \cup {NoKey}]
  BY DEF TypeOK, DPTypeOK
<1>5. CASE AddToElem(c, h)
  <2>1. /\ h.elem \in Elem /\ owner' = owner /\ drops' = drops /\ skipped' = skipped
    BY <1>1, <1>5 DEF AddToElem
  <2>2. CASE owner[h.elem] = NoKey
    <3>1. slot' = slot /\ d \in overlapped
      BY <1>1, <1>3, <1>5, <2>1, <2>2 DEF AddToElem
    <3> QED BY <1>2, <2>1, <3>1 DEF ExitEffect, LinkInv
  <2>3. CASE owner[h.elem] # NoKey
    <3>1. slot' = [slot EXCEPT ![h.elem][c] = @ \cup {d}]
      BY <1>5, <2>3 DEF AddToElem
    <3>2. /\ slot'[h.elem][c] = slot[h.elem][c] \cup {d}
          /\ \A e \in Elem, x \in CPU : e # h.elem \/ x # c => slot'[e][x] = slot[e][x]
      BY <1>4, <2>1, <3>1
    <3>3. LinkInv'
      BY <2>1, <2>3, <3>2 DEF LinkInv
    <3>4. \A e \in Elem, x \in CPU : d \in slot'[e][x] => e = h.elem /\ x = c
      BY <1>2, <3>2
    <3>5. \A e \in Elem, x \in CPU : /\ slot'[e][x] \subseteq slot[e][x] \cup {d}
                                    /\ slot[e][x] \subseteq slot'[e][x]
      BY <3>2
    <3>6. \E e \in Elem, x \in CPU : d \in slot'[e][x]
      BY <2>1, <3>2
    <3>7. \A e \in Elem, x \in CPU : d \in slot'[e][x] =>
            owner'[e] = h.key \/ d \in overlapped
      BY <1>3, <2>1, <3>4, DataPlaneAssumption
    <3>8. \A e1, e2 \in Elem, x1, x2 \in CPU :
            d \in slot'[e1][x1] /\ d \in slot'[e2][x2] => e1 = e2 /\ x1 = x2
      BY <3>4
    <3> QED BY <2>1, <3>3, <3>5, <3>6, <3>7, <3>8, Zenon DEF ExitEffect
  <2> QED BY <2>2, <2>3
<1>6. CASE InsertElem(c, h)
  <2>1. PICK e \in FreeElems(h.key) : Insert(e, h.key, c, {d})
    BY <1>6 DEF InsertElem
  <2>2. /\ e \in Elem /\ owner[e] = NoKey /\ drops' = drops /\ skipped' = skipped
        /\ \A e1 \in Elem : owner[e1] # h.key
    BY <1>6, PoolFacts, LookupFacts DEF InsertElem
  <2>3. /\ owner'[e] = h.key /\ \A e1 \in Elem \ {e} : owner'[e1] = owner[e1]
        /\ \A x \in CPU : slot'[e][x] = IF x = c THEN {d} ELSE {}
        /\ \A e1 \in Elem \ {e} : slot'[e1] = slot[e1]
    BY <1>4, <2>1, <2>2 DEF Insert
  <2>4. LinkInv'
    BY <1>1, <2>2, <2>3 DEF LinkInv
  <2> QED
    BY <1>2, <2>2, <2>3, <2>4 DEF ExitEffect
<1>7. CASE InsertFails(h)
  <2>1. owner' = owner /\ slot' = slot /\ skipped' = skipped /\ drops \subseteq drops'
    BY <1>7 DEF InsertFails
  <2>2. Counted(d)'
    BY <1>7 DEF InsertFails, DropSlot, Counted
  <2> QED
    BY <1>2, <2>1, <2>2 DEF ExitEffect, LinkInv
<1>8. CASE SkipMissing(h)
  <2>1. owner' = owner /\ slot' = slot /\ drops' = drops /\ skipped' = skipped \cup {d}
    BY <1>8 DEF SkipMissing
  <2> QED
    BY <1>2, <2>1 DEF ExitEffect, LinkInv
<1> QED
  BY <1>5, <1>6, <1>7, <1>8 DEF HookExit

LEMMA ExitStep ==
    ASSUME LedgerInv, TypeOK', NEW c \in CPU, NEW h \in Hook, hook[c] = h,
           HookExit(c), UNCHANGED pollVars
    PROVE  LedgerInv'
<1> DEFINE d == h.call
<1> USE DEF LedgerInv, pollVars
<1>1. /\ d \in Call /\ h.key \in Key /\ h.prog \in {"socket", "tc"}
      /\ hook[c] # NoHook /\ NoKey \notin Key
  BY HookFacts, DataPlaneAssumption DEF HookExit, TypeOK
<1>2. ExitEffect(c, d, h.key)
  BY ExitHasEffect
<1>3. ~Recorded(d)
  BY <1>1, RunningNotRecorded
<1>4. /\ stage' = [stage EXCEPT ![d] = IF h.prog = "socket" THEN AfterSocket(d) ELSE "done"]
      /\ hook' = [hook EXCEPT ![c] = NoHook]
      /\ UNCHANGED <<conn, metered>>
  BY DEF HookExit
<1>5. /\ stage \in [Call -> Stage] /\ hook \in [CPU -> Hook \cup {NoHook}]
      /\ slot \in [Elem -> [CPU -> SUBSET Call]]
      /\ owner \in [Elem -> Key \cup {NoKey}]
      /\ owner' \in [Elem -> Key \cup {NoKey}]
  BY DEF TypeOK, DPTypeOK
<1>6. LinkInv'
  BY <1>2 DEF ExitEffect
<1>7. \A x \in Call \ {d}, e \in Elem, y \in CPU : x \in slot'[e][y] <=> x \in slot[e][y]
  <2> SUFFICES ASSUME NEW x \in Call \ {d}, NEW e \in Elem, NEW y \in CPU
               PROVE  x \in slot'[e][y] <=> x \in slot[e][y]
    OBVIOUS
  <2>1. x \in slot'[e][y] => x \in slot[e][y]
    BY <1>2 DEF ExitEffect
  <2>2. x \in slot[e][y] => owner[e] # NoKey
    BY DEF LinkInv
  <2> QED BY <1>2, <2>1, <2>2 DEF ExitEffect
<1>8. SlotInv'
  <2> SUFFICES ASSUME NEW x \in Call, NEW e1 \in Elem, NEW e2 \in Elem,
                      NEW c1 \in CPU, NEW c2 \in CPU,
                      x \in slot'[e1][c1], x \in slot'[e2][c2]
               PROVE  e1 = e2 /\ c1 = c2
    BY DEF SlotInv
  <2>1. CASE x = d
    BY <1>2, <2>1 DEF ExitEffect
  <2>2. CASE x # d
    BY <1>7, <2>2 DEF SlotInv
  <2> QED BY <2>1, <2>2
<1>9. HookInv'
  <2> SUFFICES ASSUME NEW x \in CPU, hook'[x] # NoHook
               PROVE  /\ stage'[hook'[x].call] = hook'[x].prog
                      /\ hook'[x].call \in metered'
                      /\ \A y \in CPU : hook'[y] # NoHook /\ hook'[y].call = hook'[x].call => y = x
                      /\ hook'[x].key \in OwnKeys(hook'[x].call)
                      /\ hook'[x].elem # NoElem =>
                            owner'[hook'[x].elem] = hook'[x].key \/ hook'[x].call \in overlapped'
    BY DEF HookInv, OwnKeys
  <2>1. /\ x # c /\ hook'[x] = hook[x] /\ hook[x] # NoHook
        /\ \A y \in CPU : hook'[y] # NoHook => hook'[y] = hook[y]
    BY <1>4, <1>5
  <2>2. hook[x].call # d
    BY <1>1, <2>1 DEF HookInv
  <2>3. /\ hook[x].call \in Call /\ hook[x].key \in Key
        /\ hook[x].elem \in Elem \cup {NoElem}
    BY <2>1, HookFacts DEF TypeOK
  <2>4. stage'[hook[x].call] = stage[hook[x].call]
    BY <1>4, <1>5, <2>2, <2>3
  <2>5. hook[x].elem # NoElem /\ owner[hook[x].elem] = hook[x].key =>
          owner'[hook[x].elem] = hook[x].key
    BY <1>1, <1>2, <2>3 DEF ExitEffect
  <2> QED BY <1>4, <2>1, <2>4, <2>5 DEF HookInv
<1>10. StageInv'
  <2>1. \A s \in Udp : conn'[s] # "none" => TrackUDP
    BY <1>4 DEF StageInv
  <2>2. \A x \in Call \ {d} : Recorded(x)' = Recorded(x) /\ stage'[x] = stage[x]
    BY <1>4, <1>5, <1>7 DEF Recorded, InSlot, InFlows
  <2>3. stage'[d] \in {"wire", "done"}
    BY <1>1, <1>4, <1>5 DEF AfterSocket
  <2>4. stage'[d] = "wire" => UdpSocketTx
    <3>1. stage[d] = h.prog
      BY <1>1 DEF HookInv
    <3> QED BY <1>1, <1>4, <1>5, <3>1 DEF StageInv
  <2> QED
    BY <2>1, <2>2, <2>3, <2>4 DEF StageInv, AfterSocket
<1>11. PollInv'
  BY PollInvFrame
<1>12. \A x \in Call, e \in Elem : x \in Calls(e)' <=> \E y \in CPU : x \in slot'[e][y]
  BY DEF Calls
<1>13. NoDoubleCount'
  <2>1. \A x \in Call \ {d}, e \in Elem : x \in Calls(e)' <=> x \in Calls(e)
    BY <1>7, <1>12, CallsFacts
  <2>2. \A e \in Elem, x \in Call \ {d} : x \in Calls(e) => (e \in Unread' => e \in Unread)
    <3> SUFFICES ASSUME NEW e \in Elem, NEW x \in Call \ {d}, x \in Calls(e), e \in Unread'
                 PROVE  e \in Unread
      OBVIOUS
    <3>1. owner[e] # NoKey
      BY CallsFacts DEF LinkInv
    <3>2. owner'[e] = owner[e]
      BY <1>2, <3>1 DEF ExitEffect
    <3> QED BY <3>2 DEF Unread
  <2>3. ~InFlows(d, snap) /\ ~InFlows(d, delivered)
    BY <1>3 DEF Recorded
  <2>4. \A x \in Call \ kept : InFlows(x, snap \cup delivered) =>
          \A e \in Unread' : x \notin Calls(e)'
    <3> SUFFICES ASSUME NEW x \in Call \ kept, InFlows(x, snap \cup delivered), NEW e \in Unread'
                 PROVE  x \notin Calls(e)'
      OBVIOUS
    <3>1. x # d
      BY <2>3 DEF InFlows
    <3>2. e \in Elem
      BY DEF Unread
    <3> QED BY <2>1, <2>2, <3>1, <3>2 DEF NoDoubleCount
  <2> QED
    BY <1>8, <2>4 DEF NoDoubleCount, SlotInv, Unread, InFlows
<1>14. Conservation'
  <2>1. \A x : InMap(x) /\ x \in Call => InMap(x)'
    BY <1>2, <1>12, CallsFacts DEF InMap, ExitEffect
  <2>3. Finished' \subseteq Finished \cup {d}
    BY <1>4, <1>5 DEF Finished
  <2>4. Accounted(d)' \/ Counted(d)' \/ d \in overlapped \/ d \in skipped'
    <3>1. CASE \E e \in Elem, x \in CPU : d \in slot'[e][x]
      <4>1. InMap(d)'
        BY <1>1, <1>6, <1>12, <3>1 DEF InMap, LinkInv
      <4> QED BY <4>1 DEF Accounted
    <3> QED BY <1>2, <3>1 DEF ExitEffect
  <2> SUFFICES ASSUME NEW x \in Finished'
               PROVE  Accounted(x)' \/ Counted(x)' \/ x \in overlapped \/ x \in unseen \/ x \in skipped'
    BY DEF Conservation
  <2>5. Finished \subseteq Call
    BY DEF Finished, TypeOK, DPTypeOK
  <2>6. CASE x = d
    BY <2>4, <2>6
  <2>7. CASE x # d
    <3>1. x \in Finished /\ x \in Call
      BY <2>3, <2>5, <2>7
    <3>2. Accounted(x) \/ Counted(x) \/ x \in overlapped \/ x \in unseen \/ x \in skipped
      BY <3>1 DEF Conservation
    <3>3. Accounted(x) => Accounted(x)'
      BY <1>2, <2>1, <3>1 DEF Accounted, InFlows, ExitEffect
    <3>4. (Counted(x) => Counted(x)') /\ (x \in skipped => x \in skipped')
      BY <1>2 DEF Counted, ExitEffect
    <3> QED BY <3>2, <3>3, <3>4
  <2> QED
    BY <2>6, <2>7
<1>15. Attribution'
  <2> SUFFICES ASSUME NEW x \in Call, NEW k \in Key, x \notin overlapped, k \notin OwnKeys(x),
                      NEW e \in Elem, owner'[e] = k
               PROVE  x \notin Calls(e)'
    BY DEF Attribution, OwnKeys
  <2>1. CASE x = d
    <3>1. h.key \in OwnKeys(d)
      BY <1>1 DEF HookInv
    <3> QED BY <1>2, <1>12, <2>1, <3>1 DEF ExitEffect
  <2>2. CASE x # d
    <3>1. x \in Calls(e)' => x \in Calls(e) /\ owner[e] # NoKey
      BY <1>7, <1>12, <2>2, CallsFacts DEF LinkInv
    <3>2. owner[e] # NoKey => owner[e] = k
      BY <1>2 DEF ExitEffect
    <3> QED BY <3>1, <3>2 DEF Attribution
  <2> QED BY <2>1, <2>2
<1>16. HalfInv'
  <2> SUFFICES ASSUME half # NoKey, NEW x \in Call \ kept, NEW e \in Elem,
                      owner'[e] = half, x \in Calls(e)', InFlows(x, snap \cup delivered)
               PROVE  <<half, x>> \in snap
    BY DEF HalfInv, InFlows
  <2>1. x # d
    BY <1>3 DEF Recorded, InFlows
  <2>2. x \in Calls(e) /\ owner[e] # NoKey
    BY <1>7, <1>12, <2>1, CallsFacts DEF LinkInv
  <2>3. owner[e] = half
    BY <1>2, <2>2 DEF ExitEffect
  <2> QED BY <2>2, <2>3 DEF HalfInv
<1> QED
  BY <1>6, <1>8, <1>9, <1>10, <1>11, <1>13, <1>14, <1>15, <1>16

-----------------------------------------------------------------------------
(* The poller takes a flow out of the map. *)

\* Unlinking an element keeps what the invariant says of links, programs,
\* stages and counters, provided the calls of the programs that hold the
\* element are marked as overlapped and nothing is read that was not there.
LEMMA UnlinkStep ==
    ASSUME LedgerInv, TypeOK', NEW e \in Elem, owner[e] # NoKey, Unlink(e),
           Holding(e) \subseteq overlapped', overlapped \subseteq overlapped',
           UNCHANGED delivered,
           \A f \in snap' : f \in snap \/ f[2] \in Calls(e)
    PROVE  /\ LinkInv' /\ HookInv' /\ StageInv' /\ SlotInv'
           /\ \A e1 \in Elem \ {e} : owner'[e1] = owner[e1] /\ slot'[e1] = slot[e1]
           /\ owner'[e] = NoKey /\ Calls(e)' = {}
           /\ \A e1 \in Elem \ {e} : Calls(e1)' = Calls(e1)
<1> USE DEF LedgerInv
<1>1. /\ slot \in [Elem -> [CPU -> SUBSET Call]]
      /\ owner \in [Elem -> Key \cup {NoKey}]
      /\ UNCHANGED <<hook, stage, metered, conn>>
  BY DEF Unlink, TypeOK, DPTypeOK
<1>2. /\ owner'[e] = NoKey /\ \A e1 \in Elem \ {e} : owner'[e1] = owner[e1]
      /\ \A x \in CPU : slot'[e][x] = {}
      /\ \A e1 \in Elem \ {e} : slot'[e1] = slot[e1]
  BY <1>1 DEF Unlink
<1>3. \A e1 \in Elem, x \in CPU : slot'[e1][x] \subseteq slot[e1][x]
  BY <1>2
<1>4. LinkInv'
  BY <1>2 DEF LinkInv
<1>5. SlotInv'
  BY <1>3 DEF SlotInv
<1>6. HookInv'
  <2> SUFFICES ASSUME NEW x \in CPU, hook[x] # NoHook
               PROVE  hook[x].elem # NoElem =>
                        owner'[hook[x].elem] = hook[x].key \/ hook[x].call \in overlapped'
    BY <1>1 DEF HookInv, OwnKeys
  <2>1. hook[x].elem \in Elem \cup {NoElem} /\ hook[x].call \in Call
    BY HookFacts DEF TypeOK
  <2>2. CASE hook[x].elem = e
    BY <2>1, <2>2 DEF Holding
  <2>3. CASE hook[x].elem # e
    BY <1>2, <2>1, <2>3 DEF HookInv
  <2> QED BY <2>2, <2>3
<1>7. StageInv'
  <2>1. ASSUME NEW d \in Call, Recorded(d)' PROVE Recorded(d)
    <3>1. CASE InSlot(d)'
      BY <1>3, <3>1 DEF InSlot, Recorded
    <3>2. CASE InFlows(d, snap)'
      <4>1. PICK k \in Key : <<k, d>> \in snap'
        BY <3>2 DEF InFlows
      <4>2. CASE <<k, d>> \in snap
        BY <4>2 DEF InFlows, Recorded
      <4>3. CASE d \in Calls(e)
        BY <4>3, InSlotFacts DEF Recorded
      <4> QED BY <4>1, <4>2, <4>3
    <3>3. CASE InFlows(d, delivered)'
      BY <3>3 DEF InFlows, Recorded
    <3> QED BY <2>1, <3>1, <3>2, <3>3 DEF Recorded
  <2> QED
    BY <1>1, <2>1 DEF StageInv, AfterSocket
<1>8. Calls(e)' = {} /\ \A e1 \in Elem \ {e} : Calls(e1)' = Calls(e1)
  BY <1>2 DEF Calls
<1> QED
  BY <1>2, <1>4, <1>5, <1>6, <1>7, <1>8

\* One atomic lookup-and-delete: what leaves the map is in the snapshot.
LEMMA DrainKeyStep ==
    ASSUME LedgerInv, TypeOK', NEW k \in Key, DrainKey(k)
    PROVE  LedgerInv'
<1> USE DEF LedgerInv
<1>1. CASE Lookup(k) = NoElem
  <2>1. UNCHANGED <<owner, slot, hook, stage, metered, skipped, drops, conn, snap,
                    delivered, overlapped, half, unseen, kept, phase, life, pubOpen>>
    BY <1>1 DEF DrainKey, dpVars
  <2>2. PollInv'
    BY <2>1 DEF PollInv, DrainKey
  <2> QED
    BY <2>1, <2>2, QuietStep DEF StageInv
<1>2. CASE Lookup(k) # NoElem
  <2>1. PICK e \in Elem : e = Lookup(k) /\ owner[e] = k
    BY <1>2, LookupFacts
  <2>2. /\ snap' = snap \cup ({k} \X Calls(e))
        /\ overlapped' = overlapped \cup Holding(e)
        /\ Unlink(e)
        /\ UNCHANGED <<phase, half, delivered, life, pubOpen, unseen, kept>>
        /\ half = NoKey
    BY <1>2, <2>1 DEF DrainKey
  <2>3. k # NoKey
    BY DataPlaneAssumption
  <2>4. \A f \in snap' : f \in snap \/ f[2] \in Calls(e)
    BY <2>2
  <2>5. /\ LinkInv' /\ HookInv' /\ StageInv' /\ SlotInv'
        /\ \A e1 \in Elem \ {e} : owner'[e1] = owner[e1] /\ slot'[e1] = slot[e1]
        /\ owner'[e] = NoKey /\ Calls(e)' = {}
        /\ \A e1 \in Elem \ {e} : Calls(e1)' = Calls(e1)
    BY <2>1, <2>2, <2>3, <2>4, UnlinkStep
  <2>6. PollInv'
    BY <2>2 DEF PollInv, DrainKey
  <2>7. \A x \in Calls(e) \ kept : ~InFlows(x, snap \cup delivered)
    <3>1. e \in Unread /\ Calls(e) \subseteq Call
      BY <2>1, <2>2, <2>3, CallsType DEF Unread, TypeOK
    <3> QED BY <3>1 DEF NoDoubleCount
  <2>8. \A x \in Call, j \in Key :
          <<j, x>> \in snap' <=> <<j, x>> \in snap \/ (j = k /\ x \in Calls(e))
    BY <2>2
  <2>9. NoDoubleCount'
    <3> SUFFICES ASSUME NEW d \in Call \ kept
                 PROVE  /\ \A e1, e2 \in Unread', c1, c2 \in CPU :
                              d \in slot'[e1][c1] /\ d \in slot'[e2][c2] => e1 = e2 /\ c1 = c2
                        /\ \A k1, k2 \in Key :
                              /\ <<k1, d>> \in snap' \/ <<k1, d>> \in delivered
                              /\ <<k2, d>> \in snap' \/ <<k2, d>> \in delivered
                              => k1 = k2
                        /\ \A j \in Key : ~(<<j, d>> \in snap' /\ <<j, d>> \in delivered)
                        /\ (\E j \in Key : <<j, d>> \in snap' \/ <<j, d>> \in delivered) =>
                              \A e1 \in Unread' : d \notin Calls(e1)'
      BY <2>2 DEF NoDoubleCount, InFlows
    <3>1. Unread' \subseteq Elem
      BY DEF Unread
    <3>2. \A e1 \in Unread' : e1 # e /\ e1 \in Unread /\ Calls(e1)' = Calls(e1)
      BY <2>2, <2>5 DEF Unread
    <3>3. \A e1, e2 \in Unread', c1, c2 \in CPU :
            d \in slot'[e1][c1] /\ d \in slot'[e2][c2] => e1 = e2 /\ c1 = c2
      BY <2>5, <3>1 DEF SlotInv
    <3>4. CASE d \in Calls(e)
      <4>1. \A j \in Key : <<j, d>> \notin snap /\ <<j, d>> \notin delivered
        BY <2>7, <3>4 DEF InFlows
      <4>2. \A e1 \in Unread' : d \notin Calls(e1)'
        <5> SUFFICES ASSUME NEW e1 \in Unread', d \in Calls(e1) PROVE FALSE
          BY <3>2
        <5>1. e1 # e /\ e1 \in Elem
          BY <3>1, <3>2
        <5> QED BY <3>4, <5>1, CallsFacts DEF SlotInv
      <4> QED BY <2>8, <3>3, <4>1, <4>2
    <3>5. CASE d \notin Calls(e)
      <4>1. \A j \in Key : <<j, d>> \in snap' <=> <<j, d>> \in snap
        BY <2>8, <3>5
      <4> QED BY <3>2, <3>3, <4>1 DEF NoDoubleCount, InFlows
    <3> QED BY <3>4, <3>5
  <2>10. Conservation'
    <3> SUFFICES ASSUME NEW x \in Finished'
                 PROVE  Accounted(x)' \/ Counted(x)' \/ x \in overlapped' \/ x \in unseen' \/ x \in skipped'
      BY DEF Conservation
    <3>1. x \in Finished /\ x \in Call /\ UNCHANGED <<drops, skipped>>
      BY <2>2 DEF Finished, Unlink, TypeOK, DPTypeOK
    <3>2. Accounted(x) \/ Counted(x) \/ x \in overlapped \/ x \in unseen \/ x \in skipped
      BY <3>1 DEF Conservation
    <3>3. CASE InMap(x)
      <4>1. PICK e1 \in Elem : owner[e1] # NoKey /\ x \in Calls(e1)
        BY <3>3 DEF InMap
      <4>2. CASE e1 = e
        BY <2>8, <3>1, <4>1, <4>2 DEF Accounted, InFlows
      <4>3. CASE e1 # e
        BY <2>5, <4>1, <4>3 DEF Accounted, InMap
      <4> QED BY <4>2, <4>3
    <3>4. CASE InFlows(x, snap) \/ InFlows(x, delivered)
      BY <2>2, <3>4 DEF Accounted, InFlows
    <3>5. CASE Counted(x) \/ x \in overlapped \/ x \in unseen \/ x \in skipped
      BY <2>2, <3>1, <3>5 DEF Counted
    <3> QED BY <3>2, <3>3, <3>4, <3>5 DEF Accounted
  <2>11. Attribution'
    <3> SUFFICES ASSUME NEW d \in Call, NEW j \in Key, d \notin overlapped', j \notin OwnKeys(d)
                 PROVE  /\ <<j, d>> \notin snap' /\ <<j, d>> \notin delivered'
                        /\ \A e1 \in Elem : owner'[e1] = j => d \notin Calls(e1)'
      BY DEF Attribution, OwnKeys
    <3>1. /\ <<j, d>> \notin snap /\ <<j, d>> \notin delivered
          /\ \A e1 \in Elem : owner[e1] = j => d \notin Calls(e1)
      BY <2>2 DEF Attribution
    <3> QED
      BY <2>1, <2>2, <2>5, <2>8, <3>1
  <2>12. HalfInv'
    BY <2>2 DEF HalfInv
  <2> QED
    BY <2>5, <2>6, <2>9, <2>10, <2>11, <2>12
<1> QED
  BY <1>1, <1>2

\* The fallback's first half: the flow is in the snapshot and still linked.
LEMMA LossyReadStep ==
    ASSUME LedgerInv, TypeOK', NEW k \in Key, LossyRead(k)
    PROVE  LedgerInv'
<1> USE DEF LedgerInv
<1>1. PICK e \in Elem : e = Lookup(k) /\ owner[e] = k
  BY LookupFacts DEF LossyRead
<1>2. /\ snap' = snap \cup ({k} \X Calls(e)) /\ half' = k /\ half = NoKey
      /\ UNCHANGED <<owner, slot, hook, stage, metered, skipped, drops, conn,
                     delivered, overlapped, unseen, kept, phase, life, pubOpen>>
  BY <1>1 DEF LossyRead, FallBack, dpVars
<1>3. k # NoKey
  BY DataPlaneAssumption
<1>4. \A x : Calls(x)' = Calls(x)
  BY <1>2 DEF Calls
<1>5. LinkInv' /\ SlotInv'
  BY <1>2 DEF LinkInv, SlotInv
<1>6. HookInv'
  BY <1>2 DEF HookInv, OwnKeys
<1>7. \A x \in Call, j \in Key :
        <<j, x>> \in snap' <=> <<j, x>> \in snap \/ (j = k /\ x \in Calls(e))
  BY <1>2
<1>8. StageInv'
  <2>1. ASSUME NEW d \in Call, Recorded(d)' PROVE Recorded(d)
    <3>1. CASE InSlot(d)'
      BY <1>2, <3>1 DEF InSlot, Recorded
    <3>2. CASE InFlows(d, snap)'
      BY <1>7, <3>2, InSlotFacts DEF InFlows, Recorded
    <3>3. CASE InFlows(d, delivered)'
      BY <1>2, <3>3 DEF InFlows, Recorded
    <3> QED BY <2>1, <3>1, <3>2, <3>3 DEF Recorded
  <2> QED BY <1>2, <2>1 DEF StageInv, AfterSocket
<1>9. PollInv'
  BY <1>2 DEF PollInv, LossyRead, FallBack
<1>10. \A x \in Calls(e) \ kept : ~InFlows(x, snap \cup delivered)
  <2>1. e \in Unread /\ Calls(e) \subseteq Call
    BY <1>1, <1>2, <1>3, CallsType DEF Unread, TypeOK
  <2> QED BY <2>1 DEF NoDoubleCount
<1>11. NoDoubleCount'
  <2> SUFFICES ASSUME NEW d \in Call \ kept
               PROVE  /\ \A e1, e2 \in Unread', c1, c2 \in CPU :
                            d \in slot'[e1][c1] /\ d \in slot'[e2][c2] => e1 = e2 /\ c1 = c2
                      /\ \A k1, k2 \in Key :
                            /\ <<k1, d>> \in snap' \/ <<k1, d>> \in delivered
                            /\ <<k2, d>> \in snap' \/ <<k2, d>> \in delivered
                            => k1 = k2
                      /\ \A j \in Key : ~(<<j, d>> \in snap' /\ <<j, d>> \in delivered)
                      /\ (\E j \in Key : <<j, d>> \in snap' \/ <<j, d>> \in delivered) =>
                            \A e1 \in Unread' : d \notin Calls(e1)'
    BY <1>2 DEF NoDoubleCount, InFlows
  <2>1. Unread' \subseteq Elem
    BY DEF Unread
  <2>2. \A e1 \in Unread' : e1 # e /\ e1 \in Unread
    BY <1>1, <1>2 DEF Unread
  <2>3. \A e1, e2 \in Unread', c1, c2 \in CPU :
          d \in slot'[e1][c1] /\ d \in slot'[e2][c2] => e1 = e2 /\ c1 = c2
    BY <1>5, <2>1 DEF SlotInv
  <2>4. CASE d \in Calls(e)
    <3>1. \A j \in Key : <<j, d>> \notin snap /\ <<j, d>> \notin delivered
      BY <1>10, <2>4 DEF InFlows
    <3>2. \A e1 \in Unread' : d \notin Calls(e1)'
      <4> SUFFICES ASSUME NEW e1 \in Unread', d \in Calls(e1) PROVE FALSE
        BY <1>4
      <4>1. e1 # e /\ e1 \in Elem
        BY <2>1, <2>2
      <4> QED BY <2>4, <4>1, CallsFacts DEF SlotInv
    <3> QED BY <1>7, <2>3, <3>1, <3>2
  <2>5. CASE d \notin Calls(e)
    <3>1. \A j \in Key : <<j, d>> \in snap' <=> <<j, d>> \in snap
      BY <1>7, <2>5
    <3> QED BY <1>4, <2>2, <2>3, <3>1 DEF NoDoubleCount, InFlows
  <2> QED BY <2>4, <2>5
<1>12. Conservation'
  <2> SUFFICES ASSUME NEW x \in Finished'
               PROVE  Accounted(x)' \/ Counted(x)' \/ x \in overlapped \/ x \in unseen \/ x \in skipped
    BY <1>2 DEF Conservation
  <2>1. x \in Finished
    BY <1>2 DEF Finished
  <2>2. Accounted(x) \/ Counted(x) \/ x \in overlapped \/ x \in unseen \/ x \in skipped
    BY <2>1 DEF Conservation
  <2>3. Accounted(x) => Accounted(x)'
    BY <1>2, <1>4 DEF Accounted, InMap, InFlows
  <2>4. Counted(x) => Counted(x)'
    BY <1>2 DEF Counted
  <2> QED BY <2>2, <2>3, <2>4
<1>13. Attribution'
  <2> SUFFICES ASSUME NEW d \in Call, NEW j \in Key, d \notin overlapped, j \notin OwnKeys(d)
               PROVE  /\ <<j, d>> \notin snap' /\ <<j, d>> \notin delivered
                      /\ \A e1 \in Elem : owner[e1] = j => d \notin Calls(e1)
    BY <1>2, <1>4 DEF Attribution, OwnKeys
  <2>1. /\ <<j, d>> \notin snap /\ <<j, d>> \notin delivered
        /\ \A e1 \in Elem : owner[e1] = j => d \notin Calls(e1)
    BY DEF Attribution
  <2> QED
    BY <1>1, <1>7, <2>1
<1>14. HalfInv'
  BY <1>1, <1>2, <1>4, <1>7, CallsType DEF HalfInv, LinkInv, TypeOK
<1> QED
  BY <1>5, <1>6, <1>8, <1>9, <1>11, <1>12, <1>13, <1>14

\* The Lookup failed: nothing is collected, and the key is still to be deleted.
LEMMA LossyReadFailsStep ==
    ASSUME LedgerInv, TypeOK', NEW k \in Key, LossyReadFails(k)
    PROVE  LedgerInv'
<1> USE DEF LedgerInv
<1>1. /\ UNCHANGED <<owner, slot, hook, stage, metered, skipped, drops, conn, snap,
                     delivered, overlapped, kept, phase, life, pubOpen>>
      /\ half = NoKey /\ half' = k /\ unseen \subseteq unseen'
  BY DEF LossyReadFails, FallBack, dpVars
<1>2. \A e : Calls(e)' = Calls(e)
  BY <1>1 DEF Calls
<1>3. PollInv'
  BY <1>1 DEF PollInv, LossyReadFails, FallBack
<1>4. Unread' \subseteq Unread /\ \A e \in Elem : owner[e] = k => e \in Unread
  BY <1>1, DataPlaneAssumption DEF Unread
<1>5. NoDoubleCount'
  BY <1>1, <1>2, <1>4 DEF NoDoubleCount, InFlows
<1>6. HalfInv'
  BY <1>1, <1>2, <1>4 DEF HalfInv, NoDoubleCount, InFlows
<1> QED
  BY <1>1, <1>3, <1>5, <1>6, UntouchedStep DEF StageInv

\* The second half: what arrived after the read goes with the element, and
\* is marked as overlapped.
LEMMA LossyDeleteStep ==
    ASSUME LedgerInv, TypeOK', LossyDelete
    PROVE  LedgerInv'
<1> USE DEF LedgerInv
<1>1. PICK e \in Elem : e = Lookup(half) /\ owner[e] = half /\ half # NoKey
  BY LookupFacts DEF LossyDelete
<1>2. HalfInv'
  BY DEF HalfInv, LossyDelete
<1>3. /\ overlapped' = overlapped \cup Holding(e)
                          \cup {d \in Calls(e) \ unseen : <<half, d>> \notin snap}
      /\ Unlink(e) /\ half' = NoKey
      /\ UNCHANGED <<phase, todo, snap, delivered, life, pubOpen, unseen, kept>>
  BY <1>1 DEF LossyDelete
<1>4. /\ LinkInv' /\ HookInv' /\ StageInv' /\ SlotInv'
      /\ \A e1 \in Elem \ {e} : owner'[e1] = owner[e1] /\ slot'[e1] = slot[e1]
      /\ owner'[e] = NoKey /\ Calls(e)' = {}
      /\ \A e1 \in Elem \ {e} : Calls(e1)' = Calls(e1)
  BY <1>1, <1>3, UnlinkStep
<1>5. PollInv'
  BY <1>3 DEF PollInv
<1>6. NoDoubleCount'
  <2>1. Unread' \subseteq Unread /\ e \notin Unread' /\ Unread' \subseteq Elem
    BY <1>1, <1>3, <1>4 DEF Unread, LinkInv
  <2>2. \A e1 \in Unread' : slot'[e1] = slot[e1] /\ Calls(e1)' = Calls(e1)
    BY <1>4, <2>1
  <2> QED
    BY <1>3, <2>1, <2>2 DEF NoDoubleCount, InFlows
<1>7. Conservation'
  <2> SUFFICES ASSUME NEW x \in Finished'
               PROVE  Accounted(x)' \/ Counted(x)' \/ x \in overlapped' \/ x \in unseen' \/ x \in skipped'
    BY DEF Conservation
  <2>1. x \in Finished /\ x \in Call /\ UNCHANGED <<drops, skipped>>
    BY <1>3 DEF Finished, Unlink, TypeOK, DPTypeOK
  <2>2. Accounted(x) \/ Counted(x) \/ x \in overlapped \/ x \in unseen \/ x \in skipped
    BY <2>1 DEF Conservation
  <2>3. CASE InMap(x)
    <3>1. PICK e1 \in Elem : owner[e1] # NoKey /\ x \in Calls(e1)
      BY <2>3 DEF InMap
    <3>2. CASE e1 = e
      <4>1. half \in Key
        BY <1>1 DEF TypeOK
      <4>2. CASE <<half, x>> \in snap
        BY <1>3, <4>1, <4>2 DEF Accounted, InFlows
      <4>3. CASE <<half, x>> \notin snap
        BY <1>3, <3>1, <3>2, <4>3
      <4> QED BY <4>2, <4>3
    <3>3. CASE e1 # e
      BY <1>4, <3>1, <3>3 DEF Accounted, InMap
    <3> QED BY <3>2, <3>3
  <2>4. CASE InFlows(x, snap) \/ InFlows(x, delivered)
    BY <1>3, <2>4 DEF Accounted, InFlows
  <2>5. CASE Counted(x) \/ x \in overlapped \/ x \in unseen \/ x \in skipped
    BY <1>3, <2>1, <2>5 DEF Counted
  <2> QED BY <2>2, <2>3, <2>4, <2>5 DEF Accounted
<1>8. Attribution'
  <2> SUFFICES ASSUME NEW d \in Call, NEW j \in Key, d \notin overlapped', j \notin OwnKeys(d)
               PROVE  /\ <<j, d>> \notin snap' /\ <<j, d>> \notin delivered'
                      /\ \A e1 \in Elem : owner'[e1] = j => d \notin Calls(e1)'
    BY DEF Attribution, OwnKeys
  <2>1. /\ <<j, d>> \notin snap /\ <<j, d>> \notin delivered
        /\ \A e1 \in Elem : owner[e1] = j => d \notin Calls(e1)
    BY <1>3 DEF Attribution
  <2> QED
    BY <1>3, <1>4, <2>1
<1> QED
  BY <1>2, <1>4, <1>5, <1>6, <1>7, <1>8

\* The Delete failed: what was read may be read again, and is marked as kept.
LEMMA LossyDeleteFailsStep ==
    ASSUME LedgerInv, TypeOK', LossyDeleteFails
    PROVE  LedgerInv'
<1> USE DEF LedgerInv
<1>1. /\ UNCHANGED <<owner, slot, hook, stage, metered, skipped, drops, conn, snap,
                     delivered, overlapped, unseen, phase, todo, life, pubOpen>>
      /\ half # NoKey /\ half' = NoKey
      /\ kept' = kept \cup {d \in Call : <<half, d>> \in snap}
  BY DEF LossyDeleteFails, dpVars
<1>2. \A e : Calls(e)' = Calls(e)
  BY <1>1 DEF Calls
<1>3. PollInv' /\ HalfInv'
  BY <1>1 DEF PollInv, HalfInv
<1>4. NoDoubleCount'
  <2>1. \A d \in Call \ kept', e \in Unread' :
          InFlows(d, snap \cup delivered) => d \notin Calls(e)
    <3> SUFFICES ASSUME NEW d \in Call \ kept', NEW e \in Unread',
                        InFlows(d, snap \cup delivered), d \in Calls(e)
                 PROVE  FALSE
      OBVIOUS
    <3>1. e \in Elem /\ owner[e] # NoKey /\ d \notin kept /\ <<half, d>> \notin snap
      BY <1>1 DEF Unread
    <3>2. CASE owner[e] = half
      BY <1>1, <3>1, <3>2 DEF HalfInv
    <3>3. CASE owner[e] # half
      BY <3>1, <3>3 DEF NoDoubleCount, Unread
    <3> QED BY <3>2, <3>3
  <2>2. Unread' \subseteq Elem /\ kept \subseteq kept'
    BY <1>1 DEF Unread
  <2> QED
    BY <1>1, <1>2, <2>1, <2>2 DEF NoDoubleCount, SlotInv, InFlows
<1> QED
  BY <1>1, <1>3, <1>4, UntouchedStep DEF StageInv

\* The handler takes the snapshot over while the publisher is still open.
LEMMA DeliverStep ==
    ASSUME LedgerInv, TypeOK', Deliver
    PROVE  LedgerInv'
<1> USE DEF LedgerInv
<1>1. pubOpen
  BY DEF Deliver, PollInv
<1>2. /\ delivered' = delivered \cup snap /\ snap' = {} /\ phase' = "idle"
      /\ UNCHANGED <<owner, slot, hook, stage, metered, skipped, drops, conn,
                     overlapped, half, todo, pubOpen, unseen, kept>>
      /\ half = NoKey
      /\ life' = IF life = "final" THEN "flushed" ELSE life
  BY <1>1 DEF Deliver, PollInv, dpVars
<1>3. LinkInv' /\ SlotInv' /\ HalfInv'
  BY <1>2 DEF LinkInv, SlotInv, HalfInv
<1>4. HookInv'
  BY <1>2 DEF HookInv, OwnKeys
<1>5. \A d : /\ InFlows(d, snap)' = FALSE
            /\ InFlows(d, delivered)' <=> InFlows(d, snap) \/ InFlows(d, delivered)
  BY <1>2 DEF InFlows
<1>6. StageInv'
  <2>1. \A d : Recorded(d)' = Recorded(d)
    BY <1>2 DEF Recorded, InSlot, InFlows
  <2> QED BY <1>2, <2>1 DEF StageInv, AfterSocket
<1>7. PollInv'
  BY <1>2, TypeOK DEF PollInv, Deliver
<1>8. \A x : Calls(x)' = Calls(x)
  BY <1>2 DEF Calls
<1>9. NoDoubleCount'
  <2>1. Unread' = Unread /\ snap' \cup delivered' = snap \cup delivered
    BY <1>2 DEF Unread
  <2> QED BY <1>2, <1>8, <2>1 DEF NoDoubleCount, InFlows
<1>10. Conservation'
  <2> SUFFICES ASSUME NEW x \in Finished'
               PROVE  Accounted(x)' \/ Counted(x)' \/ x \in overlapped \/ x \in unseen \/ x \in skipped
    BY <1>2 DEF Conservation
  <2>1. x \in Finished
    BY <1>2 DEF Finished
  <2>2. Accounted(x) \/ Counted(x) \/ x \in overlapped \/ x \in unseen \/ x \in skipped
    BY <2>1 DEF Conservation
  <2>3. Accounted(x) => Accounted(x)'
    BY <1>2, <1>5, <1>8 DEF Accounted, InMap
  <2>4. Counted(x) => Counted(x)'
    BY <1>2 DEF Counted
  <2> QED BY <2>2, <2>3, <2>4
<1>11. Attribution'
  BY <1>2, <1>8 DEF Attribution, OwnKeys
<1> QED
  BY <1>3, <1>4, <1>6, <1>7, <1>9, <1>10, <1>11

-----------------------------------------------------------------------------
(* Every step keeps the invariant. *)

\* An LRU insertion into connections drops entries or writes one; UDP
\* entries are written only when UDP is tracked.
LEMMA ConnStaysTracked ==
    ASSUME LedgerInv, NEW s \in Sock, NEW kind, s \in Udp => TrackUDP,
           conn' \in ConnInsert(s, kind)
    PROVE  \A x \in Udp : conn'[x] # "none" => TrackUDP
<1>1. \A x \in Sock : conn'[x] # "none" => x = s \/ conn[x] # "none"
  BY DEF ConnInsert
<1> QED
  BY <1>1, DataPlaneAssumption DEF LedgerInv, StageInv

LEMMA EmitKeepsDrops ==
    ASSUME NEW type, NEW s, NEW kind, NEW lost, Emit(type, s, kind, lost)
    PROVE  drops \subseteq drops'
BY DEF Emit

LEMMA EstablishedStep ==
    ASSUME LedgerInv, TypeOK', NEW s \in Sock, s \notin Udp, NEW kind \in ConnKind,
           HandleEstablished(s, kind),
           UNCHANGED <<hook, stage, metered, skipped>>, UNCHANGED pollVars
    PROVE  LedgerInv'
<1> DEFINE k == KeyOf[s][kind]
<1>1. \A x \in Udp : conn'[x] # "none" => TrackUDP
  BY ConnStaysTracked DEF HandleEstablished
<1>2. drops \subseteq drops'
  BY EmitKeepsDrops DEF HandleEstablished
<1>3. PICK c \in CPU : Seed(c, k)
  BY DEF HandleEstablished
<1>4. CASE Lookup(k) = NoElem /\ FreeElems(k) # {}
  <2>1. PICK e \in FreeElems(k) : Insert(e, k, c, {})
    BY <1>3, <1>4 DEF Seed
  <2>2. e \in Elem /\ owner[e] = NoKey /\ k \in Key
    BY PoolFacts, KeyOfType
  <2> QED
    BY <1>1, <1>2, <1>4, <2>1, <2>2, SeedStep DEF pollVars
<1>5. CASE ~(Lookup(k) = NoElem /\ FreeElems(k) # {})
  <2>1. UNCHANGED <<owner, slot>>
    BY <1>3, <1>5 DEF Seed
  <2>2. PollInv'
    BY <2>1, PollInvFrame DEF LedgerInv, pollVars
  <2> QED
    BY <1>1, <1>2, <2>1, <2>2, QuietStep DEF pollVars
<1> QED
  BY <1>4, <1>5

LEMMA SocketLedgerStep ==
    ASSUME LedgerInv, TypeOK', UNCHANGED pollVars, NEW s \in Sock,
           \/ Connect(s) \/ EstablishActive(s) \/ EstablishPassive(s)
           \/ StateClose(s) \/ SockRelease(s)
    PROVE  LedgerInv'
<1> DEFINE Quiet == /\ UNCHANGED <<owner, slot, hook, stage, metered, skipped>>
                    /\ drops \subseteq drops'
                    /\ \A x \in Udp : conn'[x] # "none" => TrackUDP
<1>1. ASSUME Quiet PROVE LedgerInv'
  <2>1. PollInv'
    BY <1>1, PollInvFrame DEF LedgerInv, pollVars
  <2> QED
    BY <1>1, <2>1, QuietStep DEF pollVars
<1>2. UNCHANGED conn => \A x \in Udp : conn'[x] # "none" => TrackUDP
  BY DEF LedgerInv, StageInv
<1>3. CASE Connect(s)
  <2>1. UNCHANGED <<owner, slot, hook, stage, metered, skipped>>
    BY <1>3 DEF Connect
  <2>2. drops \subseteq drops'
    BY <1>3, EmitKeepsDrops DEF Connect
  <2>3. conn' = conn \/ (conn' \in ConnInsert(s, "intent") /\ (s \in Udp => TrackUDP))
    BY <1>3 DEF Connect, Recordable
  <2>4. \A x \in Udp : conn'[x] # "none" => TrackUDP
    BY <1>2, <2>3, ConnStaysTracked
  <2> QED BY <1>1, <2>1, <2>2, <2>4
<1>4. CASE EstablishActive(s)
  <2>1. s \notin Udp
    BY <1>4 DEF EstablishActive
  <2>2. CASE UNCHANGED <<origDst, conn, owner, slot, drops, ring>>
    BY <1>1, <1>2, <1>4, <2>2 DEF EstablishActive
  <2>3. CASE \E kind \in ConnKind : HandleEstablished(s, kind)
    BY <1>4, <2>1, <2>3, EstablishedStep DEF EstablishActive
  <2> QED BY <1>4, <2>2, <2>3 DEF EstablishActive, ConnKind
<1>5. CASE EstablishPassive(s)
  <2>1. s \notin Udp
    BY <1>5, DataPlaneAssumption DEF EstablishPassive
  <2>2. CASE UNCHANGED <<origDst, conn, owner, slot, drops, ring>>
    BY <1>1, <1>2, <1>5, <2>2 DEF EstablishPassive
  <2>3. CASE HandleEstablished(s, "bare")
    BY <1>5, <2>1, <2>3, EstablishedStep DEF EstablishPassive, ConnKind
  <2> QED BY <1>5, <2>2, <2>3 DEF EstablishPassive
<1>6. CASE StateClose(s)
  <2>1. UNCHANGED <<owner, slot, hook, stage, metered, skipped>>
    BY <1>6 DEF StateClose
  <2>2. drops \subseteq drops'
    BY <1>6, EmitKeepsDrops DEF StateClose
  <2>3. \A x \in Sock : conn'[x] # "none" => conn[x] # "none"
    BY <1>6 DEF StateClose, LedgerInv, TypeOK, DPTypeOK
  <2> QED BY <1>1, <2>1, <2>2, <2>3, DataPlaneAssumption DEF LedgerInv, StageInv
<1>7. CASE SockRelease(s)
  <2>1. UNCHANGED <<owner, slot, hook, stage, metered, skipped, drops>>
    BY <1>7 DEF SockRelease
  <2>2. \A x \in Sock : conn'[x] # "none" => conn[x] # "none"
    BY <1>7 DEF SockRelease, LedgerInv, TypeOK, DPTypeOK
  <2> QED BY <1>1, <2>1, <2>2, DataPlaneAssumption DEF LedgerInv, StageInv
<1> QED
  BY <1>3, <1>4, <1>5, <1>6, <1>7

LEMMA PollerLedgerStep ==
    ASSUME LedgerInv, TypeOK', PollStep \/ ShutdownStep
    PROVE  LedgerInv'
<1> DEFINE Quiet == UNCHANGED <<owner, slot, hook, stage, metered, skipped, drops,
                                conn, snap, delivered, overlapped, half,
                                unseen, kept>>
<1> USE DEF LedgerInv, dpVars
<1>1. ASSUME Quiet, PollInv' PROVE LedgerInv'
  BY <1>1, QuietStep DEF StageInv
<1>2. CASE PollBegin
  BY <1>1, <1>2 DEF PollBegin, PollInv
<1>3. CASE DrainStep
  <2>1. CASE BatchError
    BY <1>1, <2>1 DEF BatchError, PollInv
  <2> QED
    BY <1>3, <2>1, DrainKeyStep, LossyReadStep, LossyReadFailsStep,
       LossyDeleteStep, LossyDeleteFailsStep DEF DrainStep
<1>4. CASE PollQuic
  BY <1>1, <1>4 DEF PollQuic, PollInv
<1>5. CASE PollEnd
  BY <1>1, <1>5 DEF PollEnd, PollInv
<1>6. CASE Deliver
  BY <1>6, DeliverStep
<1>7. CASE ShutdownStep
  BY <1>1, <1>7
     DEF ShutdownStep, StopRequested, LoopExit, ClosePublisher, CloseLoader, PollInv
<1> QED
  BY <1>2, <1>3, <1>4, <1>5, <1>6, <1>7 DEF PollStep

LEMMA LedgerInitially == FDInit => LedgerInv
<1> SUFFICES ASSUME FDInit PROVE LedgerInv
  OBVIOUS
<1> USE DEF FDInit, Init
<1>1. TypeOK
  BY DEF TypeOK, DPTypeOK, Event, Stage
<1>2. LinkInv /\ SlotInv
  BY DEF LinkInv, SlotInv
<1>3. HookInv /\ PollInv /\ HalfInv
  BY DEF HookInv, PollInv, HalfInv
<1>4. \A e \in Elem : Calls(e) = {}
  BY DEF Calls
<1>5. StageInv
  BY DataPlaneAssumption DEF StageInv, Recorded, InSlot, InFlows, AfterSocket
<1>6. NoDoubleCount
  BY <1>2, <1>4 DEF NoDoubleCount, SlotInv, Unread, InFlows
<1>7. Conservation /\ Attribution
  BY <1>4 DEF Conservation, Attribution, Finished
<1> QED
  BY <1>1, <1>2, <1>3, <1>5, <1>6, <1>7 DEF LedgerInv

\* The ledger invariant is inductive, whatever the constants.
THEOREM LedgerInvariant == Spec => []LedgerInv
<1>1. FDInit => LedgerInv
  BY LedgerInitially
<1>2. LedgerInv /\ TypeOK' /\ [Next]_vars => LedgerInv'
  <2> SUFFICES ASSUME LedgerInv, TypeOK', [Next]_vars PROVE LedgerInv'
    OBVIOUS
  <2>1. CASE KernelStep /\ UNCHANGED pollVars
    <3>1. CASE SetEnabled
      <4>1. PollInv'
        BY <2>1, <3>1, PollInvFrame DEF SetEnabled, LedgerInv, pollVars
      <4> QED BY <2>1, <3>1, <4>1, QuietStep DEF SetEnabled, pollVars, LedgerInv, StageInv
    <3>2. CASE SocketStep
      BY <2>1, <3>2, SocketLedgerStep DEF SocketStep
    <3>3. ASSUME NEW c \in CPU, HookExit(c) PROVE LedgerInv'
      <4>1. hook[c] \in Hook
        BY <3>3, HookFacts DEF HookExit, LedgerInv, TypeOK
      <4> QED BY <2>1, <3>3, <4>1, ExitStep
    <3>4. CASE HookStep
      BY <2>1, <3>3, <3>4, EnterStep DEF HookStep
    <3> QED BY <2>1, <3>1, <3>2, <3>4 DEF KernelStep
  <2>2. CASE ReadEvent
    <3>1. PollInv'
      BY <2>2, PollInvFrame DEF ReadEvent, LedgerInv, pollVars
    <3> QED BY <2>2, <3>1, QuietStep DEF ReadEvent, pollVars, LedgerInv, StageInv
  <2>3. CASE PollStep \/ ShutdownStep
    BY <2>3, PollerLedgerStep
  <2>4. CASE Terminated \/ UNCHANGED vars
    <3>1. UNCHANGED vars
      BY <2>4 DEF Terminated
    <3>2. PollInv'
      BY <3>1, PollInvFrame DEF vars, LedgerInv, pollVars, dpVars
    <3> QED BY <3>1, <3>2, QuietStep DEF vars, pollVars, dpVars, LedgerInv, StageInv
  <2> QED
    BY <2>1, <2>2, <2>3, <2>4 DEF Next
<1> QED
  BY <1>1, <1>2, FlowDrainTypeOK, PTL DEF Spec

\* No byte is reported twice, however many CPUs count, drain and deliver
\* concurrently and whichever of the two UDP sources owns a datagram, unless
\* the Delete of an element that was read has failed.
THEOREM EachByteAtMostOnce == Spec => []NoDoubleCount
<1>1. LedgerInv => NoDoubleCount
  BY DEF LedgerInv
<1> QED
  BY <1>1, LedgerInvariant, PTL

\* No admitted byte disappears outside the three named windows: a write that
\* raced the delete of its element, a delete after a Lookup that failed, and a
\* program that inserts nothing.
THEOREM BytesConserved == Spec => []Conservation
<1>1. LedgerInv => Conservation
  BY DEF LedgerInv
<1> QED
  BY <1>1, LedgerInvariant, PTL

\* Bytes are reported under their own socket's flow key, recycled map
\* elements excepted.
THEOREM BytesAttributed == Spec => []Attribution
<1>1. LedgerInv => Attribution
  BY DEF LedgerInv
<1> QED
  BY <1>1, LedgerInvariant, PTL

-----------------------------------------------------------------------------
(* The final flush.  A call that was recorded when the loop had exited is   *)
(* still ahead of the final poll, in the poll's hands, or handed over.      *)

\* Keys the poll under way has still to come to, or all of them before it.
Ahead(k) == phase = "idle" \/ k \in todo \/ (phase = "flows" /\ k \in QKey)

AwaitsFlush(d) == \E e \in Elem : owner[e] # NoKey /\ d \in Calls(e) /\ Ahead(owner[e])

Flushed(d) == InFlows(d, delivered) \/ d \in overlapped \/ d \in unseen

FlushInv ==
    /\ life = "final" =>
          \A d \in due : Flushed(d) \/ InFlows(d, snap) \/ AwaitsFlush(d)
    /\ life \in {"flushed", "detached"} => \A d \in due : Flushed(d)

\* The kernel's programs link free elements and add to linked ones: what an
\* element holds stays in it, under its key, until the poller comes.
LEMMA KernelKeepsElements ==
    ASSUME TypeOK, LinkInv, KernelStep
    PROVE  \A e \in Elem : owner[e] # NoKey =>
              owner'[e] = owner[e] /\ Calls(e) \subseteq Calls(e)'
<1> DEFINE Kept == \A e \in Elem : owner[e] # NoKey =>
                      owner'[e] = owner[e] /\ Calls(e) \subseteq Calls(e)'
<1>1. ASSUME UNCHANGED <<owner, slot>> PROVE Kept
  BY <1>1 DEF Calls
<1>2. ASSUME NEW k, NEW e \in FreeElems(k), NEW c, NEW calls, Insert(e, k, c, calls)
      PROVE  Kept
  <2>1. e \in Elem /\ owner[e] = NoKey
    BY PoolFacts
  <2>2. \A x \in Elem : x # e => owner'[x] = owner[x] /\ slot'[x] = slot[x]
    BY <1>2 DEF Insert, TypeOK, DPTypeOK
  <2> QED BY <2>1, <2>2 DEF Calls
<1>3. ASSUME NEW s \in Sock, NEW kind, HandleEstablished(s, kind) PROVE Kept
  <2>1. PICK c \in CPU : Seed(c, KeyOf[s][kind])
    BY <1>3 DEF HandleEstablished
  <2> QED BY <1>1, <1>2, <2>1 DEF Seed
<1>4. CASE SetEnabled
  BY <1>1, <1>4 DEF SetEnabled
<1>5. CASE SocketStep
  <2>1. PICK s \in Sock : \/ Connect(s) \/ EstablishActive(s) \/ EstablishPassive(s)
                          \/ StateClose(s) \/ SockRelease(s)
    BY <1>5 DEF SocketStep
  <2>2. CASE Connect(s) \/ StateClose(s) \/ SockRelease(s)
    BY <1>1, <2>2 DEF Connect, StateClose, SockRelease
  <2>3. CASE EstablishActive(s)
    BY <1>1, <1>3, <2>3 DEF EstablishActive
  <2>4. CASE EstablishPassive(s)
    BY <1>1, <1>3, <2>4 DEF EstablishPassive
  <2> QED BY <2>1, <2>2, <2>3, <2>4
<1>6. ASSUME NEW c \in CPU, HookExit(c) PROVE Kept
  <2> DEFINE h == hook[c]
  <2>1. h.elem \in Elem \cup {NoElem}
    BY <1>6, HookFacts DEF HookExit, TypeOK
  <2>2. CASE AddToElem(c, h)
    <3>1. owner' = owner
      BY <2>2 DEF AddToElem
    <3>2. h.elem \in Elem
      BY <2>1, <2>2 DEF AddToElem
    <3>3. \A e \in Elem, x \in CPU : slot[e][x] \subseteq slot'[e][x]
      BY <2>2, <3>2, <1>6 DEF AddToElem, TypeOK, DPTypeOK
    <3> QED BY <3>1, <3>3 DEF Calls
  <2>3. CASE InsertElem(c, h)
    BY <1>2, <2>3 DEF InsertElem
  <2>4. CASE InsertFails(h) \/ SkipMissing(h)
    BY <1>1, <2>4 DEF InsertFails, SkipMissing
  <2> QED BY <1>6, <2>2, <2>3, <2>4 DEF HookExit
<1>7. ASSUME NEW c \in CPU, NEW d \in Call, SocketHookEnter(c, d) \/ QuicHookEnter(c, d)
      PROVE  Kept
  BY <1>1, <1>7 DEF SocketHookEnter, QuicHookEnter
<1> QED
  BY <1>4, <1>5, <1>6, <1>7 DEF KernelStep, HookStep

\* Steps that leave the maps and the poll's progress alone, or only fill them.
LEMMA FlushKept ==
    ASSUME FlushInv, UNCHANGED <<phase, todo, life, due>>,
           \A d : InFlows(d, delivered) => InFlows(d, delivered)',
           \A d : InFlows(d, snap) => InFlows(d, snap)',
           overlapped \subseteq overlapped', unseen \subseteq unseen',
           \A e \in Elem : owner[e] # NoKey =>
              owner'[e] = owner[e] /\ Calls(e) \subseteq Calls(e)'
    PROVE  FlushInv'
<1>1. \A d : Flushed(d) => Flushed(d)'
  BY DEF Flushed
<1>2. \A d : AwaitsFlush(d) => AwaitsFlush(d)'
  BY DEF AwaitsFlush, Ahead
<1> QED
  BY <1>1, <1>2 DEF FlushInv

\* The element of a key is the one that holds what is recorded under it.
LEMMA LookupIs ==
    ASSUME LinkInv, NEW e \in Elem, owner[e] # NoKey
    PROVE  Lookup(owner[e]) = e
BY LookupFacts DEF LinkInv

\* Draining one key moves its calls into the poll and leaves the others alone.
LEMMA DrainStepFlush ==
    ASSUME ~DrainErrors, LedgerInv, FlushInv, DrainStep
    PROVE  FlushInv'
<1> USE DEF LedgerInv
<1>1. ASSUME NEW k \in Key, DrainKey(k) PROVE FlushInv'
  <2>1. UNCHANGED <<phase, life, due, delivered, unseen>> /\ todo' = todo \ {k}
    BY <1>1 DEF DrainKey
  <2>2. snap \subseteq snap' /\ overlapped \subseteq overlapped'
    BY <1>1 DEF DrainKey, dpVars
  <2>3. \A d : Flushed(d) => Flushed(d)'
    BY <2>1, <2>2 DEF Flushed, InFlows
  <2>4. ASSUME NEW d, AwaitsFlush(d) PROVE InFlows(d, snap)' \/ AwaitsFlush(d)'
    <3>1. PICK e \in Elem : owner[e] # NoKey /\ d \in Calls(e) /\ Ahead(owner[e])
      BY <2>4 DEF AwaitsFlush
    <3>2. CASE owner[e] = k
      <4>1. Lookup(k) = e /\ e # NoElem
        BY <3>1, <3>2, LookupIs, DataPlaneAssumption
      <4>2. <<k, d>> \in snap'
        BY <1>1, <3>1, <4>1 DEF DrainKey
      <4> QED BY <4>2 DEF InFlows
    <3>3. CASE owner[e] # k
      <4>1. Lookup(k) # NoElem => Lookup(k) # e
        BY <3>3, LookupFacts
      <4>2. owner'[e] = owner[e] /\ slot'[e] = slot[e]
        BY <1>1, <4>1 DEF DrainKey, Unlink, dpVars, TypeOK, DPTypeOK
      <4>3. Calls(e)' = Calls(e)
        BY <4>2 DEF Calls
      <4>4. Ahead(owner[e])'
        BY <2>1, <3>1, <3>3, <4>2 DEF Ahead
      <4> QED BY <3>1, <4>2, <4>3, <4>4 DEF AwaitsFlush
    <3> QED BY <3>2, <3>3
  <2>5. \A d : InFlows(d, snap) => InFlows(d, snap)'
    BY <2>2 DEF InFlows
  <2> QED BY <2>1, <2>3, <2>4, <2>5 DEF FlushInv
<1>2. ASSUME NEW k \in Key, LossyRead(k) \/ LossyReadFails(k) PROVE FlushInv'
  <2>1. /\ UNCHANGED <<phase, life, due, delivered, overlapped, owner, slot>>
        /\ todo' = todo \ {k} /\ snap \subseteq snap' /\ unseen \subseteq unseen'
    BY <1>2 DEF LossyRead, LossyReadFails, FallBack, dpVars
  <2>2. \A d : Flushed(d) => Flushed(d)'
    BY <2>1 DEF Flushed, InFlows
  <2>3. ASSUME NEW d, AwaitsFlush(d)
        PROVE  InFlows(d, snap)' \/ AwaitsFlush(d)' \/ d \in unseen'
    <3>1. PICK e \in Elem : owner[e] # NoKey /\ d \in Calls(e) /\ Ahead(owner[e])
      BY <2>3 DEF AwaitsFlush
    <3>2. CASE owner[e] = k
      <4>1. Lookup(k) = e /\ e # NoElem
        BY <3>1, <3>2, LookupIs, DataPlaneAssumption
      <4>2. <<k, d>> \in snap' \/ d \in unseen'
        BY <1>2, <3>1, <4>1 DEF LossyRead, LossyReadFails
      <4> QED BY <4>2 DEF InFlows
    <3>3. CASE owner[e] # k
      <4>1. Calls(e)' = Calls(e) /\ Ahead(owner[e])'
        BY <2>1, <3>1, <3>3 DEF Calls, Ahead
      <4> QED BY <2>1, <3>1, <4>1 DEF AwaitsFlush
    <3> QED BY <3>2, <3>3
  <2>4. \A d : InFlows(d, snap) => InFlows(d, snap)'
    BY <2>1 DEF InFlows
  <2> QED BY <2>1, <2>2, <2>3, <2>4 DEF FlushInv, Flushed
<1>3. CASE LossyDelete
  <2>1. UNCHANGED <<phase, todo, snap, delivered, life, due, unseen>>
    BY <1>3 DEF LossyDelete
  <2>2. overlapped \subseteq overlapped'
    BY <1>3 DEF LossyDelete
  <2>3. \A d : Flushed(d) => Flushed(d)'
    BY <2>1, <2>2 DEF Flushed, InFlows
  <2>4. ASSUME NEW d, AwaitsFlush(d)
        PROVE  InFlows(d, snap)' \/ AwaitsFlush(d)' \/ d \in overlapped' \cup unseen'
    <3>1. PICK e \in Elem : owner[e] # NoKey /\ d \in Calls(e) /\ Ahead(owner[e])
      BY <2>4 DEF AwaitsFlush
    <3>2. CASE owner[e] = half
      <4>1. Lookup(half) = e /\ e # NoElem
        BY <3>1, <3>2, LookupIs, DataPlaneAssumption
      <4>2. half \in Key
        BY <3>1, <3>2 DEF TypeOK, DPTypeOK
      <4>3. d \in overlapped' \/ d \in unseen' \/ <<half, d>> \in snap
        BY <1>3, <3>1, <4>1 DEF LossyDelete
      <4> QED BY <2>1, <4>2, <4>3 DEF InFlows
    <3>3. CASE owner[e] # half
      <4>1. Lookup(half) # NoElem => Lookup(half) # e
        BY <3>3, LookupFacts
      <4>2. owner'[e] = owner[e] /\ slot'[e] = slot[e]
        BY <1>3, <4>1 DEF LossyDelete, Unlink, dpVars, TypeOK, DPTypeOK
      <4>3. Calls(e)' = Calls(e) /\ Ahead(owner[e])'
        BY <2>1, <3>1, <4>2 DEF Calls, Ahead
      <4> QED BY <3>1, <4>2, <4>3 DEF AwaitsFlush
    <3> QED BY <3>2, <3>3
  <2>5. \A d : InFlows(d, snap) => InFlows(d, snap)'
    BY <2>1 DEF InFlows
  <2> QED BY <2>1, <2>3, <2>4, <2>5 DEF FlushInv, Flushed
<1>4. ~BatchError
  BY DEF BatchError
<1>5. CASE LossyDeleteFails
  <2>1. UNCHANGED <<phase, todo, snap, delivered, life, due, overlapped, unseen, owner, slot>>
    BY <1>5 DEF LossyDeleteFails, dpVars
  <2> QED BY <2>1, FlushKept DEF InFlows, Calls
<1> QED
  BY <1>1, <1>2, <1>3, <1>4, <1>5 DEF DrainStep

\* A phase of the poll starts: the keys it collects are the ones with calls.
LEMMA PhaseFlush ==
    ASSUME ~DrainErrors, LedgerInv, FlushInv, PollBegin \/ PollQuic
    PROVE  FlushInv'
<1> USE DEF LedgerInv
<1>1. UNCHANGED <<life, due, snap, delivered, overlapped, unseen, owner, slot>>
  BY DEF PollBegin, PollQuic, dpVars
<1>2. \A d : Flushed(d)' = Flushed(d) /\ InFlows(d, snap)' = InFlows(d, snap)
  BY <1>1 DEF Flushed, InFlows
<1>3. ASSUME NEW d, AwaitsFlush(d) PROVE AwaitsFlush(d)'
  <2>1. PICK e \in Elem : owner[e] # NoKey /\ d \in Calls(e) /\ Ahead(owner[e])
    BY <1>3 DEF AwaitsFlush
  <2>2. owner[e] \in FKey \cup QKey
    BY <2>1 DEF TypeOK, DPTypeOK, Key
  <2>3. Lookup(owner[e]) # NoElem
    BY <2>1, LookupIs, DataPlaneAssumption
  <2>4. Ahead(owner[e])'
    <3>1. CASE PollBegin
      BY <1>1, <2>2, <2>3, <3>1 DEF PollBegin, Iterate, Ahead
    <3>2. CASE PollQuic
      BY <1>1, <2>1, <2>3, <3>2 DEF PollQuic, Iterate, Ahead
    <3> QED BY <3>1, <3>2
  <2> QED BY <1>1, <2>1, <2>4 DEF AwaitsFlush, Calls
<1> QED
  BY <1>1, <1>2, <1>3 DEF FlushInv

\* When the poll hands its flows over, nothing is left ahead of it.
LEMMA DeliverFlush ==
    ASSUME LedgerInv, FlushInv, Deliver
    PROVE  FlushInv'
<1> USE DEF LedgerInv
<1>1. UNCHANGED <<overlapped, unseen, due, owner, slot>>
  BY DEF Deliver, dpVars
<1>2. \A d : ~AwaitsFlush(d)
  BY DEF Deliver, PollInv, AwaitsFlush, Ahead
<1>3. CASE life = "final"
  <2>1. delivered' = delivered \cup snap /\ life' = "flushed"
    BY <1>3 DEF Deliver, PollInv
  <2>2. \A d \in due : Flushed(d)'
    BY <1>1, <1>2, <1>3, <2>1 DEF FlushInv, Flushed, InFlows
  <2> QED BY <1>1, <2>1, <2>2 DEF FlushInv
<1>4. CASE life # "final"
  <2>1. life' = life /\ delivered \subseteq delivered'
    BY <1>4 DEF Deliver
  <2>2. \A d : Flushed(d) => Flushed(d)'
    BY <1>1, <2>1 DEF Flushed, InFlows
  <2> QED BY <1>1, <1>4, <2>1, <2>2 DEF FlushInv
<1> QED
  BY <1>3, <1>4

LEMMA ShutdownFlush ==
    ASSUME LedgerInv, FlushInv, ShutdownStep
    PROVE  FlushInv'
<1> USE DEF LedgerInv
<1>1. UNCHANGED <<phase, todo, snap, delivered, overlapped, unseen, owner, slot>>
  BY DEF ShutdownStep, StopRequested, LoopExit, ClosePublisher, CloseLoader, dpVars
<1>2. \A d : /\ Flushed(d)' = Flushed(d) /\ InFlows(d, snap)' = InFlows(d, snap)
             /\ AwaitsFlush(d)' = AwaitsFlush(d)
  BY <1>1 DEF Flushed, InFlows, AwaitsFlush, Ahead, Calls
<1>3. CASE LoopExit
  <2>1. life' = "final" /\ due' = {d \in Call : InMap(d)} /\ phase = "idle"
    BY <1>3 DEF LoopExit
  <2>2. \A d \in due' : AwaitsFlush(d)
    BY <2>1 DEF InMap, AwaitsFlush, Ahead
  <2> QED BY <1>2, <2>1, <2>2 DEF FlushInv
<1>4. CASE StopRequested \/ ClosePublisher \/ CloseLoader
  BY <1>2, <1>4 DEF StopRequested, ClosePublisher, CloseLoader, FlushInv
<1> QED
  BY <1>3, <1>4 DEF ShutdownStep

\* An orderly shutdown loses nothing that was recorded when the poll loop had
\* exited: each such call is delivered before the loader closes, unless the
\* write of a program raced the delete of its element or the Lookup of its
\* own element failed, for every number of CPUs, flows and calls and whatever
\* the kernel offers.  Iterations and batch calls are taken to succeed: a final
\* poll that is cut short has no next tick to repeat it.
THEOREM ShutdownLosesNothing ==
    ASSUME ~DrainErrors
    PROVE  Spec => []FinalFlushComplete
<1>1. FDInit => FlushInv
  BY DEF FDInit, FlushInv
<1>2. LedgerInv /\ FlushInv /\ [Next]_vars => FlushInv'
  <2> SUFFICES ASSUME LedgerInv, FlushInv, [Next]_vars PROVE FlushInv'
    OBVIOUS
  <2>1. CASE KernelStep /\ UNCHANGED pollVars
    <3>1. \A e \in Elem : owner[e] # NoKey =>
              owner'[e] = owner[e] /\ Calls(e) \subseteq Calls(e)'
      BY <2>1, KernelKeepsElements DEF LedgerInv
    <3>2. UNCHANGED <<phase, todo, life, due, snap, delivered, overlapped, unseen>>
      BY <2>1 DEF pollVars
    <3> QED BY <3>1, <3>2, FlushKept DEF InFlows
  <2>2. CASE ReadEvent \/ PollEnd \/ Terminated \/ UNCHANGED vars
    <3>1. UNCHANGED <<life, due, snap, delivered, overlapped, unseen, owner, slot>>
      BY <2>2 DEF ReadEvent, PollEnd, Terminated, vars, pollVars, dpVars
    <3>2. \A d : /\ Flushed(d)' = Flushed(d) /\ InFlows(d, snap)' = InFlows(d, snap)
      BY <3>1 DEF Flushed, InFlows
    <3>3. \A k : Ahead(k) => Ahead(k)'
      BY <2>2 DEF ReadEvent, PollEnd, Terminated, vars, pollVars, Ahead
    <3>4. \A d : AwaitsFlush(d) => AwaitsFlush(d)'
      BY <3>1, <3>3 DEF AwaitsFlush, Calls
    <3> QED BY <3>1, <3>2, <3>4 DEF FlushInv
  <2>3. CASE PollStep
    BY <2>2, <2>3, PhaseFlush, DrainStepFlush, DeliverFlush DEF PollStep
  <2>4. CASE ShutdownStep
    BY <2>4, ShutdownFlush
  <2> QED
    BY <2>1, <2>2, <2>3, <2>4 DEF Next
<1>3. FlushInv => FinalFlushComplete
  BY DEF FlushInv, Flushed, FinalFlushComplete
<1> QED
  BY <1>1, <1>2, <1>3, LedgerInvariant, PTL DEF Spec
=============================================================================
