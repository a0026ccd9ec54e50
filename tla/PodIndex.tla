------------------------------- MODULE PodIndex -------------------------------
(***************************************************************************)
(* pkg/k8s Informer, pods and nodes: three indexes of pod metadata, fed by *)
(* two event handlers that run concurrently (one goroutine per resource),  *)
(* and the zone resolver of pkg/classifier they feed.  A handler is atomic *)
(* under inf.mu, except onNode, which releases the lock between recording  *)
(* the node and feeding the resolver.                                      *)
(*                                                                         *)
(* `pods' is what the pod watch has delivered so far: two running pods     *)
(* never share an address (external: the CNI; pods on the host network are *)
(* left out), a completed pod keeps the address it had.  A same-name pod   *)
(* that was deleted and created again while the watch was down arrives as  *)
(* an update.                                                              *)
(***************************************************************************)
EXTENDS Naturals

CONSTANTS Pod, Node, IP, Zone, InstanceType,
          MaxRestarts,  \* bound: container IDs per pod name
          None          \* the empty string, the missing map entry

\* What the constants must satisfy; the composing module assumes it.
ConstantsOK ==
    /\ MaxRestarts \in Nat
    /\ None \notin Pod \cup Node \cup IP \cup Zone \cup InstanceType
    /\ None \notin [node : Node, zone : Zone \cup {None}]

VARIABLES
    pods,               \* the pod watch: the object last delivered, per name
    containerToPod, podIPToMeta, podNameToMeta,
    nodeZones, nodeInstanceTypes,
    ipToZone,           \* ZoneResolver.ipToZone
    onNodeBusy,         \* onNode between its two critical sections, or None
    contended           \* history: addresses two pods had at one time, since the
                        \* last event of a running pod with the address

indexes == <<containerToPod, podIPToMeta, podNameToMeta>>
nodeVars == <<nodeZones, nodeInstanceTypes, onNodeBusy>>
vars == <<pods, indexes, ipToZone, nodeVars, contended>>

Cid == Pod \X (1 .. MaxRestarts)
NoMeta == [pod |-> None]

\* What the watch delivers: cid 0 is a pod without a container status.
PodObject == [node : Node, ip : IP \cup {None}, cid : 0 .. MaxRestarts, running : BOOLEAN]
Absent == [node |-> None, ip |-> None, cid |-> 0, running |-> FALSE]
PodMeta == [pod : Pod, node : Node, ip : IP \cup {None}, cid : 0 .. MaxRestarts,
            itype : InstanceType \cup {None}]

\* Types of the three indexes, the node tables and the resolver.
TypeOK ==
    /\ pods \in [Pod -> PodObject \cup {Absent}]
    /\ containerToPod \in [Cid -> PodMeta \cup {NoMeta}]
    /\ podIPToMeta \in [IP -> PodMeta \cup {NoMeta}]
    /\ podNameToMeta \in [Pod -> PodMeta \cup {NoMeta}]
    /\ nodeZones \in [Node -> Zone \cup {None}]
    /\ nodeInstanceTypes \in [Node -> InstanceType \cup {None}]
    /\ ipToZone \in [IP -> Zone \cup {None}]
    /\ contended \subseteq IP
    /\ onNodeBusy \in [node : Node, zone : Zone \cup {None}] \cup {None}

Init ==
    /\ pods = [p \in Pod |-> Absent]
    /\ containerToPod = [c \in Cid |-> NoMeta]
    /\ podIPToMeta = [i \in IP |-> NoMeta]
    /\ podNameToMeta = [p \in Pod |-> NoMeta]
    /\ nodeZones = [n \in Node |-> None]
    /\ nodeInstanceTypes = [n \in Node |-> None]
    /\ ipToZone = [i \in IP |-> None]
    /\ onNodeBusy = None
    /\ contended = {}

-----------------------------------------------------------------------------
\* The pod objects the watch may deliver next for p.
Deliverable(p, obj) ==
    /\ obj.cid >= pods[p].cid
    /\ obj.running /\ obj.ip # None =>
          \A q \in Pod \ {p} : ~(pods[q].running /\ pods[q].ip = obj.ip)

\* Mutant: the resolver is fed for the first pod of an address only.
ZoneFedOnce(meta) ==
    IF meta.ip # None /\ nodeZones[meta.node] # None /\ ipToZone[meta.ip] = None
    THEN [ipToZone EXCEPT ![meta.ip] = nodeZones[meta.node]]
    ELSE ipToZone

\* onPod, the call of OnZoneUpdate (SetIPZone) if the node's zone is known.
ZoneFed(meta) ==
    IF meta.ip # None /\ nodeZones[meta.node] # None
    THEN [ipToZone EXCEPT ![meta.ip] = nodeZones[meta.node]]
    ELSE ipToZone

\* Mutant: an address stays with the pod it was indexed for.
AddressIndexFirst(meta) ==
    IF meta.ip = None \/ podIPToMeta[meta.ip].pod \notin {None, meta.pod} THEN podIPToMeta
    ELSE [podIPToMeta EXCEPT ![meta.ip] = meta]

AddressIndex(meta) ==
    IF meta.ip = None THEN podIPToMeta ELSE [podIPToMeta EXCEPT ![meta.ip] = meta]

\* Add, update and periodic resync.
onPod(p, obj) ==
    LET meta == [pod |-> p, node |-> obj.node, ip |-> obj.ip, cid |-> obj.cid,
                 itype |-> nodeInstanceTypes[obj.node]]
    IN  /\ Deliverable(p, obj)
        /\ pods' = [pods EXCEPT ![p] = obj]
        /\ containerToPod' = IF obj.cid = 0 THEN containerToPod
                             ELSE [containerToPod EXCEPT ![<<p, obj.cid>>] = meta]
        /\ podIPToMeta' = AddressIndex(meta)
        /\ ipToZone' = ZoneFed(meta)
        /\ podNameToMeta' = [podNameToMeta EXCEPT ![p] = meta]
        /\ contended' = (contended \ (IF obj.running THEN {obj.ip} ELSE {}))
                           \cup {i \in IP : \E q, r \in Pod : q # r /\ pods'[q].ip = i /\ pods'[r].ip = i}
        /\ UNCHANGED nodeVars

\* The deleted object is the last one delivered, also as a tombstone.
onPodDelete(p) ==
    /\ pods[p] # Absent
    /\ LET obj == pods[p]
       IN  /\ containerToPod' = IF obj.cid = 0 THEN containerToPod
                                ELSE [containerToPod EXCEPT ![<<p, obj.cid>>] = NoMeta]
           /\ podIPToMeta' = IF obj.ip = None THEN podIPToMeta
                             ELSE [podIPToMeta EXCEPT ![obj.ip] = NoMeta]
    /\ podNameToMeta' = [podNameToMeta EXCEPT ![p] = NoMeta]
    /\ pods' = [pods EXCEPT ![p] = Absent]
    /\ UNCHANGED <<ipToZone, nodeVars, contended>>

-----------------------------------------------------------------------------
\* Mutant: only the name index is back-filled.
BackfillNames(n, it) ==
    LET stale == {p \in Pod : /\ podNameToMeta[p] # NoMeta
                              /\ podNameToMeta[p].node = n
                              /\ podNameToMeta[p].itype # it}
    IN  /\ podNameToMeta' = [p \in Pod |->
              IF p \in stale THEN [podNameToMeta[p] EXCEPT !.itype = it] ELSE podNameToMeta[p]]
        /\ UNCHANGED <<containerToPod, podIPToMeta>>

\* onNode, the back-fill: the pods of n with another instance type get a fresh
\* copy of their metadata in every index.  Map iteration order decides which
\* of two pods with one address is written last.
Backfill(n, it) ==
    LET stale == {p \in Pod : /\ podNameToMeta[p] # NoMeta
                              /\ podNameToMeta[p].node = n
                              /\ podNameToMeta[p].itype # it}
        updated(p) == [podNameToMeta[p] EXCEPT !.itype = it]
        holders(i) == {p \in stale : podNameToMeta[p].ip = i}
    IN  /\ podNameToMeta' = [p \in Pod |-> IF p \in stale THEN updated(p) ELSE podNameToMeta[p]]
        /\ \E last \in [IP -> Pod] :
              /\ \A i \in IP : holders(i) # {} => last[i] \in holders(i)
              /\ podIPToMeta' = [i \in IP |-> IF holders(i) # {} THEN updated(last[i])
                                              ELSE podIPToMeta[i]]
        /\ containerToPod' = [c \in Cid |->
              IF c[1] \in stale /\ podNameToMeta[c[1]].cid = c[2] THEN updated(c[1])
              ELSE containerToPod[c]]

\* First critical section of onNode: the labels are recorded.  They may be set
\* late or change, they do not vanish.
onNode(n, zone, it) ==
    /\ onNodeBusy = None
    /\ zone = None => nodeZones[n] = None
    /\ it = None => nodeInstanceTypes[n] = None
    /\ IF zone # None THEN nodeZones' = [nodeZones EXCEPT ![n] = zone]
                      ELSE UNCHANGED nodeZones
    /\ nodeInstanceTypes' = [nodeInstanceTypes EXCEPT ![n] = it]
    /\ IF it # None THEN Backfill(n, it) ELSE UNCHANGED indexes
    /\ onNodeBusy' = [node |-> n, zone |-> zone]
    /\ UNCHANGED <<pods, ipToZone, contended>>

\* The rest of onNode: under the read lock, the zone of every pod of the node.
\* The pod CIDRs it hands to OnPodCIDR in between are inputs of the classifier
\* (Topology's OthersSet) and play no part here.
onNodeCallbacks ==
    /\ onNodeBusy # None
    /\ ipToZone' = [i \in IP |->
          IF /\ onNodeBusy.zone # None
             /\ podIPToMeta[i] # NoMeta /\ podIPToMeta[i].node = onNodeBusy.node
          THEN onNodeBusy.zone ELSE ipToZone[i]]
    /\ onNodeBusy' = None
    /\ UNCHANGED <<pods, indexes, nodeZones, nodeInstanceTypes, contended>>

Next ==
    \/ \E p \in Pod, obj \in PodObject : onPod(p, obj)
    \/ \E p \in Pod : onPodDelete(p)
    \/ \E n \in Node, z \in Zone \cup {None}, it \in InstanceType \cup {None} : onNode(n, z, it)
    \/ onNodeCallbacks

Spec == Init /\ [][Next]_vars

-----------------------------------------------------------------------------
\* onNode's back-fill against onPod's enrichment: in whichever order pod and
\* node events arrive, a cached pod has its node's instance type, and the
\* container and address indexes do not lag behind the name index.
InstanceTypeFilled ==
    \A p \in Pod : podNameToMeta[p] # NoMeta =>
        LET meta == podNameToMeta[p]
        IN  /\ meta.itype = nodeInstanceTypes[meta.node]
            /\ meta.cid # 0 => containerToPod[<<p, meta.cid>>] = meta
            /\ meta.ip # None /\ podIPToMeta[meta.ip] # NoMeta
                  /\ podIPToMeta[meta.ip].pod = p => podIPToMeta[meta.ip] = meta

\* The zone resolver answers with the zone of the node that runs the pod the
\* address index names, except while onNode is between its two sections.
ZoneFollowsPod ==
    \A i \in IP : podIPToMeta[i] # NoMeta =>
        LET n == podIPToMeta[i].node
        IN  nodeZones[n] # None /\ (onNodeBusy = None \/ onNodeBusy.node # n)
               => ipToZone[i] = nodeZones[n]

\* Address reuse: a running pod is found under its address, with the metadata
\* the name index has, if every earlier holder was seen to leave before the
\* pod's last event, whatever node events and back-fills came since.
SettledAddressKnown ==
    \A p \in Pod : pods[p].running /\ pods[p].ip \in IP \ contended =>
        podIPToMeta[pods[p].ip] = podNameToMeta[p]

-----------------------------------------------------------------------------
(* What the comments of the code say.                                       *)

\* informer.go: "LookupPodIP returns pod metadata for a pod IP": a running pod
\* is found under its address.
PodIPKnown ==
    \A p \in Pod : pods[p].running /\ pods[p].ip # None =>
        podIPToMeta[pods[p].ip].pod = p

\* zone.go: Resolve "returns empty string if the zone cannot be determined":
\* the address of a pod on a node of unknown zone has no zone.
UnknownNotGuessed ==
    \A i \in IP : podIPToMeta[i] # NoMeta /\ nodeZones[podIPToMeta[i].node] = None
        => ipToZone[i] = None

\* informer.go, Start: entries that outlive their object are "unbounded state
\* (P2)": a container ID is indexed only while a pod has it.
OnlyLiveContainers ==
    \A c \in Cid : containerToPod[c] # NoMeta =>
        pods[c[1]] # Absent /\ pods[c[1]].cid = c[2]
=============================================================================
