-------------------------- MODULE DestinationsProofs --------------------------
(***************************************************************************)
(* Proofs about the informer's indexes, for every set of pods, nodes,      *)
(* addresses and services and every order of watch events.                 *)
(***************************************************************************)
EXTENDS MCDestinations, FlowDrainProofs, FiniteSetTheorems, TLAPS

destinationsVars == <<subject, jVars, podVars, serviceVars>>

LEMMA InformerSteps ==
    ASSUME [DestinationsNext]_destinationsVars
    PROVE  /\ P!Next \/ UNCHANGED podVars
           /\ S!Next \/ UNCHANGED serviceVars
BY DEF DestinationsNext, destinationsVars

-----------------------------------------------------------------------------
(* onService and onServiceDelete.                                           *)

\* The watch shows an address with one service at a time.
ClusterIPInv ==
    /\ services \in [Service -> SUBSET ClusterIP]
    /\ clusterIPToSvc \in [ClusterIP -> Service \cup {None}]
    /\ \A v, w \in Service : v # w => services[v] \cap services[w] = {}
    /\ ClusterIPKnown

LEMMA StepKeepsClusterIPInv ==
    ASSUME ClusterIPInv, S!Next \/ UNCHANGED serviceVars PROVE ClusterIPInv'
<1> USE DEF ClusterIPInv, ClusterIPKnown, S!ClusterIPKnown
<1>1. CASE UNCHANGED <<services, clusterIPToSvc>>
  BY <1>1
<1>2. ASSUME NEW v \in Service, NEW ips \in SUBSET ClusterIP, S!onService(v, ips)
      PROVE  ClusterIPInv'
  BY <1>2 DEF S!onService
<1>3. ASSUME NEW v \in Service, S!onServiceDelete(v) PROVE ClusterIPInv'
  BY <1>3 DEF S!onServiceDelete
<1>4. ASSUME NEW key \in Slice,
             \/ S!onEndpointSliceDelete(key)
             \/ \E obj \in S!SliceObject : S!onEndpointSlice(key, obj)
      PROVE  UNCHANGED <<services, clusterIPToSvc>>
  BY <1>4 DEF S!onEndpointSliceDelete, S!onEndpointSlice
<1>5. UNCHANGED serviceVars => UNCHANGED <<services, clusterIPToSvc>>
  BY DEF serviceVars
<1> QED BY <1>1, <1>2, <1>3, <1>4, <1>5 DEF S!Next

\* While a service has a ClusterIP, LookupClusterIP names that service, in
\* whichever order services are created, renumbered and deleted, provided the
\* API server gives an address to one service at a time.
THEOREM InformerClusterIPKnown == DestinationsSpec => []ClusterIPKnown
<1>1. DestinationsInit => ClusterIPInv
  BY DEF DestinationsInit, S!Init, ClusterIPInv, ClusterIPKnown, S!ClusterIPKnown
<1>2. ClusterIPInv /\ [DestinationsNext]_destinationsVars => ClusterIPInv'
  BY InformerSteps, StepKeepsClusterIPInv
<1>3. ClusterIPInv => ClusterIPKnown
  BY DEF ClusterIPInv
<1> QED BY <1>1, <1>2, <1>3, PTL DEF DestinationsSpec, destinationsVars

-----------------------------------------------------------------------------
(* Pods and nodes.                                                          *)

\* The name index has what the watch delivered last; two pods with one address
\* make it contended.
NameIndexed(p) ==
    IF pods[p] = P!Absent THEN podNameToMeta[p] = P!NoMeta
    ELSE /\ podNameToMeta[p] \in P!PodMeta /\ podNameToMeta[p].pod = p
         /\ podNameToMeta[p].node = pods[p].node
         /\ podNameToMeta[p].ip = pods[p].ip /\ podNameToMeta[p].cid = pods[p].cid

PodTypes ==
    /\ pods \in [Pod -> P!PodObject \cup {P!Absent}]
    /\ containerToPod \in [P!Cid -> P!PodMeta \cup {P!NoMeta}]
    /\ podIPToMeta \in [IP -> P!PodMeta \cup {P!NoMeta}]
    /\ podNameToMeta \in [Pod -> P!PodMeta \cup {P!NoMeta}]
    /\ nodeZones \in [Node -> Zone \cup {None}]
    /\ nodeInstanceTypes \in [Node -> InstanceType \cup {None}]
    /\ ipToZone \in [IP -> Zone \cup {None}]
    /\ onNodeBusy \in [node : Node, zone : Zone \cup {None}] \cup {None}

PodInv ==
    /\ PodTypes
    /\ \A p \in Pod : NameIndexed(p)
    /\ \A p, q \in Pod : p # q /\ pods[p].ip = pods[q].ip /\ pods[p].ip \in IP
          => pods[p].ip \in contended
    /\ onNodeBusy # None => nodeZones[onNodeBusy.node] = onNodeBusy.zone
    /\ InstanceTypeFilled
    /\ ZoneFollowsPod
    /\ SettledAddressKnown

LEMMA PodConstants ==
    /\ MaxRestarts \in Nat
    /\ None \notin Pod /\ None \notin Node /\ None \notin IP
    /\ None \notin Zone /\ None \notin InstanceType
    /\ None \notin [node : Node, zone : Zone \cup {None}]
BY InformerAssumption DEF P!ConstantsOK

\* No metadata is no pod's metadata, and no pod object is not one.
LEMMA PodMarks ==
    /\ P!NoMeta \notin P!PodMeta /\ P!Absent \notin P!PodObject
    /\ P!Absent.ip = None /\ P!Absent.running = FALSE
BY PodConstants DEF P!NoMeta, P!PodMeta, P!Absent, P!PodObject
LEMMA PodInvFacts ==
    ASSUME PodInv
    PROVE  /\ PodTypes /\ \A p \in Pod : NameIndexed(p)
           /\ \A p \in Pod : podNameToMeta[p] # P!NoMeta =>
                 /\ podNameToMeta[p] \in P!PodMeta /\ podNameToMeta[p].pod = p
                 /\ podNameToMeta[p].ip = pods[p].ip
BY PodMarks DEF PodInv, NameIndexed

\* onPod writes one pod's entry into the three indexes and feeds the resolver;
\* another pod loses its address entry only if the address is now contended.
LEMMA OnPodKeepsPodInv ==
    ASSUME PodInv, NEW p \in Pod, NEW obj \in P!PodObject, P!onPod(p, obj)
    PROVE  PodInv'
<1> DEFINE meta == [pod |-> p, node |-> obj.node, ip |-> obj.ip, cid |-> obj.cid,
                    itype |-> nodeInstanceTypes[obj.node]]
<1>1. /\ meta \in P!PodMeta /\ meta.pod = p /\ meta.node = obj.node /\ meta.ip = obj.ip
      /\ meta.cid = obj.cid /\ meta.itype = nodeInstanceTypes[obj.node]
      /\ obj.node \in Node /\ obj.ip \in IP \cup {None} /\ obj.cid \in 0 .. MaxRestarts
  BY PodInvFacts DEF PodTypes, P!PodMeta, P!PodObject
<1>2. /\ pods' = [pods EXCEPT ![p] = obj]
      /\ containerToPod' = IF obj.cid = 0 THEN containerToPod
                           ELSE [containerToPod EXCEPT ![<<p, obj.cid>>] = meta]
      /\ podIPToMeta' = P!AddressIndex(meta)
      /\ ipToZone' = P!ZoneFed(meta)
      /\ podNameToMeta' = [podNameToMeta EXCEPT ![p] = meta]
      /\ UNCHANGED <<nodeZones, nodeInstanceTypes, onNodeBusy>>
  BY DEF P!onPod, P!nodeVars
<1>3. /\ contended \ {obj.ip} \subseteq contended'
      /\ \A i \in IP, q \in Pod, r \in Pod :
            q # r /\ pods'[q].ip = i /\ pods'[r].ip = i => i \in contended'
  BY DEF P!onPod
<1> HIDE DEF meta
<1>4. /\ \A q \in Pod : pods'[q] = IF q = p THEN obj ELSE pods[q]
      /\ \A q \in Pod : podNameToMeta'[q] = IF q = p THEN meta ELSE podNameToMeta[q]
  BY <1>2, PodInvFacts DEF PodTypes
<1>5. \A i \in IP : podIPToMeta'[i] = IF i = obj.ip THEN meta ELSE podIPToMeta[i]
  BY <1>1, <1>2, PodConstants, PodInvFacts DEF PodTypes, P!AddressIndex
<1>6. \A i \in IP : ipToZone'[i] = IF i = obj.ip /\ nodeZones[obj.node] # None
                                  THEN nodeZones[obj.node] ELSE ipToZone[i]
  BY <1>1, <1>2, PodConstants, PodInvFacts DEF PodTypes, P!ZoneFed
<1>7. PodTypes'
  <2>1. pods' \in [Pod -> P!PodObject \cup {P!Absent}]
    BY <1>2, PodInvFacts DEF PodTypes
  <2>2. containerToPod' \in [P!Cid -> P!PodMeta \cup {P!NoMeta}]
    <3>1. obj.cid # 0 => <<p, obj.cid>> \in P!Cid
      BY <1>1, PodConstants DEF P!Cid
    <3> QED BY <1>1, <1>2, <3>1, PodInvFacts DEF PodTypes
  <2>3. podIPToMeta' \in [IP -> P!PodMeta \cup {P!NoMeta}]
    BY <1>1, <1>2, PodInvFacts DEF PodTypes, P!AddressIndex
  <2>4. podNameToMeta' \in [Pod -> P!PodMeta \cup {P!NoMeta}]
    BY <1>1, <1>2, PodInvFacts DEF PodTypes
  <2>5. ipToZone' \in [IP -> Zone \cup {None}]
    BY <1>1, <1>2, PodInvFacts DEF PodTypes, P!ZoneFed
  <2> QED BY <1>2, <2>1, <2>2, <2>3, <2>4, <2>5, PodInvFacts DEF PodTypes
<1>8. ASSUME NEW q \in Pod PROVE NameIndexed(q)'
  <2>1. CASE q = p
    BY <1>1, <1>4, <2>1, PodMarks DEF NameIndexed
  <2>2. CASE q # p
    BY <1>4, <2>2, PodInvFacts DEF NameIndexed
  <2> QED BY <2>1, <2>2
<1>9. InstanceTypeFilled'
  <2> SUFFICES ASSUME NEW q \in Pod, podNameToMeta'[q] # P!NoMeta
               PROVE  /\ podNameToMeta'[q].itype = nodeInstanceTypes'[podNameToMeta'[q].node]
                      /\ podNameToMeta'[q].cid # 0 =>
                            containerToPod'[<<q, podNameToMeta'[q].cid>>] = podNameToMeta'[q]
                      /\ (/\ podNameToMeta'[q].ip # None
                          /\ podIPToMeta'[podNameToMeta'[q].ip] # P!NoMeta
                          /\ podIPToMeta'[podNameToMeta'[q].ip].pod = q)
                         => podIPToMeta'[podNameToMeta'[q].ip] = podNameToMeta'[q]
    BY DEF InstanceTypeFilled, P!InstanceTypeFilled
  <2>1. CASE q = p
    <3>1. obj.cid # 0 => containerToPod'[<<p, obj.cid>>] = meta
      BY <1>1, <1>2, PodConstants, PodInvFacts DEF PodTypes, P!Cid
    <3> QED BY <1>1, <1>2, <1>4, <1>5, <2>1, <3>1
  <2>2. CASE q # p
    <3>1. /\ podNameToMeta'[q] = podNameToMeta[q] /\ podNameToMeta[q] \in P!PodMeta
      BY <1>4, <2>2, PodInvFacts
    <3> DEFINE m == podNameToMeta[q]
    <3>2. /\ m.itype = nodeInstanceTypes[m.node]
          /\ m.cid # 0 => containerToPod[<<q, m.cid>>] = m
          /\ (m.ip # None /\ podIPToMeta[m.ip] # P!NoMeta /\ podIPToMeta[m.ip].pod = q)
             => podIPToMeta[m.ip] = m
      BY <3>1 DEF PodInv, InstanceTypeFilled, P!InstanceTypeFilled
    <3>3. m.cid # 0 => containerToPod'[<<q, m.cid>>] = containerToPod[<<q, m.cid>>]
      <4>1. <<q, m.cid>> # <<p, obj.cid>>
        BY <2>2
      <4>2. m.cid # 0 => <<q, m.cid>> \in P!Cid
        BY <3>1, PodConstants DEF P!Cid, P!PodMeta
      <4> QED BY <1>2, <4>1, <4>2, PodInvFacts DEF PodTypes
    <3>4. m.ip # None => m.ip \in IP
      BY <3>1 DEF P!PodMeta
    <3>5. (m.ip # None /\ podIPToMeta'[m.ip].pod = q) => podIPToMeta'[m.ip] = podIPToMeta[m.ip]
      BY <1>1, <1>5, <2>2, <3>4
    <3> QED BY <1>2, <3>1, <3>2, <3>3, <3>5
  <2> QED BY <2>1, <2>2
<1>10. ZoneFollowsPod'
  BY <1>1, <1>2, <1>5, <1>6, PodMarks DEF PodInv, ZoneFollowsPod, P!ZoneFollowsPod
<1>11. SettledAddressKnown'
  <2> SUFFICES ASSUME NEW q \in Pod, pods'[q].running, pods'[q].ip \in IP \ contended'
               PROVE  podIPToMeta'[pods'[q].ip] = podNameToMeta'[q]
    BY DEF SettledAddressKnown, P!SettledAddressKnown
  <2>1. CASE q = p
    BY <1>4, <1>5, <2>1
  <2>2. CASE q # p
    <3>1. pods[q].ip # obj.ip
      BY <1>3, <1>4, <2>2
    <3>2. pods[q].ip \in IP \ contended
      BY <1>3, <1>4, <2>2, <3>1
    <3>3. podIPToMeta[pods[q].ip] = podNameToMeta[q]
      BY <1>4, <2>2, <3>2 DEF PodInv, SettledAddressKnown, P!SettledAddressKnown
    <3> QED BY <1>4, <1>5, <2>2, <3>1, <3>2, <3>3
  <2> QED BY <2>1, <2>2
<1>12. \A q, r \in Pod : q # r /\ pods'[q].ip = pods'[r].ip /\ pods'[q].ip \in IP
          => pods'[q].ip \in contended'
  BY <1>3
<1>13. onNodeBusy' # None => nodeZones'[onNodeBusy'.node] = onNodeBusy'.zone
  BY <1>2 DEF PodInv
<1> QED BY <1>7, <1>8, <1>9, <1>10, <1>11, <1>12, <1>13 DEF PodInv

\* A deletion clears the pod's address entry, whoever's it is: another running
\* pod that loses it shares the address, which is contended then.
LEMMA OnPodDeleteKeepsPodInv ==
    ASSUME PodInv, NEW p \in Pod, P!onPodDelete(p)
    PROVE  PodInv'
<1> DEFINE obj == pods[p]
<1>1. obj \in P!PodObject /\ obj.ip \in IP \cup {None} /\ obj.cid \in 0 .. MaxRestarts
  BY PodInvFacts DEF P!onPodDelete, PodTypes, P!PodObject
<1>2. /\ pods' = [pods EXCEPT ![p] = P!Absent]
      /\ containerToPod' = IF obj.cid = 0 THEN containerToPod
                           ELSE [containerToPod EXCEPT ![<<p, obj.cid>>] = P!NoMeta]
      /\ podIPToMeta' = IF obj.ip = None THEN podIPToMeta
                        ELSE [podIPToMeta EXCEPT ![obj.ip] = P!NoMeta]
      /\ podNameToMeta' = [podNameToMeta EXCEPT ![p] = P!NoMeta]
      /\ UNCHANGED <<ipToZone, nodeZones, nodeInstanceTypes, onNodeBusy, contended>>
  BY DEF P!onPodDelete, P!nodeVars
<1> HIDE DEF obj
<1>3. /\ \A q \in Pod : pods'[q] = IF q = p THEN P!Absent ELSE pods[q]
      /\ \A q \in Pod : podNameToMeta'[q] = IF q = p THEN P!NoMeta ELSE podNameToMeta[q]
  BY <1>2, PodInvFacts DEF PodTypes
<1>4. \A i \in IP : podIPToMeta'[i] = IF i = obj.ip THEN P!NoMeta ELSE podIPToMeta[i]
  BY <1>1, <1>2, PodConstants, PodInvFacts DEF PodTypes
<1>5. PodTypes'
  <2>1. containerToPod' \in [P!Cid -> P!PodMeta \cup {P!NoMeta}]
    BY <1>2, PodInvFacts DEF PodTypes
  <2>2. podIPToMeta' \in [IP -> P!PodMeta \cup {P!NoMeta}]
    BY <1>2, PodInvFacts DEF PodTypes
  <2>3. /\ pods' \in [Pod -> P!PodObject \cup {P!Absent}]
        /\ podNameToMeta' \in [Pod -> P!PodMeta \cup {P!NoMeta}]
    BY <1>2, PodInvFacts DEF PodTypes
  <2> QED BY <1>2, <2>1, <2>2, <2>3, PodInvFacts DEF PodTypes
<1>6. ASSUME NEW q \in Pod PROVE NameIndexed(q)'
  BY <1>3, PodInvFacts DEF NameIndexed
<1>7. \A q, r \in Pod : q # r /\ pods'[q].ip = pods'[r].ip /\ pods'[q].ip \in IP
          => pods'[q].ip \in contended'
  BY <1>2, <1>3, PodMarks, PodConstants DEF PodInv
<1>8. InstanceTypeFilled'
  <2> SUFFICES ASSUME NEW q \in Pod, podNameToMeta'[q] # P!NoMeta
               PROVE  /\ podNameToMeta'[q].itype = nodeInstanceTypes'[podNameToMeta'[q].node]
                      /\ podNameToMeta'[q].cid # 0 =>
                            containerToPod'[<<q, podNameToMeta'[q].cid>>] = podNameToMeta'[q]
                      /\ (/\ podNameToMeta'[q].ip # None
                          /\ podIPToMeta'[podNameToMeta'[q].ip] # P!NoMeta
                          /\ podIPToMeta'[podNameToMeta'[q].ip].pod = q)
                         => podIPToMeta'[podNameToMeta'[q].ip] = podNameToMeta'[q]
    BY DEF InstanceTypeFilled, P!InstanceTypeFilled
  <2>1. q # p /\ podNameToMeta'[q] = podNameToMeta[q] /\ podNameToMeta[q] \in P!PodMeta
    BY <1>3, PodInvFacts
  <2> DEFINE m == podNameToMeta[q]
  <2>2. /\ m.itype = nodeInstanceTypes[m.node]
        /\ m.cid # 0 => containerToPod[<<q, m.cid>>] = m
        /\ (m.ip # None /\ podIPToMeta[m.ip] # P!NoMeta /\ podIPToMeta[m.ip].pod = q)
           => podIPToMeta[m.ip] = m
    BY <2>1 DEF PodInv, InstanceTypeFilled, P!InstanceTypeFilled
  <2>3. m.cid # 0 => containerToPod'[<<q, m.cid>>] = containerToPod[<<q, m.cid>>]
    <3>1. <<q, m.cid>> # <<p, obj.cid>>
      BY <2>1
    <3>2. m.cid # 0 => <<q, m.cid>> \in P!Cid
      BY <2>1, PodConstants DEF P!Cid, P!PodMeta
    <3> QED BY <1>2, <3>1, <3>2, PodInvFacts DEF PodTypes
  <2>4. m.ip # None => m.ip \in IP
    BY <2>1 DEF P!PodMeta
  <2> QED BY <1>2, <1>4, <2>1, <2>2, <2>3, <2>4
<1>9. ZoneFollowsPod'
  BY <1>2, <1>4 DEF PodInv, ZoneFollowsPod, P!ZoneFollowsPod
<1>10. SettledAddressKnown'
  <2> SUFFICES ASSUME NEW q \in Pod, pods'[q].running, pods'[q].ip \in IP \ contended'
               PROVE  podIPToMeta'[pods'[q].ip] = podNameToMeta'[q]
    BY DEF SettledAddressKnown, P!SettledAddressKnown
  <2>1. q # p /\ pods'[q] = pods[q]
    BY <1>3, PodMarks
  <2>2. pods[q].ip # obj.ip
    BY <1>2, <2>1 DEF PodInv, obj
  <2> QED
    BY <1>2, <1>3, <1>4, <2>1, <2>2 DEF PodInv, SettledAddressKnown, P!SettledAddressKnown
<1>11. onNodeBusy' # None => nodeZones'[onNodeBusy'.node] = onNodeBusy'.zone
  BY <1>2 DEF PodInv
<1> QED BY <1>5, <1>6, <1>7, <1>8, <1>9, <1>10, <1>11 DEF PodInv

LEMMA CallbacksKeepPodInv ==
    ASSUME PodInv, P!onNodeCallbacks PROVE PodInv'
<1>1. /\ UNCHANGED <<pods, containerToPod, podIPToMeta, podNameToMeta, nodeZones,
                     nodeInstanceTypes, contended>>
      /\ onNodeBusy' = None /\ onNodeBusy # None
  BY DEF P!onNodeCallbacks, P!indexes
<1>2. ASSUME NEW i \in IP
      PROVE  ipToZone'[i] = IF /\ onNodeBusy.zone # None /\ podIPToMeta[i] # P!NoMeta
                               /\ podIPToMeta[i].node = onNodeBusy.node
                            THEN onNodeBusy.zone ELSE ipToZone[i]
  BY DEF P!onNodeCallbacks
<1>3. onNodeBusy \in [node : Node, zone : Zone \cup {None}]
  BY <1>1, PodInvFacts DEF PodTypes
<1>4. PodTypes'
  <2>1. ipToZone' \in [IP -> Zone \cup {None}]
    BY <1>3, PodInvFacts DEF P!onNodeCallbacks, PodTypes
  <2> QED BY <1>1, <2>1, PodInvFacts DEF PodTypes
<1>5. nodeZones[onNodeBusy.node] = onNodeBusy.zone
  BY <1>1 DEF PodInv
<1>6. ZoneFollowsPod'
  BY <1>1, <1>2, <1>5 DEF PodInv, ZoneFollowsPod, P!ZoneFollowsPod
<1>7. InstanceTypeFilled' /\ SettledAddressKnown'
  BY <1>1 DEF PodInv, InstanceTypeFilled, P!InstanceTypeFilled, SettledAddressKnown,
     P!SettledAddressKnown
<1>8. ASSUME NEW q \in Pod PROVE NameIndexed(q)'
  BY <1>1, PodInvFacts DEF NameIndexed
<1> QED BY <1>1, <1>4, <1>6, <1>7, <1>8 DEF PodInv
\* The pods onNode's back-fill rewrites.
Stale(n, it) == {p \in Pod : /\ podNameToMeta[p] # P!NoMeta
                             /\ podNameToMeta[p].node = n /\ podNameToMeta[p].itype # it}

\* What the back-fill does to an entry, when it runs.
Updated(p, it) == [podNameToMeta[p] EXCEPT !.itype = it]

\* The back-fill, index by index: a stale pod's entries become its updated
\* metadata; an address entry is rewritten for one of the stale pods that have
\* the address, and left alone if none has.
LEMMA BackfillFacts ==
    ASSUME PodInv, NEW n \in Node, NEW it \in InstanceType, P!Backfill(n, it)
    PROVE  /\ podNameToMeta' = [p \in Pod |-> IF p \in Stale(n, it) THEN Updated(p, it)
                                               ELSE podNameToMeta[p]]
           /\ containerToPod' = [c \in P!Cid |->
                 IF c[1] \in Stale(n, it) /\ podNameToMeta[c[1]].cid = c[2]
                 THEN Updated(c[1], it) ELSE containerToPod[c]]
           /\ podIPToMeta' = [i \in IP |-> podIPToMeta'[i]]
           /\ \A i \in IP :
                 \/ /\ podIPToMeta'[i] = podIPToMeta[i]
                    /\ \A p \in Stale(n, it) : podNameToMeta[p].ip # i
                 \/ \E p \in Stale(n, it) : /\ podNameToMeta[p].ip = i
                                             /\ podIPToMeta'[i] = Updated(p, it)
<1>1. /\ podNameToMeta' = [p \in Pod |-> IF p \in Stale(n, it) THEN Updated(p, it)
                                          ELSE podNameToMeta[p]]
      /\ containerToPod' = [c \in P!Cid |->
            IF c[1] \in Stale(n, it) /\ podNameToMeta[c[1]].cid = c[2]
            THEN Updated(c[1], it) ELSE containerToPod[c]]
  BY Zenon DEF P!Backfill, Stale, Updated
<1> DEFINE holders(i) == {p \in Stale(n, it) : podNameToMeta[p].ip = i}
<1>2. PICK last \in [IP -> Pod] :
         /\ \A i \in IP : holders(i) # {} => last[i] \in holders(i)
         /\ podIPToMeta' = [i \in IP |-> IF holders(i) # {} THEN Updated(last[i], it)
                                         ELSE podIPToMeta[i]]
  BY Zenon DEF P!Backfill, Stale, Updated
<1>3. podIPToMeta' = [i \in IP |-> podIPToMeta'[i]]
  BY <1>2
<1>4. ASSUME NEW i \in IP
      PROVE  \/ /\ podIPToMeta'[i] = podIPToMeta[i]
                /\ \A p \in Stale(n, it) : podNameToMeta[p].ip # i
             \/ \E p \in Stale(n, it) : /\ podNameToMeta[p].ip = i
                                         /\ podIPToMeta'[i] = Updated(p, it)
  <2>1. CASE holders(i) = {}
    BY <1>2, <2>1
  <2>2. CASE holders(i) # {}
    <3>1. last[i] \in holders(i) /\ podIPToMeta'[i] = Updated(last[i], it)
      BY <1>2, <2>2
    <3> QED BY <3>1
  <2> QED BY <2>1, <2>2
<1> QED BY <1>1, <1>3, <1>4

\* An updated entry differs in the instance type only.
LEMMA UpdatedFacts ==
    ASSUME PodInv, NEW n \in Node, NEW it \in InstanceType, NEW p \in Stale(n, it)
    PROVE  /\ p \in Pod /\ podNameToMeta[p] \in P!PodMeta
           /\ Updated(p, it) \in P!PodMeta
           /\ Updated(p, it).pod = p /\ Updated(p, it).node = n /\ Updated(p, it).itype = it
           /\ Updated(p, it).ip = podNameToMeta[p].ip
           /\ Updated(p, it).cid = podNameToMeta[p].cid
<1>1. p \in Pod /\ podNameToMeta[p] \in P!PodMeta /\ podNameToMeta[p].pod = p
  BY PodInvFacts DEF Stale
<1>2. podNameToMeta[p].node = n
  BY DEF Stale
<1> QED BY <1>1, <1>2 DEF P!PodMeta, Updated

\* onNode records the labels and back-fills the indexes in one critical
\* section; the resolver still has the old zone, which is why ZoneFollowsPod
\* leaves the node out until the callbacks ran.
LEMMA OnNodeKeepsPodInv ==
    ASSUME PodInv, NEW n \in Node, NEW zone \in Zone \cup {None},
           NEW it \in InstanceType \cup {None}, P!onNode(n, zone, it)
    PROVE  PodInv'
<1> DEFINE stale == IF it = None THEN {} ELSE Stale(n, it)
<1>1. /\ UNCHANGED <<pods, ipToZone, contended>>
      /\ onNodeBusy' = [node |-> n, zone |-> zone]
      /\ nodeInstanceTypes' = [nodeInstanceTypes EXCEPT ![n] = it]
      /\ it = None => nodeInstanceTypes[n] = None
      /\ nodeZones' = IF zone # None THEN [nodeZones EXCEPT ![n] = zone] ELSE nodeZones
      /\ zone = None => nodeZones[n] = None
      /\ onNodeBusy = None
  BY DEF P!onNode
<1>2. /\ onNodeBusy' \in [node : Node, zone : Zone \cup {None}]
      /\ onNodeBusy'.node = n /\ onNodeBusy'.zone = zone /\ onNodeBusy' # None
  BY <1>1, PodConstants
<1>3. /\ nodeZones' \in [Node -> Zone \cup {None}]
      /\ nodeInstanceTypes' \in [Node -> InstanceType \cup {None}]
      /\ nodeZones'[n] = zone /\ \A k \in Node \ {n} : nodeZones'[k] = nodeZones[k]
      /\ nodeInstanceTypes'[n] = it
      /\ \A k \in Node \ {n} : nodeInstanceTypes'[k] = nodeInstanceTypes[k]
  BY <1>1, PodInvFacts DEF PodTypes
<1>4. \A p \in stale : /\ p \in Pod /\ podNameToMeta[p] \in P!PodMeta
                       /\ podNameToMeta[p] # P!NoMeta
                       /\ Updated(p, it) \in P!PodMeta
                       /\ Updated(p, it).pod = p /\ Updated(p, it).node = n
                       /\ Updated(p, it).itype = it
                       /\ Updated(p, it).ip = podNameToMeta[p].ip
                       /\ Updated(p, it).cid = podNameToMeta[p].cid
  BY UpdatedFacts, PodMarks
<1>5. /\ podNameToMeta' \in [Pod -> P!PodMeta \cup {P!NoMeta}]
      /\ \A p \in Pod : podNameToMeta'[p] = IF p \in stale THEN Updated(p, it)
                                             ELSE podNameToMeta[p]
  <2>1. CASE it = None
    BY <2>1, PodInvFacts DEF P!onNode, P!indexes, PodTypes
  <2>2. CASE it # None
    <3>1. podNameToMeta' = [p \in Pod |-> IF p \in stale THEN Updated(p, it)
                                          ELSE podNameToMeta[p]]
      BY <2>2, BackfillFacts DEF P!onNode
    <3> HIDE DEF stale
    <3> QED BY <1>4, <3>1, PodInvFacts DEF PodTypes
  <2> QED BY <2>1, <2>2
<1>6. /\ containerToPod' \in [P!Cid -> P!PodMeta \cup {P!NoMeta}]
      /\ \A c \in P!Cid : containerToPod'[c] =
            IF c[1] \in stale /\ podNameToMeta[c[1]].cid = c[2]
            THEN Updated(c[1], it) ELSE containerToPod[c]
  <2>1. CASE it = None
    BY <2>1, PodInvFacts DEF P!onNode, P!indexes, PodTypes
  <2>2. CASE it # None
    <3>1. containerToPod' = [c \in P!Cid |->
              IF c[1] \in stale /\ podNameToMeta[c[1]].cid = c[2]
              THEN Updated(c[1], it) ELSE containerToPod[c]]
      BY <2>2, BackfillFacts DEF P!onNode
    <3> HIDE DEF stale
    <3> QED BY <1>4, <3>1, PodInvFacts DEF PodTypes
  <2> QED BY <2>1, <2>2
<1>7. /\ podIPToMeta' \in [IP -> P!PodMeta \cup {P!NoMeta}]
      /\ \A i \in IP :
            \/ podIPToMeta'[i] = podIPToMeta[i] /\ \A p \in stale : podNameToMeta[p].ip # i
            \/ \E p \in stale : podNameToMeta[p].ip = i /\ podIPToMeta'[i] = Updated(p, it)
  <2>1. CASE it = None
    BY <2>1, PodInvFacts DEF P!onNode, P!indexes, PodTypes
  <2>2. CASE it # None
    <3>1. /\ podIPToMeta' = [i \in IP |-> podIPToMeta'[i]]
          /\ \A i \in IP :
            \/ podIPToMeta'[i] = podIPToMeta[i] /\ \A p \in stale : podNameToMeta[p].ip # i
            \/ \E p \in stale : podNameToMeta[p].ip = i /\ podIPToMeta'[i] = Updated(p, it)
      BY <2>2, BackfillFacts DEF P!onNode
    <3> HIDE DEF stale
    <3>2. \A i \in IP : podIPToMeta'[i] \in P!PodMeta \cup {P!NoMeta}
      BY <1>4, <3>1, PodInvFacts DEF PodTypes
    <3> QED BY <3>1, <3>2
  <2> QED BY <2>1, <2>2
<1>8. ASSUME NEW p \in Pod, podNameToMeta[p] # P!NoMeta, p \notin stale
      PROVE  podNameToMeta[p].itype = nodeInstanceTypes'[podNameToMeta[p].node]
  <2>1. /\ podNameToMeta[p].itype = nodeInstanceTypes[podNameToMeta[p].node]
        /\ podNameToMeta[p].node \in Node
    BY <1>8, PodInvFacts DEF PodInv, InstanceTypeFilled, P!InstanceTypeFilled, P!PodMeta
  <2>2. CASE podNameToMeta[p].node = n
    BY <1>1, <1>3, <1>8, <2>1, <2>2 DEF Stale
  <2>3. CASE podNameToMeta[p].node # n
    BY <1>3, <2>1, <2>3
  <2> QED BY <2>2, <2>3
<1> HIDE DEF stale
<1>9. PodTypes'
  BY <1>1, <1>2, <1>3, <1>5, <1>6, <1>7, PodInvFacts DEF PodTypes
<1>10. ASSUME NEW p \in Pod PROVE NameIndexed(p)'
  <2>1. CASE p \in stale
    <3>1. NameIndexed(p) /\ podNameToMeta[p] # P!NoMeta
      BY <1>4, <2>1, PodInvFacts
    <3>2. /\ podNameToMeta[p].node = Updated(p, it).node
          /\ podNameToMeta[p].ip = Updated(p, it).ip /\ podNameToMeta[p].cid = Updated(p, it).cid
      BY <1>4, <2>1 DEF Updated, P!PodMeta
    <3> QED BY <1>1, <1>4, <1>5, <2>1, <3>1, <3>2 DEF NameIndexed
  <2>2. CASE p \notin stale
    BY <1>1, <1>5, <2>2, PodInvFacts DEF NameIndexed
  <2> QED BY <2>1, <2>2
<1>11. InstanceTypeFilled'
  <2> SUFFICES ASSUME NEW q \in Pod, podNameToMeta'[q] # P!NoMeta
               PROVE  /\ podNameToMeta'[q].itype = nodeInstanceTypes'[podNameToMeta'[q].node]
                      /\ podNameToMeta'[q].cid # 0 =>
                            containerToPod'[<<q, podNameToMeta'[q].cid>>] = podNameToMeta'[q]
                      /\ (/\ podNameToMeta'[q].ip # None
                          /\ podIPToMeta'[podNameToMeta'[q].ip] # P!NoMeta
                          /\ podIPToMeta'[podNameToMeta'[q].ip].pod = q)
                         => podIPToMeta'[podNameToMeta'[q].ip] = podNameToMeta'[q]
    BY DEF InstanceTypeFilled, P!InstanceTypeFilled
  <2> DEFINE m == podNameToMeta[q]
  <2>1. m # P!NoMeta /\ m \in P!PodMeta /\ m.pod = q
    BY <1>4, <1>5, PodInvFacts
  <2>2. /\ m.cid # 0 => containerToPod[<<q, m.cid>>] = m
        /\ (m.ip # None /\ podIPToMeta[m.ip] # P!NoMeta /\ podIPToMeta[m.ip].pod = q)
           => podIPToMeta[m.ip] = m
    BY <2>1 DEF PodInv, InstanceTypeFilled, P!InstanceTypeFilled
  <2>3. podNameToMeta'[q].ip = m.ip /\ podNameToMeta'[q].cid = m.cid
    BY <1>4, <1>5
  <2>4. podNameToMeta'[q].itype = nodeInstanceTypes'[podNameToMeta'[q].node]
    BY <1>3, <1>4, <1>5, <1>8, <2>1
  <2>5. m.cid # 0 => containerToPod'[<<q, m.cid>>] = podNameToMeta'[q]
    <3>1. m.cid # 0 => <<q, m.cid>> \in P!Cid
      BY <2>1, PodConstants DEF P!Cid, P!PodMeta
    <3> QED BY <1>5, <1>6, <2>2, <3>1
  <2>6. ASSUME m.ip # None, podIPToMeta'[m.ip] # P!NoMeta, podIPToMeta'[m.ip].pod = q
        PROVE  podIPToMeta'[m.ip] = podNameToMeta'[q]
    <3>1. m.ip \in IP
      BY <2>1, <2>6 DEF P!PodMeta
    <3>2. CASE podIPToMeta'[m.ip] = podIPToMeta[m.ip] /\ \A p \in stale : podNameToMeta[p].ip # m.ip
      BY <1>5, <2>2, <2>6, <3>2
    <3>3. CASE \E p \in stale : podNameToMeta[p].ip = m.ip /\ podIPToMeta'[m.ip] = Updated(p, it)
      BY <1>4, <1>5, <2>6, <3>3
    <3> QED BY <1>7, <3>1, <3>2, <3>3
  <2> QED BY <2>3, <2>4, <2>5, <2>6
<1>12. ZoneFollowsPod'
  <2> SUFFICES ASSUME NEW i \in IP, podIPToMeta'[i] # P!NoMeta, podIPToMeta'[i].node # n,
                      nodeZones'[podIPToMeta'[i].node] # None
               PROVE  ipToZone'[i] = nodeZones'[podIPToMeta'[i].node]
    BY <1>2 DEF ZoneFollowsPod, P!ZoneFollowsPod
  <2>1. podIPToMeta'[i] = podIPToMeta[i]
    BY <1>4, <1>7
  <2>2. podIPToMeta[i].node \in Node
    BY <2>1, PodInvFacts DEF PodTypes, P!PodMeta
  <2> QED BY <1>1, <1>3, <2>1, <2>2 DEF PodInv, ZoneFollowsPod, P!ZoneFollowsPod
<1>13. SettledAddressKnown'
  <2> SUFFICES ASSUME NEW q \in Pod, pods[q].running, pods[q].ip \in IP \ contended
               PROVE  podIPToMeta'[pods[q].ip] = podNameToMeta'[q]
    BY <1>1 DEF SettledAddressKnown, P!SettledAddressKnown
  <2> DEFINE i == pods[q].ip
  <2>1. podIPToMeta[i] = podNameToMeta[q]
    BY DEF PodInv, SettledAddressKnown, P!SettledAddressKnown
  <2>2. \A p \in stale : podNameToMeta[p].ip = i => p = q
    BY <1>4, PodInvFacts DEF PodInv
  <2>3. podNameToMeta[q].ip = i
    <3>1. pods[q] # P!Absent
      BY PodMarks
    <3> QED BY <3>1, PodInvFacts DEF NameIndexed
  <2>4. CASE podIPToMeta'[i] = podIPToMeta[i] /\ \A p \in stale : podNameToMeta[p].ip # i
    BY <1>5, <2>1, <2>3, <2>4
  <2>5. CASE \E p \in stale : podNameToMeta[p].ip = i /\ podIPToMeta'[i] = Updated(p, it)
    BY <1>5, <2>2, <2>5
  <2> QED BY <1>7, <2>4, <2>5
<1>14. nodeZones'[onNodeBusy'.node] = onNodeBusy'.zone
  BY <1>2, <1>3
<1>15. \A p, q \in Pod : p # q /\ pods'[p].ip = pods'[q].ip /\ pods'[p].ip \in IP
          => pods'[p].ip \in contended'
  BY <1>1 DEF PodInv
<1> QED BY <1>9, <1>10, <1>11, <1>12, <1>13, <1>14, <1>15 DEF PodInv

LEMMA PodInvariant == DestinationsSpec => []PodInv
<1>1. DestinationsInit => PodInv
  <2> SUFFICES ASSUME DestinationsInit PROVE PodInv
    OBVIOUS
  <2>1. /\ pods = [p \in Pod |-> P!Absent]
        /\ containerToPod = [c \in P!Cid |-> P!NoMeta]
        /\ podIPToMeta = [i \in IP |-> P!NoMeta]
        /\ podNameToMeta = [p \in Pod |-> P!NoMeta]
        /\ nodeZones = [n \in Node |-> None]
        /\ nodeInstanceTypes = [n \in Node |-> None]
        /\ ipToZone = [i \in IP |-> None]
        /\ onNodeBusy = None
    BY DEF DestinationsInit, P!Init
  <2>2. PodTypes
    BY <2>1 DEF PodTypes
  <2>3. \A p \in Pod : NameIndexed(p)
    BY <2>1 DEF NameIndexed
  <2> QED
    BY <2>1, <2>2, <2>3, PodMarks, PodConstants DEF PodInv, InstanceTypeFilled,
       P!InstanceTypeFilled, ZoneFollowsPod, P!ZoneFollowsPod, SettledAddressKnown,
       P!SettledAddressKnown
<1>2. PodInv /\ [DestinationsNext]_destinationsVars => PodInv'
  <2> SUFFICES ASSUME PodInv, [DestinationsNext]_destinationsVars PROVE PodInv'
    OBVIOUS
  <2>1. CASE UNCHANGED podVars
    BY <2>1 DEF podVars, PodInv, PodTypes, NameIndexed, InstanceTypeFilled,
       P!InstanceTypeFilled, ZoneFollowsPod, P!ZoneFollowsPod, SettledAddressKnown,
       P!SettledAddressKnown
  <2>2. CASE P!Next
    BY <2>2, OnPodKeepsPodInv, OnPodDeleteKeepsPodInv, OnNodeKeepsPodInv,
       CallbacksKeepPodInv DEF P!Next
  <2> QED BY <2>1, <2>2, InformerSteps
<1> QED BY <1>1, <1>2, PTL DEF DestinationsSpec, destinationsVars

\* Whichever of onPod and onNode comes first, and however often nodes are
\* relabelled, the three indexes agree on a pod and have its node's instance
\* type.
THEOREM InformerInstanceTypeFilled == DestinationsSpec => []InstanceTypeFilled
<1>1. PodInv => InstanceTypeFilled
  BY DEF PodInv
<1> QED BY <1>1, PodInvariant, PTL

\* The zone a flow is priced with is that of the node of the pod the address
\* index names; only while onNode is between its critical sections may it be
\* the node's previous one.
THEOREM InformerZoneFollowsPod == DestinationsSpec => []ZoneFollowsPod
<1>1. PodInv => ZoneFollowsPod
  BY DEF PodInv
<1> QED BY <1>1, PodInvariant, PTL

\* For every number of pods that pass an address on: a running pod is found
\* under its address with the metadata of the name index, once the earlier
\* holders were seen to leave before its last event.
THEOREM InformerSettledAddressKnown == DestinationsSpec => []SettledAddressKnown
<1>1. PodInv => SettledAddressKnown
  BY DEF PodInv
<1> QED BY <1>1, PodInvariant, PTL

-----------------------------------------------------------------------------
(* The intent join.  Sockets that use one key after the other are rivals;   *)
(* what keeps their events apart is that the ring preserves the order in    *)
(* which the kernel closed the one and established the other.               *)

Rivals(t, s) ==
    t # s /\ t \notin Udp /\ \E i, j \in ConnKind : KeyOf[t][i] = KeyOf[s][j]

\* The events that write the cache, at position i of the ring.
Writes(i) == ring[i][1] \in {"establish", "close"}

\* What the kernel knows of sockets: open ones share no tuple, and only an
\* established one has an entry in connections.
SocketOrder ==
    /\ \A s \in Sock \ Udp : conn[s] # "none" => sk[s] \in {"open", "closed"}
    /\ \A s, t \in Sock \ Udp : sk[s] = "open" /\ sk[t] = "open" => ~Rivals(t, s)

\* Where the events in the ring come from.
EventOrder ==
    \A i \in 1 .. Len(ring) : Writes(i) =>
        /\ ring[i][2] \notin Udp
        /\ ring[i][1] = "close" => sk[ring[i][2]] = "closed"
        /\ ring[i][1] = "establish" => sk[ring[i][2]] \in {"open", "closed"}

\* The events of a rival precede an open socket's establish event, and have
\* been handled when that one has.
RivalOrder ==
    /\ \A s \in Sock \ Udp, i, j \in 1 .. Len(ring) :
          /\ sk[s] = "open" /\ ring[i][1] = "establish" /\ ring[i][2] = s
          /\ Writes(j) /\ Rivals(ring[j][2], s)
          => j < i
    /\ \A s \in established, j \in 1 .. Len(ring) :
          sk[s] = "open" /\ Writes(j) => ~Rivals(ring[j][2], s)

EstablishedOrder ==
    established \subseteq Sock \ Udp /\ \A s \in established : sk[s] \in {"open", "closed"}

OrderInv == SocketOrder /\ EventOrder /\ RivalOrder /\ EstablishedOrder

\* An event is appended, or the ring was full and nothing was.
LEMMA EmitRing ==
    ASSUME DPTypeOK, NEW type \in {"connect", "establish", "close"}, NEW s \in Sock,
           NEW kind \in ConnKind, NEW lost, Emit(type, s, kind, lost)
    PROVE  \/ UNCHANGED ring
           \/ /\ Len(ring') = Len(ring) + 1 /\ Len(ring) \in Nat
              /\ \A i \in 1 .. Len(ring) : ring'[i] = ring[i]
              /\ ring'[Len(ring')] = <<type, s, kind>>
<1>1. ring \in Seq(Event) /\ <<type, s, kind>> \in Event
  BY DEF DPTypeOK, Event
<1>2. CASE ring' = Append(ring, <<type, s, kind>>)
  BY <1>1, <1>2
<1> QED
  BY <1>2 DEF Emit

\* What a step of socket s may do: it opens only when no rival is open, and
\* appends at most one event, of its own.
Moves(s, type) ==
    /\ UNCHANGED established
    /\ \A t \in Sock \ {s} : sk'[t] = sk[t]
    /\ s \notin Udp /\ sk[s] \in {"open", "closed"} => sk'[s] \in {sk[s], "closed"}
    /\ s \notin Udp /\ sk'[s] = "open" /\ sk[s] # "open" => TupleFree(s)
    /\ \A t \in Sock \ Udp : conn'[t] # "none" =>
          conn[t] # "none" \/ (t = s /\ sk'[s] \in {"open", "closed"})
    /\ \/ UNCHANGED ring
       \/ /\ Len(ring') = Len(ring) + 1 /\ Len(ring) \in Nat
          /\ \A i \in 1 .. Len(ring) : ring'[i] = ring[i]
          /\ \E kind \in ConnKind : ring'[Len(ring')] = <<type, s, kind>>
          /\ type = "close" => s \notin Udp /\ sk[s] = "open" /\ sk'[s] = "closed"
          /\ type = "establish" => s \notin Udp /\ sk[s] \in {"fresh", "connecting"}
                                   /\ sk'[s] = "open" /\ TupleFree(s)

LEMMA MovesKeepOrder ==
    ASSUME DPTypeOK, DPTypeOK', OrderInv, NEW s \in Sock,
           NEW type \in {"connect", "establish", "close"}, Moves(s, type)
    PROVE  OrderInv'
<1> USE DEF OrderInv
<1>1. /\ ring \in Seq(Event) /\ ring' \in Seq(Event)
      /\ Len(ring) \in Nat /\ Len(ring') \in Nat
  BY DEF DPTypeOK
<1>2. /\ \A i \in 1 .. Len(ring) : ring[i] \in Event /\ ring[i][2] \in Sock
      /\ \A i \in 1 .. Len(ring') : ring'[i] \in Event /\ ring'[i][2] \in Sock
  BY <1>1 DEF Event
<1>3. Udp \subseteq Sock /\ established' = established
  BY DataPlaneAssumption DEF Moves
<1>4. \A t \in Sock \ Udp : sk[t] \in {"open", "closed"} => sk'[t] \in {sk[t], "closed"}
  BY DEF Moves
<1>5. \A t \in Sock \ Udp : sk'[t] = "open" /\ sk[t] # "open" =>
          t = s /\ TupleFree(s) /\ sk[s] \notin {"open", "closed"}
  BY <1>4 DEF Moves
<1>6. TupleFree(s) => \A t \in Sock \ Udp : sk[t] = "open" => ~Rivals(t, s) /\ ~Rivals(s, t)
  BY DEF TupleFree, Rivals
<1>7. SocketOrder'
  <2>1. \A t \in Sock \ Udp : conn'[t] # "none" => sk'[t] \in {"open", "closed"}
    BY <1>4 DEF Moves, SocketOrder
  <2>2. \A u, t \in Sock \ Udp : sk'[u] = "open" /\ sk'[t] = "open" => ~Rivals(t, u)
    <3> SUFFICES ASSUME NEW u \in Sock \ Udp, NEW t \in Sock \ Udp,
                        sk'[u] = "open", sk'[t] = "open"
                 PROVE  ~Rivals(t, u)
      OBVIOUS
    <3>1. CASE sk[u] = "open" /\ sk[t] = "open"
      BY <3>1 DEF SocketOrder
    <3>2. CASE sk[u] # "open" /\ sk[t] = "open"
      BY <1>5, <1>6, <3>2
    <3>3. CASE sk[u] = "open" /\ sk[t] # "open"
      BY <1>5, <1>6, <3>3
    <3>4. CASE sk[u] # "open" /\ sk[t] # "open"
      BY <1>5, <3>4 DEF Rivals
    <3> QED BY <3>1, <3>2, <3>3, <3>4
  <2> QED BY <2>1, <2>2 DEF SocketOrder, Rivals
<1>8. EstablishedOrder'
  BY <1>3, <1>4 DEF EstablishedOrder
\* The last event of the new ring, or one that was there before.
<1>9. \A i \in 1 .. Len(ring') :
          \/ i \in 1 .. Len(ring) /\ ring'[i] = ring[i]
          \/ /\ i = Len(ring') /\ i = Len(ring) + 1
             /\ ring'[i][1] = type /\ ring'[i][2] = s
             /\ type = "close" => s \notin Udp /\ sk[s] = "open" /\ sk'[s] = "closed"
             /\ type = "establish" => /\ s \notin Udp /\ sk'[s] = "open"
                                      /\ sk[s] \in {"fresh", "connecting"}
                                      /\ TupleFree(s)
  <2>1. CASE UNCHANGED ring
    BY <2>1
  <2>2. CASE ~UNCHANGED ring
    <3>1. PICK kind \in ConnKind : ring'[Len(ring')] = <<type, s, kind>>
      BY <2>2 DEF Moves
    <3> QED BY <1>1, <2>2, <3>1 DEF Moves
  <2> QED BY <2>1, <2>2
<1>10. EventOrder'
  <2> SUFFICES ASSUME NEW i \in 1 .. Len(ring'), Writes(i)'
               PROVE  /\ ring'[i][2] \notin Udp
                      /\ ring'[i][1] = "close" => sk'[ring'[i][2]] = "closed"
                      /\ ring'[i][1] = "establish" => sk'[ring'[i][2]] \in {"open", "closed"}
    BY DEF EventOrder, Writes
  <2>1. CASE i \in 1 .. Len(ring) /\ ring'[i] = ring[i]
    BY <1>2, <1>4, <2>1 DEF EventOrder, Writes
  <2>2. CASE ~(i \in 1 .. Len(ring) /\ ring'[i] = ring[i])
    BY <1>9, <2>2 DEF Writes
  <2> QED BY <2>1, <2>2
<1>11. RivalOrder'
  <2>1. ASSUME NEW u \in Sock \ Udp, NEW i \in 1 .. Len(ring'), NEW j \in 1 .. Len(ring'),
               sk'[u] = "open", ring'[i][1] = "establish", ring'[i][2] = u,
               Writes(j)', Rivals(ring'[j][2], u)
        PROVE  j < i
    <3>1. CASE i \in 1 .. Len(ring) /\ ring'[i] = ring[i]
      <4>1. sk[u] = "open"
        BY <1>4, <2>1, <3>1 DEF EventOrder, Writes
      <4>2. CASE j \in 1 .. Len(ring) /\ ring'[j] = ring[j]
        BY <2>1, <3>1, <4>1, <4>2 DEF RivalOrder, Writes
      <4>3. CASE /\ ring'[j][1] = type /\ ring'[j][2] = s
                 /\ type = "close" => s \notin Udp /\ sk[s] = "open"
                 /\ type = "establish" => TupleFree(s)
        BY <1>6, <2>1, <4>1, <4>3 DEF SocketOrder, Writes
      <4> QED BY <1>9, <4>2, <4>3
    <3>2. CASE i = Len(ring') /\ ring'[i][2] = s
      <4>1. j # i
        BY <2>1, <3>2 DEF Rivals
      <4> QED BY <1>1, <3>2, <4>1
    <3> QED BY <1>9, <3>1, <3>2
  <2>2. ASSUME NEW u \in established', NEW j \in 1 .. Len(ring'), sk'[u] = "open", Writes(j)'
        PROVE  ~Rivals(ring'[j][2], u)
    <3>1. u \in Sock \ Udp /\ sk[u] = "open"
      BY <1>3, <1>4, <2>2 DEF EstablishedOrder
    <3>2. CASE j \in 1 .. Len(ring) /\ ring'[j] = ring[j]
      BY <1>3, <2>2, <3>1, <3>2 DEF RivalOrder, Writes
    <3>3. CASE /\ ring'[j][1] = type /\ ring'[j][2] = s
               /\ type = "close" => s \notin Udp /\ sk[s] = "open"
               /\ type = "establish" => TupleFree(s)
      BY <1>6, <2>2, <3>1, <3>3 DEF SocketOrder, Writes
    <3> QED BY <1>9, <3>2, <3>3
  <2> QED BY <2>1, <2>2 DEF RivalOrder, Rivals
<1> QED
  BY <1>7, <1>8, <1>10, <1>11

\* An LRU insertion makes an entry for s only; others may be evicted.
LEMMA InsertedOnly ==
    ASSUME NEW s \in Sock, NEW kind, NEW f \in ConnInsert(s, kind)
    PROVE  \A t \in Sock : t # s /\ f[t] # "none" => conn[t] # "none"
BY DEF ConnInsert

LEMMA EstablishMoves ==
    ASSUME DPTypeOK, UNCHANGED established, NEW s \in Sock,
           s \notin Udp, sk[s] \in {"fresh", "connecting"}, TupleFree(s),
           sk' = [sk EXCEPT ![s] = "open"],
           \/ UNCHANGED <<conn, ring>>
           \/ \E kind \in ConnKind : HandleEstablished(s, kind)
    PROVE  Moves(s, "establish")
<1>1. sk'[s] = "open" /\ \A t \in Sock \ {s} : sk'[t] = sk[t]
  BY DEF DPTypeOK
<1>2. CASE UNCHANGED <<conn, ring>>
  BY <1>1, <1>2 DEF Moves
<1>3. ASSUME NEW kind \in ConnKind, HandleEstablished(s, kind) PROVE Moves(s, "establish")
  <2>1. \A t \in Sock : t # s /\ conn'[t] # "none" => conn[t] # "none"
    BY <1>3, InsertedOnly DEF HandleEstablished
  <2>2. \/ UNCHANGED ring
        \/ /\ Len(ring') = Len(ring) + 1 /\ Len(ring) \in Nat
           /\ \A i \in 1 .. Len(ring) : ring'[i] = ring[i]
           /\ ring'[Len(ring')] = <<"establish", s, kind>>
    BY <1>3, EmitRing DEF HandleEstablished
  <2> QED BY <1>1, <2>1, <2>2 DEF Moves
<1> QED
  BY <1>2, <1>3

\* Each of the socket programs is such a step.
LEMMA SocketStepMoves ==
    ASSUME DPTypeOK, OrderInv, UNCHANGED established, NEW s \in Sock,
           \/ Connect(s) \/ EstablishActive(s) \/ EstablishPassive(s)
           \/ StateClose(s) \/ SockRelease(s)
    PROVE  \E type \in {"connect", "establish", "close"} : Moves(s, type)
<1>1. /\ sk \in [Sock -> {"fresh", "connecting", "open", "closed"}]
      /\ conn \in [Sock -> ConnKind \cup {"none"}] /\ Udp \subseteq Sock
  BY DataPlaneAssumption DEF DPTypeOK
<1>2. CASE Connect(s)
  <2>1. /\ sk[s] = "fresh" /\ \A t \in Sock \ {s} : sk'[t] = sk[t]
        /\ s \notin Udp => sk'[s] = "connecting"
    BY <1>1, <1>2 DEF Connect
  <2>2. \A t \in Sock \ Udp : conn'[t] # "none" => conn[t] # "none"
    BY <1>2, InsertedOnly DEF Connect
  <2>3. \/ UNCHANGED ring
        \/ /\ Len(ring') = Len(ring) + 1 /\ Len(ring) \in Nat
           /\ \A i \in 1 .. Len(ring) : ring'[i] = ring[i]
           /\ ring'[Len(ring')] = <<"connect", s, "intent">>
    BY <1>2, EmitRing DEF Connect, ConnKind
  <2>4. Moves(s, "connect")
    BY <2>1, <2>2, <2>3 DEF Moves, ConnKind
  <2> QED BY <2>4
<1>3. CASE EstablishActive(s)
  <2>1. Moves(s, "establish")
    BY <1>3, EstablishMoves DEF EstablishActive, ConnKind
  <2> QED BY <2>1
<1>4. CASE EstablishPassive(s)
  <2>1. Moves(s, "establish")
    BY <1>4, EstablishMoves, DataPlaneAssumption DEF EstablishPassive, ConnKind
  <2> QED BY <2>1
<1>5. CASE StateClose(s)
  <2>1. s \notin Udp /\ sk'[s] = "closed" /\ \A t \in Sock \ {s} : sk'[t] = sk[t]
    BY <1>1, <1>5 DEF StateClose
  <2>2. \A t \in Sock : conn'[t] # "none" => conn[t] # "none"
    BY <1>1, <1>5 DEF StateClose
  <2>3. \/ UNCHANGED ring
        \/ /\ Len(ring') = Len(ring) + 1 /\ Len(ring) \in Nat
           /\ \A i \in 1 .. Len(ring) : ring'[i] = ring[i]
           /\ \E kind \in ConnKind : ring'[Len(ring')] = <<"close", s, kind>>
           /\ sk[s] = "open"
    <3>1. CASE enabled /\ conn[s] # "none"
      <4>1. conn[s] \in ConnKind /\ Emit("close", s, conn[s], {})
        BY <1>1, <1>5, <3>1 DEF StateClose
      <4>2. sk[s] = "open"
        BY <1>5, <2>1, <3>1 DEF OrderInv, SocketOrder, StateClose
      <4> QED BY <4>1, <4>2, EmitRing
    <3>2. CASE ~(enabled /\ conn[s] # "none")
      BY <1>5, <3>2 DEF StateClose
    <3> QED BY <3>1, <3>2
  <2>4. Moves(s, "close")
    BY <2>1, <2>2, <2>3 DEF Moves
  <2> QED BY <2>4
<1>6. CASE SockRelease(s)
  <2>1. /\ \A t \in Sock \ {s} : sk'[t] = sk[t]
        /\ s \notin Udp => sk'[s] = IF sk[s] = "open" THEN "open" ELSE "closed"
        /\ \A t \in Sock : conn'[t] # "none" => conn[t] # "none"
        /\ UNCHANGED ring
    BY <1>1, <1>6 DEF SockRelease
  <2>2. Moves(s, "close")
    BY <2>1 DEF Moves
  <2> QED BY <2>2
<1> QED
  BY <1>2, <1>3, <1>4, <1>5, <1>6

LEMMA OrderKept ==
    ASSUME OrderInv, UNCHANGED <<sk, conn, ring, established>>
    PROVE  OrderInv'
BY DEF OrderInv, SocketOrder, EventOrder, RivalOrder, EstablishedOrder, Writes, Rivals

LEMMA KernelKeepsOrder ==
    ASSUME DPTypeOK, DPTypeOK', OrderInv, UNCHANGED established, KernelStep
    PROVE  OrderInv'
<1>1. CASE SetEnabled \/ HookStep
  BY <1>1, OrderKept DEF SetEnabled, HookStep, HookExit, SocketHookEnter, QuicHookEnter
<1>2. CASE SocketStep
  BY <1>2, SocketStepMoves, MovesKeepOrder DEF SocketStep
<1> QED
  BY <1>1, <1>2 DEF KernelStep

-----------------------------------------------------------------------------
(* The cache behind the event reader.                                       *)

CacheTypes ==
    /\ cur \in [FKey -> Dst \cup {Miss}] /\ prev \in [FKey -> Dst \cup {Miss}]
    /\ since \in [Sock -> Nat]

Held == Cardinality(C!Entries(cur))

\* Where the destination x that was recorded under key j is when n records
\* were made since: it left the current generation only with all the entries
\* that one had, and the previous one only after Max records.
Placed(j, x, n) ==
    \/ cur[j] = x
    \/ cur[j] = Miss /\ prev[j] = x /\ n >= Held
    \/ cur[j] = Miss /\ prev[j] = Miss /\ n > Max

OpenPlaced ==
    \A s \in established : sk[s] = "open" => Placed(KeyOf[s]["intent"], Dialed[s], since[s])

JoinInv == OrderInv /\ CacheTypes /\ OpenPlaced

LEMMA SameCardinality ==
    ASSUME NEW X PROVE C!Cardinality(X) = Cardinality(X)
BY DEF C!Cardinality, Cardinality

LEMMA EntriesFinite ==
    ASSUME NEW g \in [FKey -> Dst \cup {Miss}]
    PROVE  IsFiniteSet(C!Entries(g)) /\ Cardinality(C!Entries(g)) \in Nat
<1>1. C!Entries(g) \in SUBSET FKey
  BY DEF C!Entries
<1> QED BY <1>1, IntentJoinAssumption, FS_Subset, FS_CardinalityType

\* Recording one connection makes every other one older by one record.
LEMMA PutPlaces ==
    ASSUME CacheTypes, NEW k \in FKey, NEW d \in Dst, C!Put(k, d)
    PROVE  /\ cur' \in [FKey -> Dst \cup {Miss}] /\ prev' \in [FKey -> Dst \cup {Miss}]
           /\ cur'[k] = d
           /\ \A j \in FKey \ {k}, x \in Dst, n, m \in Nat :
                 /\ Placed(j, x, n)
                 /\ m = IF n > Max THEN n ELSE n + 1
                 => Placed(j, x, m)'
<1> USE DEF CacheTypes
<1>1. C!Empty \in [FKey -> Dst \cup {Miss}] /\ \A j \in FKey : C!Empty[j] = Miss
  BY DEF C!Empty
<1>2. cur' \in [FKey -> Dst \cup {Miss}] /\ prev' \in [FKey -> Dst \cup {Miss}] /\ cur'[k] = d
  BY <1>1 DEF C!Put
<1>3. Held \in Nat /\ Held' \in Nat /\ Max \in Nat /\ Max >= 1
  BY <1>2, EntriesFinite, IntentJoinAssumption DEF Held
<1>4. C!Full <=> Held >= Max
  BY SameCardinality DEF C!Full, Held
<1>5. CASE ~C!Full
  <2>1. \A j \in FKey : j # k => cur'[j] = cur[j] /\ prev'[j] = prev[j]
    BY <1>5 DEF C!Put
  <2>2. Held' <= Held + 1
    <3>1. C!Entries(cur') = C!Entries(cur) \cup {k}
      BY <1>2, <2>1, IntentJoinAssumption DEF C!Entries
    <3>2. Cardinality(C!Entries(cur) \cup {k}) =
            IF k \in C!Entries(cur) THEN Held ELSE Held + 1
      BY EntriesFinite, FS_AddElement DEF Held
    <3> QED BY <1>3, <3>1, <3>2 DEF Held
  <2>3. Held' <= Max
    BY <1>3, <1>4, <1>5, <2>2
  <2> QED BY <1>2, <1>3, <2>1, <2>2, <2>3 DEF Placed
<1>6. CASE C!Full
  <2>1. \A j \in FKey : j # k => cur'[j] = Miss /\ prev'[j] = cur[j]
    BY <1>1, <1>6 DEF C!Put
  <2>2. Held' = 1
    <3>1. C!Entries(cur') = {k}
      BY <1>2, <2>1, IntentJoinAssumption DEF C!Entries
    <3> QED BY <3>1, FS_Singleton DEF Held
  <2>3. Held >= Max
    BY <1>4, <1>6
  <2> QED BY <1>2, <1>3, <2>1, <2>2, <2>3 DEF Placed
<1> QED
  BY <1>5, <1>6

LEMMA DeletePlaces ==
    ASSUME CacheTypes, NEW k \in FKey, C!Delete(k)
    PROVE  /\ cur' \in [FKey -> Dst \cup {Miss}] /\ prev' \in [FKey -> Dst \cup {Miss}]
           /\ \A j \in FKey \ {k}, x \in Dst, n \in Nat : Placed(j, x, n) => Placed(j, x, n)'
<1> USE DEF CacheTypes
<1>1. /\ cur' \in [FKey -> Dst \cup {Miss}] /\ prev' \in [FKey -> Dst \cup {Miss}]
      /\ cur'[k] = Miss
      /\ \A j \in FKey : j # k => cur'[j] = cur[j] /\ prev'[j] = prev[j]
  BY DEF C!Delete
<1>2. Held \in Nat /\ Held' \in Nat /\ Held' <= Held
  <2>1. C!Entries(cur') \subseteq C!Entries(cur)
    BY <1>1 DEF C!Entries
  <2> QED BY <1>1, <2>1, EntriesFinite, FS_Subset DEF Held
<1> QED
  BY <1>1, <1>2 DEF Placed

\* The reader takes the first event: whatever it does to the cache is about a
\* socket that is no rival of an open connection it knows.
LEMMA ReadKeepsJoin ==
    ASSUME DPTypeOK, JoinInv, ReadEvents
    PROVE  JoinInv'
<1> USE DEF JoinInv
<1> DEFINE evt == Head(ring)
<1>1. ring \in Seq(Event) /\ ring # <<>> /\ ring' = Tail(ring) /\ UNCHANGED <<sk, conn>>
  BY DEF DPTypeOK, ReadEvents, ReadEvent
<1>2. /\ Len(ring) \in Nat \ {0} /\ Len(ring') = Len(ring) - 1 /\ evt = ring[1]
      /\ \A i \in 1 .. Len(ring') : i + 1 \in 1 .. Len(ring) /\ ring'[i] = ring[i + 1]
  BY <1>1
<1>3. evt \in Event /\ evt[2] \in Sock /\ evt[3] \in ConnKind
  BY <1>1, <1>2 DEF Event
<1>4. KeyOf[evt[2]][evt[3]] \in FKey /\ \A s \in Sock : KeyOf[s]["intent"] \in FKey
  BY <1>3, KeyOfType DEF ConnKind
<1>5. established' = established \/ (evt[1] = "establish" /\ established' = established \cup {evt[2]})
  BY DEF ReadEvents, HandleEstablish, HandleClose, HandleConnect
<1>6. evt[1] \in {"establish", "close"} =>
          /\ evt[2] \notin Udp
          /\ evt[1] = "close" => sk[evt[2]] = "closed"
          /\ evt[1] = "establish" => sk[evt[2]] \in {"open", "closed"}
  BY <1>2 DEF OrderInv, EventOrder, Writes
<1>7. OrderInv'
  <2>1. SocketOrder'
    BY <1>1 DEF OrderInv, SocketOrder, Rivals
  <2>2. EventOrder'
    BY <1>1, <1>2 DEF OrderInv, EventOrder, Writes
  <2>3. EstablishedOrder'
    BY <1>1, <1>3, <1>5, <1>6 DEF OrderInv, EstablishedOrder
  <2>4. \A s \in Sock \ Udp, i, j \in 1 .. Len(ring') :
          /\ sk'[s] = "open" /\ ring'[i][1] = "establish" /\ ring'[i][2] = s
          /\ Writes(j)' /\ Rivals(ring'[j][2], s)
          => j < i
    <3> SUFFICES ASSUME NEW s \in Sock \ Udp, NEW i \in 1 .. Len(ring'), NEW j \in 1 .. Len(ring'),
                        sk'[s] = "open", ring'[i][1] = "establish", ring'[i][2] = s,
                        Writes(j)', Rivals(ring'[j][2], s)
                 PROVE  j < i
      OBVIOUS
    <3>1. j + 1 < i + 1
      BY <1>1, <1>2 DEF OrderInv, RivalOrder, Writes
    <3> QED BY <1>2, <3>1
  <2>5. ASSUME NEW s \in established', NEW j \in 1 .. Len(ring'), sk'[s] = "open", Writes(j)'
        PROVE  ~Rivals(ring'[j][2], s)
    <3>1. j + 1 \in 1 .. Len(ring) /\ ring'[j] = ring[j + 1] /\ Writes(j + 1)
      BY <1>2, <2>5 DEF Writes
    <3>2. CASE s \in established
      BY <1>1, <2>5, <3>1, <3>2 DEF OrderInv, RivalOrder
    <3>3. CASE s = evt[2] /\ evt[1] = "establish"
      <4>1. s \in Sock \ Udp /\ sk[s] = "open" /\ 1 \in 1 .. Len(ring) /\ ring[1][1] = "establish"
            /\ ring[1][2] = s
        BY <1>1, <1>2, <1>3, <1>6, <2>5, <3>3
      <4>2. ~(j + 1 < 1)
        BY <1>2
      <4> QED BY <3>1, <4>1, <4>2 DEF OrderInv, RivalOrder
    <3> QED BY <1>5, <2>5, <3>2, <3>3
  <2> QED BY <2>1, <2>2, <2>3, <2>4, <2>5 DEF OrderInv, RivalOrder, Rivals
\* An open connection that is known and is not the event's has another key.
<1>8. ASSUME NEW s \in established, sk[s] = "open", evt[1] \in {"establish", "close"}, s # evt[2]
      PROVE  KeyOf[s]["intent"] # KeyOf[evt[2]][evt[3]]
  <2>1. ~Rivals(evt[2], s)
    BY <1>2, <1>8 DEF OrderInv, RivalOrder, Writes
  <2> QED BY <1>3, <1>6, <1>8, <2>1 DEF Rivals, ConnKind
<1>9. established \subseteq Sock
  BY DEF OrderInv, EstablishedOrder
<1>10. CASE HandleEstablish(evt) /\ WasDNATed(evt)
  <2>1. /\ evt[1] = "establish" /\ evt[3] = "intent"
        /\ C!Put(KeyOf[evt[2]][evt[3]], Dialed[evt[2]])
        /\ established' = established \cup {evt[2]}
    BY <1>10 DEF HandleEstablish, WasDNATed
  <2>2. PICK k \in FKey, d \in Dst : k = KeyOf[evt[2]][evt[3]] /\ d = Dialed[evt[2]]
    BY <1>3, <1>4, IntentJoinAssumption
  <2>3. /\ cur' \in [FKey -> Dst \cup {Miss}] /\ prev' \in [FKey -> Dst \cup {Miss}]
        /\ cur'[k] = d
        /\ \A j \in FKey \ {k}, x \in Dst, n, m \in Nat :
              Placed(j, x, n) /\ m = (IF n > Max THEN n ELSE n + 1) => Placed(j, x, m)'
    BY <2>1, <2>2, PutPlaces
  <2>4. /\ since' \in [Sock -> Nat]
        /\ \A t \in Sock : t # evt[2] =>
              since'[t] = IF since[t] > Max THEN since[t] ELSE since[t] + 1
    BY <1>10 DEF HandleEstablish, Records, CacheTypes
  <2>5. ASSUME NEW s \in established', sk'[s] = "open"
        PROVE  Placed(KeyOf[s]["intent"], Dialed[s], since[s])'
    <3>1. CASE s = evt[2]
      <4>1. KeyOf[s]["intent"] = k /\ Dialed[s] = d
        BY <2>1, <2>2, <3>1
      <4> QED BY <2>3, <4>1 DEF Placed
    <3>2. CASE s # evt[2]
      <4>1. s \in established /\ KeyOf[s]["intent"] # k
        BY <1>1, <1>8, <2>1, <2>2, <2>5, <3>2
      <4>2. s \in Sock /\ Dialed[s] \in Dst /\ KeyOf[s]["intent"] \in FKey \ {k}
        BY <1>4, <1>9, <4>1, IntentJoinAssumption
      <4>3. PICK n \in Nat, m \in Nat :
              n = since[s] /\ m = since'[s] /\ m = IF n > Max THEN n ELSE n + 1
        BY <2>4, <3>2, <4>2 DEF CacheTypes
      <4>4. Placed(KeyOf[s]["intent"], Dialed[s], n)
        BY <1>1, <2>5, <4>1, <4>3 DEF OpenPlaced
      <4>5. Placed(KeyOf[s]["intent"], Dialed[s], m)'
        BY <2>3, <4>2, <4>3, <4>4
      <4> QED BY <4>3, <4>5 DEF Placed
    <3> QED BY <3>1, <3>2
  <2> QED BY <1>7, <2>3, <2>4, <2>5 DEF OpenPlaced, CacheTypes
<1>11. CASE HandleClose(evt)
  <2>1. /\ evt[1] = "close" /\ C!Delete(KeyOf[evt[2]][evt[3]])
        /\ established' = established /\ since' = since
    BY <1>11 DEF HandleClose
  <2>2. /\ cur' \in [FKey -> Dst \cup {Miss}] /\ prev' \in [FKey -> Dst \cup {Miss}]
        /\ \A j \in FKey \ {KeyOf[evt[2]][evt[3]]}, x \in Dst, n \in Nat :
              Placed(j, x, n) => Placed(j, x, n)'
    <3> HIDE DEF evt
    <3> QED BY <1>4, <2>1, DeletePlaces
  <2>3. ASSUME NEW s \in established, sk[s] = "open"
        PROVE  Placed(KeyOf[s]["intent"], Dialed[s], since[s])'
    <3>1. s # evt[2]
      BY <1>6, <2>1, <2>3
    <3>2. KeyOf[s]["intent"] \in FKey \ {KeyOf[evt[2]][evt[3]]}
      BY <1>4, <1>8, <1>9, <2>1, <2>3, <3>1
    <3>3. PICK n \in Nat : n = since[s] /\ n = since'[s]
      BY <1>9, <2>1, <2>3 DEF CacheTypes
    <3>4. Placed(KeyOf[s]["intent"], Dialed[s], n)
      BY <2>3, <3>3 DEF OpenPlaced
    <3>5. Placed(KeyOf[s]["intent"], Dialed[s], n)'
      BY <1>9, <2>2, <2>3, <3>2, <3>4, IntentJoinAssumption
    <3> QED BY <3>3, <3>5 DEF Placed
  <2> QED BY <1>1, <1>7, <2>1, <2>2, <2>3 DEF OpenPlaced, CacheTypes
<1>12. CASE UNCHANGED <<cur, prev, established, since>>
  BY <1>1, <1>7, <1>12 DEF CacheTypes, OpenPlaced, Placed, Held
<1> QED
  BY <1>10, <1>11, <1>12 DEF ReadEvents, HandleEstablish, HandleConnect

\* The join adds the event reader and the lookups to the drain, and takes no
\* step the drain does not allow.
LEMMA JoinSteps ==
    ASSUME [DestinationsNext]_destinationsVars
    PROVE  /\ [Next]_vars
           /\ JNext \/ UNCHANGED jVars
<1>1. JNext => Next \/ UNCHANGED vars
  BY DEF JNext, Next, PollStep, ReadEvents, JoinFlow, DeliverJoined, ReadEvent
<1> QED
  BY <1>1 DEF DestinationsNext, destinationsVars, jVars

LEMMA StepKeepsJoinInv ==
    ASSUME TypeOK, TypeOK', JoinInv, JNext \/ UNCHANGED jVars
    PROVE  JoinInv'
<1>1. DPTypeOK /\ DPTypeOK'
  BY DEF TypeOK
<1>2. ASSUME UNCHANGED joinVars, OrderInv',
             \A s \in established : sk'[s] = "open" => sk[s] = "open"
      PROVE  JoinInv'
  <2>1. UNCHANGED <<cur, prev, established, since>>
    BY <1>2 DEF joinVars
  <2> QED BY <1>2, <2>1 DEF JoinInv, CacheTypes, OpenPlaced, Placed, Held
<1>3. ASSUME UNCHANGED <<sk, conn, ring, cur, prev, established, since>> PROVE JoinInv'
  <2>1. OrderInv'
    BY <1>3, OrderKept DEF JoinInv
  <2> QED BY <1>3, <2>1 DEF JoinInv, CacheTypes, OpenPlaced, Placed, Held
<1>4. CASE KernelStep /\ UNCHANGED joinVars
  <2>1. UNCHANGED established
    BY <1>4 DEF joinVars
  <2>2. OrderInv'
    BY <1>1, <1>4, <2>1, KernelKeepsOrder DEF JoinInv
  <2>3. ASSUME NEW s \in established, sk'[s] = "open" PROVE sk[s] = "open"
    <3>1. s \in Sock \ Udp /\ sk[s] \in {"open", "closed"}
      BY <2>3 DEF JoinInv, OrderInv, EstablishedOrder
    <3>2. CASE SetEnabled \/ HookStep
      BY <2>3, <3>2 DEF SetEnabled, HookStep, HookExit, SocketHookEnter, QuicHookEnter
    <3>3. CASE SocketStep
      <4>1. PICK t \in Sock, type \in {"connect", "establish", "close"} : Moves(t, type)
        BY <1>1, <2>1, <3>3, SocketStepMoves DEF JoinInv, SocketStep
      <4> QED BY <2>3, <3>1, <4>1 DEF Moves
    <3> QED BY <1>4, <3>2, <3>3 DEF KernelStep
  <2> QED BY <1>2, <1>4, <2>2, <2>3
<1>5. CASE DrainStep /\ UNCHANGED joinVars
  BY <1>3, <1>5
     DEF DrainStep, DrainKey, FallBack, LossyRead, LossyReadFails, LossyDelete,
         LossyDeleteFails, BatchError, Unlink, dpVars, joinVars
<1>6. CASE (PollBegin \/ PollQuic \/ PollEnd \/ Deliver) /\ UNCHANGED joinVars
  BY <1>3, <1>6 DEF PollBegin, PollQuic, PollEnd, Deliver, dpVars, joinVars
<1>7. CASE ShutdownStep /\ UNCHANGED joinVars
  BY <1>3, <1>7 DEF ShutdownStep, StopRequested, LoopExit, ClosePublisher, CloseLoader,
     dpVars, joinVars
<1>8. CASE (Terminated /\ UNCHANGED joinVars) \/ UNCHANGED jVars
  BY <1>3, <1>8 DEF Terminated, vars, dpVars, joinVars, jVars
<1>9. CASE \E k \in Key : JoinFlow(k)
  BY <1>3, <1>9 DEF JoinFlow, vars, dpVars
<1>10. CASE ReadEvents
  BY <1>1, <1>10, ReadKeepsJoin
<1> QED
  BY <1>4, <1>5, <1>6, <1>7, <1>8, <1>9, <1>10 DEF JNext, DeliverJoined

\* The composition with the event reader and the informer takes only steps of
\* the drain: what is proved of FlowDrain holds of it too.
THEOREM JoinImplementsDrain == DestinationsSpec => Spec
<1>1. DestinationsInit => FDInit
  BY DEF DestinationsInit, JInit
<1>2. [DestinationsNext]_<<subject, jVars, podVars, serviceVars>> => [Next]_vars
  BY JoinSteps DEF destinationsVars
<1> QED
  BY <1>1, <1>2, PTL DEF DestinationsSpec, Spec

\* The ring keeps the events of connections that share a key in the order the
\* kernel had them, and the cache answers for an open one accordingly.
THEOREM JoinInvariant == DestinationsSpec => []JoinInv
<1>1. DestinationsInit => JoinInv
  <2> SUFFICES ASSUME JInit PROVE JoinInv
    BY DEF DestinationsInit
  <2>1. /\ ring = <<>> /\ established = {} /\ conn = [s \in Sock |-> "none"]
        /\ sk \in [Sock -> {"fresh", "closed"}]
    BY DEF JInit, FDInit, Init
  <2>2. OrderInv
    BY <2>1 DEF OrderInv, SocketOrder, EventOrder, RivalOrder, EstablishedOrder
  <2>3. CacheTypes
    BY DEF JInit, C!CacheInit, C!Empty, CacheTypes
  <2> QED BY <2>1, <2>2, <2>3 DEF JoinInv, OpenPlaced
<1>2. TypeOK /\ TypeOK' /\ JoinInv /\ [DestinationsNext]_<<subject, jVars, podVars, serviceVars>>
        => JoinInv'
  BY JoinSteps, StepKeepsJoinInv DEF destinationsVars
<1> QED
  BY <1>1, <1>2, JoinImplementsDrain, FlowDrainTypeOK, PTL DEF DestinationsSpec

\* For every number of connections and every size of the cache, of the ring and
\* of the kernel's maps: an open connection whose establish event was handled
\* is attributed to what it dialed while no more than Max later connections
\* were recorded, and never to what another one dialed.
THEOREM OpenConnectionKnown == DestinationsSpec => []OpenKnown
<1>1. JoinInv => OpenKnown
  <2> SUFFICES ASSUME JoinInv, NEW s \in established, sk[s] = "open"
               PROVE  /\ C!Get(KeyOf[s]["intent"]) \in {Dialed[s], Miss}
                      /\ since[s] <= Max => C!Get(KeyOf[s]["intent"]) = Dialed[s]
    BY DEF OpenKnown
  <2>1. s \in Sock /\ Dialed[s] # Miss /\ since[s] \in Nat /\ Max \in Nat
    BY IntentJoinAssumption DEF JoinInv, OrderInv, EstablishedOrder, CacheTypes
  <2>2. Placed(KeyOf[s]["intent"], Dialed[s], since[s])
    BY DEF JoinInv, OpenPlaced
  <2> QED BY <2>1, <2>2 DEF Placed, C!Get
<1> QED
  BY <1>1, JoinInvariant, PTL

-----------------------------------------------------------------------------
(* onEndpointSlice: how often an address is attributed to a service.       *)

Fold == INSTANCE FoldProofs

Endpoint == S!ServiceEndpoint
Index == [Addr -> Seq(Endpoint)]
At(addr, ep) == [addr |-> addr, ep |-> ep]

LEMMA SameMax == ASSUME NEW T PROVE S!Max(T) = Fold!Max(T)
  BY DEF S!Max, Fold!Max

LEMMA SameOccurs == ASSUME NEW s, NEW v PROVE S!Occurrences(s, v) = Fold!Occurs(s, v)
  BY DEF S!Occurrences, Fold!Occurs, S!Cardinality, Fold!Cardinality

LEMMA SameRemoveFirst == ASSUME NEW s, NEW v PROVE S!RemoveFirst(s, v) = Fold!RemoveFirst(s, v)
  BY DEF S!RemoveFirst, Fold!RemoveFirst, S!RemoveAt, Fold!RemoveAt, S!SelectInSeq, Fold!SelectInSeq,
         S!Min, Fold!Min

LEMMA SameSum == ASSUME NEW f PROVE S!SumFunction(f) = Fold!SumFunctionOnSet(f, DOMAIN f)
  BY DEF S!SumFunction, S!SumFunctionOnSet, S!FoldFunctionOnSet, S!MapThenFoldSet,
         Fold!SumFunctionOnSet, Fold!FoldFunctionOnSet, Fold!MapThenFoldSet

\* One entry more, one entry less.
LEMMA EntryAdded ==
    ASSUME NEW v \in Index, NEW e \in S!SliceEntry
    PROVE  /\ S!WithEntry(v, e) \in Index
           /\ \A addr \in Addr, ep \in Endpoint :
                 Fold!Occurs(S!WithEntry(v, e)[addr], ep) =
                    Fold!Occurs(v[addr], ep) + (IF e = At(addr, ep) THEN 1 ELSE 0)
<1> DEFINE u == S!WithEntry(v, e)
<1>1. e.addr \in Addr /\ e.ep \in Endpoint /\ \A addr, ep : e = At(addr, ep) <=> addr = e.addr /\ ep = e.ep
  BY DEF S!SliceEntry, Endpoint, At
<1>2. /\ u \in Index
      /\ \A addr \in Addr : u[addr] = IF addr = e.addr THEN Append(v[addr], e.ep) ELSE v[addr]
  BY <1>1 DEF S!WithEntry, Index
<1>3. \A addr \in Addr : v[addr] \in Seq(Endpoint)
  BY DEF Index
<1> HIDE DEF u
<1>4. ASSUME NEW addr \in Addr, NEW ep \in Endpoint
      PROVE  Fold!Occurs(u[addr], ep) =
                Fold!Occurs(v[addr], ep) + (IF e = At(addr, ep) THEN 1 ELSE 0)
  <2>1. Fold!Occurs(v[addr], ep) \in Nat
    BY <1>3, Fold!OccursType
  <2>2. CASE addr = e.addr
    <3>1. Fold!Occurs(Append(v[addr], e.ep), ep) = Fold!Occurs(v[addr], ep) + (IF ep = e.ep THEN 1 ELSE 0)
      BY <1>1, <1>3, Fold!OccursAppend
    <3> QED BY <1>1, <1>2, <2>2, <3>1
  <2>3. CASE addr # e.addr
    BY <1>1, <1>2, <2>1, <2>3
  <2> QED BY <2>2, <2>3
<1> QED BY <1>2, <1>4 DEF u

LEMMA EntryRemoved ==
    ASSUME NEW v \in Index, NEW e \in S!SliceEntry
    PROVE  /\ S!WithoutEntry(v, e) \in Index
           /\ \A addr \in Addr, ep \in Endpoint :
                 Fold!Occurs(S!WithoutEntry(v, e)[addr], ep) =
                    IF e = At(addr, ep) /\ Fold!Occurs(v[addr], ep) > 0
                    THEN Fold!Occurs(v[addr], ep) - 1 ELSE Fold!Occurs(v[addr], ep)
<1> DEFINE u == S!WithoutEntry(v, e)
<1>1. e.addr \in Addr /\ e.ep \in Endpoint /\ \A addr, ep : e = At(addr, ep) <=> addr = e.addr /\ ep = e.ep
  BY DEF S!SliceEntry, Endpoint, At
<1>2. \A addr \in Addr : v[addr] \in Seq(Endpoint)
  BY DEF Index
<1> DEFINE rest == S!RemoveFirst(v[e.addr], e.ep)
<1>3. /\ rest \in Seq(Endpoint)
      /\ \A ep : Fold!Occurs(rest, ep) =
                    IF ep = e.ep /\ Fold!Occurs(v[e.addr], e.ep) > 0
                    THEN Fold!Occurs(v[e.addr], ep) - 1 ELSE Fold!Occurs(v[e.addr], ep)
  <2>1. v[e.addr] \in Seq(Endpoint)
    BY <1>1, <1>2
  <2> QED BY <2>1, SameRemoveFirst, Fold!OccursRemoveFirst
<1>4. u = [v EXCEPT ![e.addr] = rest]
  BY DEF S!WithoutEntry
<1> HIDE DEF u, rest
<1>5. /\ u \in Index
      /\ \A addr \in Addr : u[addr] = IF addr = e.addr THEN rest ELSE v[addr]
  BY <1>1, <1>3, <1>4 DEF Index
<1>6. ASSUME NEW addr \in Addr, NEW ep \in Endpoint
      PROVE  Fold!Occurs(u[addr], ep) =
                IF e = At(addr, ep) /\ Fold!Occurs(v[addr], ep) > 0
                THEN Fold!Occurs(v[addr], ep) - 1 ELSE Fold!Occurs(v[addr], ep)
  BY <1>1, <1>3, <1>5
<1> QED BY <1>5, <1>6 DEF u

LEMMA OccursAll ==
    ASSUME NEW E, NEW s \in Seq(E), NEW v PROVE Fold!OccursUpTo(s, Len(s), v) = Fold!Occurs(s, v)
<1>1. DOMAIN s = 1 .. Len(s)
  OBVIOUS
<1> QED BY <1>1 DEF Fold!OccursUpTo, Fold!Occurs

\* All entries of a slice are added.
LEMMA AllAdded ==
    ASSUME NEW base \in Index, NEW en \in Seq(S!SliceEntry)
    PROVE  /\ S!FoldLeft(S!WithEntry, base, en) \in Index
           /\ \A addr \in Addr, ep \in Endpoint :
                 Fold!Occurs(S!FoldLeft(S!WithEntry, base, en)[addr], ep) =
                    Fold!Occurs(base[addr], ep) + Fold!Occurs(en, At(addr, ep))
<1> DEFINE n == Len(en)
           D == [i \in 1 .. n |-> [v \in Index |-> S!WithEntry(v, en[i])]]
           Eq(g) == g = [s \in SUBSET DOMAIN en |->
                            IF s = {} THEN base ELSE S!WithEntry(g[s \ {S!Max(s)}], en[S!Max(s)])]
<1>1. n \in Nat /\ DOMAIN en = 1 .. n /\ \A i \in 1 .. n : en[i] \in S!SliceEntry
  OBVIOUS
<1>2. S!FoldLeft(S!WithEntry, base, en) = (CHOOSE g : Eq(g))[DOMAIN en]
  BY DEF S!FoldLeft, S!MapThenFoldSet
<1>4. D \in [1 .. n -> [Index -> Index]]
  BY <1>1, EntryAdded
<1>5. \E g : Eq(g)
  <2>1. PICK g \in [SUBSET (1 .. n) -> Index] :
           \A s \in SUBSET (1 .. n) : g[s] = IF s = {} THEN base ELSE D[Fold!Max(s)][g[s \ {Fold!Max(s)}]]
    <3>1. n \in Nat
      BY <1>1
    <3> DEFINE nil == base
    <3>2. nil \in Index
      OBVIOUS
    <3> HIDE DEF D, n, nil
    <3>3. \E g \in [SUBSET (1 .. n) -> Index] : Fold!SolvesLeft(g, nil, D, n)
      BY <1>4, <3>1, <3>2, Fold!FoldLeftExists
    <3> QED BY <3>3 DEF nil, Fold!SolvesLeft
  <2>2. ASSUME NEW s \in SUBSET (1 .. n), s # {}
        PROVE  D[Fold!Max(s)][g[s \ {Fold!Max(s)}]] = S!WithEntry(g[s \ {S!Max(s)}], en[S!Max(s)])
    <3>1. s \in SUBSET (0 .. n)
      OBVIOUS
    <3>2. Fold!Max(s) \in 1 .. n
      BY <1>1, <2>2, <3>1, Fold!MaxOf
    <3>3. g[s \ {Fold!Max(s)}] \in Index
      BY <2>1
    <3>4. S!Max(s) = Fold!Max(s)
      BY SameMax
    <3> QED BY <3>2, <3>3, <3>4
  <2> HIDE DEF D
  <2>3. g = [s \in SUBSET (1 .. n) |-> IF s = {} THEN base
                                       ELSE S!WithEntry(g[s \ {S!Max(s)}], en[S!Max(s)])]
    BY <2>1, <2>2
  <2> QED BY <1>1, <2>3
<1> DEFINE h == CHOOSE g : Eq(g)
<1>6. Eq(h)
  BY <1>5
<1>7. \A s \in SUBSET (1 .. n) :
         h[s] = IF s = {} THEN base ELSE S!WithEntry(h[s \ {Fold!Max(s)}], en[Fold!Max(s)])
  <2>1. \A s : S!Max(s) = Fold!Max(s)
    BY SameMax
  <2> HIDE DEF h
  <2> QED BY <1>1, <1>6, <2>1
<1> HIDE DEF h
<1>8. h[1 .. 0] = base
  <2>1. 1 .. 0 = {} /\ {} \in SUBSET (1 .. n)
    OBVIOUS
  <2> QED BY <1>7, <2>1
<1>9. ASSUME NEW k \in Nat, k + 1 <= n
      PROVE  h[1 .. k + 1] = S!WithEntry(h[1 .. k], en[k + 1]) /\ en[k + 1] \in S!SliceEntry /\ k <= n
  <2>1. /\ Fold!Max(1 .. k + 1) = k + 1 /\ (1 .. k + 1) \ {k + 1} = 1 .. k /\ 1 .. k + 1 # {}
    BY Fold!Initials
  <2>2. 1 .. k + 1 \in SUBSET (1 .. n) /\ k <= n /\ en[k + 1] \in S!SliceEntry
    BY <1>1, <1>9
  <2> QED BY <1>7, <2>1, <2>2
<1> DEFINE Count(v, k) ==
              \A addr \in Addr, ep \in Endpoint :
                 Fold!Occurs(v[addr], ep) =
                    Fold!Occurs(base[addr], ep) + Fold!OccursUpTo(en, k, At(addr, ep))
           Good == {k \in Nat : k <= n => h[1 .. k] \in Index /\ Count(h[1 .. k], k)}
<1>10. \A addr \in Addr, ep \in Endpoint : Fold!Occurs(base[addr], ep) \in Nat
  <2>1. \A addr \in Addr : base[addr] \in Seq(Endpoint)
    BY DEF Index
  <2> QED BY <2>1, Fold!OccursType
<1>11. 0 \in Good
  <2>1. 0 \in Nat /\ \A v : Fold!OccursUpTo(en, 0, v) = 0
    BY Fold!OccursStep
  <2>2. Count(base, 0)
    BY <1>10, <2>1
  <2> HIDE DEF Count
  <2> QED BY <1>8, <2>2
<1>12. ASSUME NEW k \in Nat, k \in Good PROVE k + 1 \in Good
  <2> SUFFICES ASSUME k + 1 <= n
               PROVE  h[1 .. k + 1] \in Index /\ Count(h[1 .. k + 1], k + 1)
    OBVIOUS
  <2> DEFINE v == h[1 .. k]
             e == en[k + 1]
             u == h[1 .. k + 1]
  <2>1. u = S!WithEntry(v, e) /\ e \in S!SliceEntry /\ k <= n
    BY <1>9
  <2>2. v \in Index /\ Count(v, k)
    BY <1>12, <2>1
  <2> HIDE DEF v, u
  <2>3. \A y : /\ Fold!OccursUpTo(en, k + 1, y) = Fold!OccursUpTo(en, k, y) + (IF e = y THEN 1 ELSE 0)
               /\ Fold!OccursUpTo(en, k, y) \in Nat
    BY Fold!OccursStep
  <2> HIDE DEF e
  <2>4. u \in Index /\ \A addr \in Addr, ep \in Endpoint :
           Fold!Occurs(u[addr], ep) = Fold!Occurs(v[addr], ep) + (IF e = At(addr, ep) THEN 1 ELSE 0)
    BY <2>1, <2>2, EntryAdded
  <2>5. Count(u, k + 1)
    BY <1>10, <2>2, <2>3, <2>4
  <2> QED BY <2>4, <2>5 DEF u
<1>13. Nat \subseteq Good
  <2> HIDE DEF Good
  <2> QED BY <1>11, <1>12, Fold!Induction
<1>14. h[1 .. n] \in Index /\ Count(h[1 .. n], n)
  BY <1>1, <1>13
<1>15. S!FoldLeft(S!WithEntry, base, en) = h[1 .. n]
  BY <1>1, <1>2 DEF h
<1>16. \A y : Fold!OccursUpTo(en, n, y) = Fold!Occurs(en, y)
  BY OccursAll
<1> HIDE DEF n
<1> QED BY <1>14, <1>15, <1>16

\* removeSliceLocked: all entries of a slice are removed, if the index has them.
LEMMA AllRemoved ==
    ASSUME NEW base \in Index, NEW en \in Seq(S!SliceEntry),
           \A addr \in Addr, ep \in Endpoint :
              Fold!Occurs(en, At(addr, ep)) <= Fold!Occurs(base[addr], ep)
    PROVE  /\ S!FoldLeft(S!WithoutEntry, base, en) \in Index
           /\ \A addr \in Addr, ep \in Endpoint :
                 Fold!Occurs(S!FoldLeft(S!WithoutEntry, base, en)[addr], ep) =
                    Fold!Occurs(base[addr], ep) - Fold!Occurs(en, At(addr, ep))
<1> DEFINE n == Len(en)
           D == [i \in 1 .. n |-> [v \in Index |-> S!WithoutEntry(v, en[i])]]
           Eq(g) == g = [s \in SUBSET DOMAIN en |->
                            IF s = {} THEN base ELSE S!WithoutEntry(g[s \ {S!Max(s)}], en[S!Max(s)])]
<1>1. n \in Nat /\ DOMAIN en = 1 .. n /\ \A i \in 1 .. n : en[i] \in S!SliceEntry
  OBVIOUS
<1>2. S!FoldLeft(S!WithoutEntry, base, en) = (CHOOSE g : Eq(g))[DOMAIN en]
  BY DEF S!FoldLeft, S!MapThenFoldSet
<1>4. D \in [1 .. n -> [Index -> Index]]
  BY <1>1, EntryRemoved
<1>5. \E g : Eq(g)
  <2>1. PICK g \in [SUBSET (1 .. n) -> Index] :
           \A s \in SUBSET (1 .. n) : g[s] = IF s = {} THEN base ELSE D[Fold!Max(s)][g[s \ {Fold!Max(s)}]]
    <3>1. n \in Nat
      BY <1>1
    <3> DEFINE nil == base
    <3>2. nil \in Index
      OBVIOUS
    <3> HIDE DEF D, n, nil
    <3>3. \E g \in [SUBSET (1 .. n) -> Index] : Fold!SolvesLeft(g, nil, D, n)
      BY <1>4, <3>1, <3>2, Fold!FoldLeftExists
    <3> QED BY <3>3 DEF nil, Fold!SolvesLeft
  <2>2. ASSUME NEW s \in SUBSET (1 .. n), s # {}
        PROVE  D[Fold!Max(s)][g[s \ {Fold!Max(s)}]] = S!WithoutEntry(g[s \ {S!Max(s)}], en[S!Max(s)])
    <3>1. s \in SUBSET (0 .. n)
      OBVIOUS
    <3>2. Fold!Max(s) \in 1 .. n
      BY <1>1, <2>2, <3>1, Fold!MaxOf
    <3>3. g[s \ {Fold!Max(s)}] \in Index
      BY <2>1
    <3>4. S!Max(s) = Fold!Max(s)
      BY SameMax
    <3> QED BY <3>2, <3>3, <3>4
  <2> HIDE DEF D
  <2>3. g = [s \in SUBSET (1 .. n) |-> IF s = {} THEN base
                                       ELSE S!WithoutEntry(g[s \ {S!Max(s)}], en[S!Max(s)])]
    BY <2>1, <2>2
  <2> QED BY <1>1, <2>3
<1> DEFINE h == CHOOSE g : Eq(g)
<1>6. Eq(h)
  BY <1>5
<1>7. \A s \in SUBSET (1 .. n) :
         h[s] = IF s = {} THEN base ELSE S!WithoutEntry(h[s \ {Fold!Max(s)}], en[Fold!Max(s)])
  <2>1. \A s : S!Max(s) = Fold!Max(s)
    BY SameMax
  <2> HIDE DEF h
  <2> QED BY <1>1, <1>6, <2>1
<1> HIDE DEF h
<1>8. h[1 .. 0] = base
  <2>1. 1 .. 0 = {} /\ {} \in SUBSET (1 .. n)
    OBVIOUS
  <2> QED BY <1>7, <2>1
<1>9. ASSUME NEW k \in Nat, k + 1 <= n
      PROVE  h[1 .. k + 1] = S!WithoutEntry(h[1 .. k], en[k + 1]) /\ en[k + 1] \in S!SliceEntry /\ k <= n
  <2>1. /\ Fold!Max(1 .. k + 1) = k + 1 /\ (1 .. k + 1) \ {k + 1} = 1 .. k /\ 1 .. k + 1 # {}
    BY Fold!Initials
  <2>2. 1 .. k + 1 \in SUBSET (1 .. n) /\ k <= n /\ en[k + 1] \in S!SliceEntry
    BY <1>1, <1>9
  <2> QED BY <1>7, <2>1, <2>2
<1> DEFINE Count(v, k) ==
              \A addr \in Addr, ep \in Endpoint :
                 Fold!Occurs(v[addr], ep) =
                    Fold!Occurs(base[addr], ep) - Fold!OccursUpTo(en, k, At(addr, ep))
           Good == {k \in Nat : k <= n => h[1 .. k] \in Index /\ Count(h[1 .. k], k)}
<1>10. \A addr \in Addr, ep \in Endpoint : Fold!Occurs(base[addr], ep) \in Nat
  <2>1. \A addr \in Addr : base[addr] \in Seq(Endpoint)
    BY DEF Index
  <2> QED BY <2>1, Fold!OccursType
<1>11. 0 \in Good
  <2>1. 0 \in Nat /\ \A v : Fold!OccursUpTo(en, 0, v) = 0
    BY Fold!OccursStep
  <2>2. Count(base, 0)
    BY <1>10, <2>1
  <2> HIDE DEF Count
  <2> QED BY <1>8, <2>2
<1>16. \A y : Fold!OccursUpTo(en, n, y) = Fold!Occurs(en, y)
  BY OccursAll
<1>12. ASSUME NEW k \in Nat, k \in Good PROVE k + 1 \in Good
  <2> SUFFICES ASSUME k + 1 <= n
               PROVE  h[1 .. k + 1] \in Index /\ Count(h[1 .. k + 1], k + 1)
    OBVIOUS
  <2> DEFINE v == h[1 .. k]
             e == en[k + 1]
             u == h[1 .. k + 1]
  <2>1. u = S!WithoutEntry(v, e) /\ e \in S!SliceEntry /\ k <= n
    BY <1>9
  <2>2. v \in Index /\ Count(v, k)
    BY <1>12, <2>1
  <2> HIDE DEF v, u
  <2>3. \A y : /\ Fold!OccursUpTo(en, k + 1, y) = Fold!OccursUpTo(en, k, y) + (IF e = y THEN 1 ELSE 0)
               /\ Fold!OccursUpTo(en, k, y) \in Nat
    BY Fold!OccursStep
  <2>4. \A y : Fold!OccursUpTo(en, k + 1, y) <= Fold!Occurs(en, y)
    <3>1. k + 1 \in 0 .. n /\ n \in Nat
      BY <1>1
    <3> HIDE DEF n
    <3>2. \A y : Fold!OccursUpTo(en, k + 1, y) <= Fold!OccursUpTo(en, n, y)
      BY <3>1, Fold!OccursMonotone
    <3> QED BY <1>16, <3>2
  <2> HIDE DEF e
  <2>5. u \in Index /\ \A addr \in Addr, ep \in Endpoint :
           Fold!Occurs(u[addr], ep) =
              IF e = At(addr, ep) /\ Fold!Occurs(v[addr], ep) > 0
              THEN Fold!Occurs(v[addr], ep) - 1 ELSE Fold!Occurs(v[addr], ep)
    BY <2>1, <2>2, EntryRemoved
  <2>6. ASSUME NEW addr \in Addr, NEW ep \in Endpoint
        PROVE  Fold!Occurs(u[addr], ep) =
                  Fold!Occurs(base[addr], ep) - Fold!OccursUpTo(en, k + 1, At(addr, ep))
    <3> DEFINE y == At(addr, ep)
               all == Fold!Occurs(en, y)
               b0 == Fold!Occurs(base[addr], ep)
               bk == Fold!Occurs(v[addr], ep)
               bn == Fold!Occurs(u[addr], ep)
               ck == Fold!OccursUpTo(en, k, y)
               cn == Fold!OccursUpTo(en, k + 1, y)
    <3>1. /\ b0 \in Nat /\ ck \in Nat /\ cn = ck + (IF e = y THEN 1 ELSE 0)
          /\ cn <= all /\ bk = b0 - ck
      BY <1>10, <2>2, <2>3, <2>4
    <3>2. all <= b0
      OBVIOUS
    <3>3. all \in Nat
      BY Fold!OccursType
    <3>4. bn = IF e = y /\ bk > 0 THEN bk - 1 ELSE bk
      BY <2>5
    <3> HIDE DEF y, all, b0, bk, bn, ck, cn
    <3>5. bn = b0 - cn
      BY <3>1, <3>2, <3>3, <3>4
    <3> QED BY <3>5 DEF bn, b0, cn, y
  <2> QED BY <2>5, <2>6 DEF u
<1>13. Nat \subseteq Good
  <2> HIDE DEF Good
  <2> QED BY <1>11, <1>12, Fold!Induction
<1>14. h[1 .. n] \in Index /\ Count(h[1 .. n], n)
  BY <1>1, <1>13
<1>15. S!FoldLeft(S!WithoutEntry, base, en) = h[1 .. n]
  BY <1>1, <1>2 DEF h
<1> HIDE DEF n
<1> QED BY <1>14, <1>15, <1>16

\* The entries of a slice: the pairs with a port number, in their order.
LEMMA EntriesType == ASSUME NEW obj \in S!SliceObject PROVE S!Entries(obj) \in Seq(S!SliceEntry)
<1> DEFINE V == Seq(S!SliceEntry)
           Visit(en, pair) ==
              IF pair.port = None THEN en
              ELSE Append(en, [addr |-> pair.addr,
                               ep |-> [service |-> obj.service, port |-> pair.port]])
           pairs == obj.pairs
           n == Len(pairs)
           nil == <<>>
           D == [i \in 1 .. n |-> [v \in V |-> Visit(v, pairs[i])]]
           Eq(g) == g = [s \in SUBSET DOMAIN pairs |->
                            IF s = {} THEN <<>> ELSE Visit(g[s \ {S!Max(s)}], pairs[S!Max(s)])]
<1>1. CASE obj.service = None
  <2>1. S!Entries(obj) = <<>>
    BY <1>1 DEF S!Entries
  <2> QED BY <2>1
<1>2. CASE obj.service # None
  <2>1. obj.service \in Service
    BY <1>2 DEF S!SliceObject
  <2>2. pairs \in Seq([addr : Addr, port : Port \cup {None}])
    <3>1. pairs \in S!SeqOf([addr : Addr, port : Port \cup {None}], MaxEndpoints)
      BY DEF S!SliceObject
    <3>2. PICK m \in 0 .. MaxEndpoints : pairs \in [1 .. m -> [addr : Addr, port : Port \cup {None}]]
      BY <3>1 DEF S!SeqOf
    <3>3. m \in Nat
      OBVIOUS
    <3> DEFINE E == [addr : Addr, port : Port \cup {None}]
    <3>4. pairs \in [1 .. m -> E]
      BY <3>2
    <3> HIDE DEF pairs, E
    <3>5. pairs \in Seq(E)
      BY <3>3, <3>4
    <3> QED BY <3>5 DEF E
  <2>3. /\ n \in Nat /\ DOMAIN pairs = 1 .. n
        /\ \A i \in 1 .. n : pairs[i] \in [addr : Addr, port : Port \cup {None}]
    <3> DEFINE E == [addr : Addr, port : Port \cup {None}]
    <3>1. pairs \in Seq(E)
      BY <2>2
    <3> HIDE DEF pairs, E
    <3>2. /\ n \in Nat /\ DOMAIN pairs = 1 .. n
          /\ \A i \in 1 .. n : pairs[i] \in E
      BY <3>1
    <3> QED BY <3>2 DEF E
  <2>4. ASSUME NEW v \in V, NEW pair \in [addr : Addr, port : Port \cup {None}]
        PROVE  Visit(v, pair) \in V
    <3> DEFINE e == [addr |-> pair.addr, ep |-> [service |-> obj.service, port |-> pair.port]]
    <3>1. CASE pair.port = None
      BY <3>1
    <3>2. CASE pair.port # None
      <4>1. e \in S!SliceEntry
        BY <2>1, <3>2 DEF S!SliceEntry, S!ServiceEndpoint
      <4>2. Visit(v, pair) = Append(v, e)
        BY <3>2
      <4> HIDE DEF e, Visit
      <4> QED BY <4>1, <4>2
    <3> QED BY <3>1, <3>2
  <2> HIDE DEF pairs
  <2>5. S!Entries(obj) = (CHOOSE g : Eq(g))[DOMAIN pairs]
    BY <1>2 DEF S!Entries, S!FoldLeft, S!MapThenFoldSet, pairs
  <2> HIDE DEF Visit
  <2>6. D \in [1 .. n -> [V -> V]]
    BY <2>3, <2>4
  <2>7. nil \in V
    OBVIOUS
  <2>8. PICK g \in [SUBSET (1 .. n) -> V] :
           \A s \in SUBSET (1 .. n) : g[s] = IF s = {} THEN nil ELSE D[Fold!Max(s)][g[s \ {Fold!Max(s)}]]
    <3>1. n \in Nat
      BY <2>3
    <3> HIDE DEF D, n, V, nil
    <3>2. \E g \in [SUBSET (1 .. n) -> V] : Fold!SolvesLeft(g, nil, D, n)
      BY <2>6, <2>7, <3>1, Fold!FoldLeftExists
    <3> QED BY <3>2 DEF Fold!SolvesLeft
  <2>9. ASSUME NEW s \in SUBSET (1 .. n), s # {}
        PROVE  D[Fold!Max(s)][g[s \ {Fold!Max(s)}]] = Visit(g[s \ {S!Max(s)}], pairs[S!Max(s)])
    <3>1. s \in SUBSET (0 .. n)
      OBVIOUS
    <3>2. Fold!Max(s) \in 1 .. n
      BY <2>3, <2>9, <3>1, Fold!MaxOf
    <3>3. g[s \ {Fold!Max(s)}] \in V
      BY <2>8
    <3>4. S!Max(s) = Fold!Max(s)
      BY SameMax
    <3> QED BY <3>2, <3>3, <3>4
  <2>10. Eq(g)
    <3> HIDE DEF D
    <3> QED BY <2>3, <2>8, <2>9
  <2> DEFINE h == CHOOSE w : Eq(w)
  <2>11. Eq(h)
    BY <2>10
  <2>12. \A s \in SUBSET (1 .. n) :
            h[s] = IF s = {} THEN nil ELSE Visit(h[s \ {Fold!Max(s)}], pairs[Fold!Max(s)])
    <3>1. \A s : S!Max(s) = Fold!Max(s)
      BY SameMax
    <3> HIDE DEF h
    <3> QED BY <2>3, <2>11, <3>1
  <2>13. S!Entries(obj) = h[1 .. n]
    BY <2>3, <2>5
  <2> HIDE DEF h
  <2> DEFINE Good == {k \in Nat : k <= n => h[1 .. k] \in V}
  <2>14. 0 \in Good
    <3>1. 1 .. 0 = {} /\ {} \in SUBSET (1 .. n)
      OBVIOUS
    <3>2. h[1 .. 0] = nil
      BY <2>12, <3>1
    <3> QED BY <2>7, <3>2
  <2>15. ASSUME NEW k \in Nat, k \in Good PROVE k + 1 \in Good
    <3> SUFFICES ASSUME k + 1 <= n PROVE h[1 .. k + 1] \in V
      OBVIOUS
    <3>1. Fold!Max(1 .. k + 1) = k + 1 /\ (1 .. k + 1) \ {k + 1} = 1 .. k /\ 1 .. k + 1 # {}
      BY Fold!Initials
    <3>2. 1 .. k + 1 \in SUBSET (1 .. n) /\ k <= n /\ k + 1 \in 1 .. n
      BY <2>3
    <3>3. h[1 .. k + 1] = Visit(h[1 .. k], pairs[k + 1])
      BY <2>12, <3>1, <3>2
    <3>4. h[1 .. k] \in V
      BY <2>15, <3>2
    <3> QED BY <2>3, <2>4, <3>2, <3>3, <3>4
  <2>16. Nat \subseteq Good
    <3> HIDE DEF Good
    <3> QED BY <2>14, <2>15, Fold!Induction
  <2> QED BY <2>3, <2>13, <2>16
<1> QED BY <1>1, <1>2

\* What is recorded for a slice is what it was delivered with, and the index
\* has every endpoint as often as the slices together.
Claimed(a, ep) == [key \in Slice |-> Fold!Occurs(S!Entries(slices[key]), At(a, ep))]

SliceInv ==
    /\ slices \in [Slice -> S!SliceObject]
    /\ podIPToServices \in Index
    /\ endpointsBySlice = [key \in Slice |-> S!Entries(slices[key])]
    /\ \A addr \in Addr, ep \in Endpoint :
          Fold!Occurs(podIPToServices[addr], ep) =
             Fold!SumFunctionOnSet(Claimed(addr, ep), Slice)

LEMMA NoSliceEntries == S!NoSlice \in S!SliceObject /\ S!Entries(S!NoSlice) = <<>>
<1>1. S!Entries(S!NoSlice) = <<>>
  BY DEF S!Entries, S!NoSlice
<1>2. MaxEndpoints \in Nat
  BY InformerAssumption DEF S!ConstantsOK
<1>3. <<>> \in S!SeqOf([addr : Addr, port : Port \cup {None}], MaxEndpoints)
  <2>1. <<>> \in [1 .. 0 -> [addr : Addr, port : Port \cup {None}]] /\ 0 \in 0 .. MaxEndpoints
    BY <1>2
  <2> QED BY <2>1 DEF S!SeqOf
<1> QED BY <1>1, <1>3 DEF S!NoSlice, S!SliceObject

LEMMA FiniteSlice == Fold!IsFiniteSet(Slice)
BY InformerAssumption DEF S!ConstantsOK, S!IsFiniteSet, Fold!IsFiniteSet

\* What the slices claim of one endpoint, and its part in the sum.
LEMMA ClaimedFacts ==
    ASSUME SliceInv, NEW addr \in Addr, NEW ep \in Endpoint
    PROVE  /\ \A key \in Slice : /\ Claimed(addr, ep)[key] = Fold!Occurs(S!Entries(slices[key]), At(addr, ep))
                                 /\ Claimed(addr, ep)[key] \in Nat
                                 /\ Claimed(addr, ep)[key] <= Fold!Occurs(podIPToServices[addr], ep)
           /\ Fold!Occurs(podIPToServices[addr], ep) \in Nat
<1>1. \A key \in Slice : S!Entries(slices[key]) \in Seq(S!SliceEntry)
  BY EntriesType DEF SliceInv
<1>2. \A key \in Slice : /\ Claimed(addr, ep)[key] = Fold!Occurs(S!Entries(slices[key]), At(addr, ep))
                         /\ Claimed(addr, ep)[key] \in Nat
  BY <1>1, Fold!OccursType DEF Claimed
<1>3. \A key \in Slice : Claimed(addr, ep)[key] <= Fold!SumFunctionOnSet(Claimed(addr, ep), Slice)
  BY <1>2, FiniteSlice, Fold!SumCovers
<1>4. Fold!Occurs(podIPToServices[addr], ep) \in Nat
  <2>1. podIPToServices[addr] \in Seq(Endpoint)
    BY DEF SliceInv, Index
  <2> QED BY <2>1, Fold!OccursType
<1> QED BY <1>2, <1>3, <1>4 DEF SliceInv

\* removeSliceLocked takes exactly the slice's own entries back.
LEMMA SliceRemoved ==
    ASSUME SliceInv, NEW key \in Slice
    PROVE  /\ S!removeSlice(key) \in Index
           /\ \A addr \in Addr, ep \in Endpoint :
                 Fold!Occurs(S!removeSlice(key)[addr], ep) =
                    Fold!Occurs(podIPToServices[addr], ep) - Claimed(addr, ep)[key]
<1> DEFINE en == S!Entries(slices[key])
<1>1. en \in Seq(S!SliceEntry) /\ en = endpointsBySlice[key] /\ podIPToServices \in Index
  BY EntriesType DEF SliceInv
<1>2. \A addr \in Addr, ep \in Endpoint :
         /\ Claimed(addr, ep)[key] = Fold!Occurs(en, At(addr, ep))
         /\ Fold!Occurs(en, At(addr, ep)) <= Fold!Occurs(podIPToServices[addr], ep)
  BY ClaimedFacts
<1>3. S!removeSlice(key) = S!FoldLeft(S!WithoutEntry, podIPToServices, en)
  BY <1>1 DEF S!removeSlice
<1> HIDE DEF en
<1> QED BY <1>1, <1>2, <1>3, AllRemoved

\* A slice replaced by obj, in the watch, the record and the index alike.
LEMMA ReplaceKeepsSliceInv ==
    ASSUME SliceInv, NEW key \in Slice, NEW obj \in S!SliceObject,
           slices' = [slices EXCEPT ![key] = obj],
           endpointsBySlice' = [endpointsBySlice EXCEPT ![key] = S!Entries(obj)],
           podIPToServices' \in Index,
           \A addr \in Addr, ep \in Endpoint :
              Fold!Occurs(podIPToServices'[addr], ep) =
                 Fold!Occurs(S!removeSlice(key)[addr], ep) + Fold!Occurs(S!Entries(obj), At(addr, ep))
    PROVE  SliceInv'
<1>1. slices' \in [Slice -> S!SliceObject]
      /\ \A s \in Slice : slices'[s] = IF s = key THEN obj ELSE slices[s]
  BY DEF SliceInv
<1>2. endpointsBySlice' = [s \in Slice |-> S!Entries(slices'[s])]
  BY <1>1 DEF SliceInv
<1>3. ASSUME NEW addr \in Addr, NEW ep \in Endpoint
      PROVE  Fold!Occurs(podIPToServices'[addr], ep) =
                Fold!SumFunctionOnSet(Claimed(addr, ep)', Slice)
  <2> DEFINE old == Claimed(addr, ep)
             new == Claimed(addr, ep)'
  <2>1. \A s \in Slice : old[s] \in Nat
    BY ClaimedFacts
  <2>2. \A s \in Slice : new[s] = IF s = key THEN Fold!Occurs(S!Entries(obj), At(addr, ep)) ELSE old[s]
    BY <1>1 DEF Claimed
  <2>3. Fold!Occurs(S!Entries(obj), At(addr, ep)) \in Nat
    BY EntriesType, Fold!OccursType
  <2>4. Fold!Occurs(podIPToServices[addr], ep) = Fold!SumFunctionOnSet(old, Slice)
    BY DEF SliceInv
  <2>5. Fold!Occurs(S!removeSlice(key)[addr], ep) = Fold!Occurs(podIPToServices[addr], ep) - old[key]
    BY SliceRemoved
  <2> HIDE DEF old, new
  <2>6. Fold!Integral(old, Slice) /\ Fold!Integral(new, Slice) /\ \A s \in Slice \ {key} : old[s] = new[s]
    BY <2>1, <2>2, <2>3 DEF Fold!Integral
  <2>7. Fold!SumFunctionOnSet(new, Slice) = Fold!SumFunctionOnSet(old, Slice) - old[key] + new[key]
    BY <2>6, FiniteSlice, Fold!SumChange
  <2> QED BY <2>2, <2>4, <2>5, <2>7 DEF new
<1> QED BY <1>1, <1>2, <1>3 DEF SliceInv

LEMMA StepKeepsSliceInv ==
    ASSUME SliceInv, S!Next \/ UNCHANGED serviceVars PROVE SliceInv'
<1>1. CASE UNCHANGED <<slices, podIPToServices, endpointsBySlice>>
  BY <1>1 DEF SliceInv, Claimed
<1>2. ASSUME NEW key \in Slice, NEW obj \in S!SliceObject, S!onEndpointSlice(key, obj)
      PROVE  SliceInv'
  <2> DEFINE rest == S!removeSlice(key)
             en == S!Entries(obj)
  <2>1. /\ slices' = [slices EXCEPT ![key] = obj]
        /\ endpointsBySlice' = [endpointsBySlice EXCEPT ![key] = S!Entries(obj)]
        /\ podIPToServices' = S!FoldLeft(S!WithEntry, rest, en)
    BY <1>2 DEF S!onEndpointSlice
  <2>2. rest \in Index /\ en \in Seq(S!SliceEntry)
    BY SliceRemoved, EntriesType
  <2> HIDE DEF rest, en
  <2>3. /\ podIPToServices' \in Index
        /\ \A addr \in Addr, ep \in Endpoint :
              Fold!Occurs(podIPToServices'[addr], ep) =
                 Fold!Occurs(rest[addr], ep) + Fold!Occurs(en, At(addr, ep))
    BY <2>1, <2>2, AllAdded
  <2> QED BY <2>1, <2>3, ReplaceKeepsSliceInv DEF rest, en
<1>3. ASSUME NEW key \in Slice, S!onEndpointSliceDelete(key) PROVE SliceInv'
  <2>1. /\ slices' = [slices EXCEPT ![key] = S!NoSlice]
        /\ endpointsBySlice' = [endpointsBySlice EXCEPT ![key] = S!Entries(S!NoSlice)]
        /\ podIPToServices' = S!removeSlice(key)
    BY <1>3, NoSliceEntries DEF S!onEndpointSliceDelete
  <2>2. podIPToServices' \in Index
    BY <2>1, SliceRemoved
  <2>3. ASSUME NEW addr \in Addr, NEW ep \in Endpoint
        PROVE  Fold!Occurs(podIPToServices'[addr], ep) =
                  Fold!Occurs(S!removeSlice(key)[addr], ep)
                     + Fold!Occurs(S!Entries(S!NoSlice), At(addr, ep))
    <3>1. Fold!Occurs(S!Entries(S!NoSlice), At(addr, ep)) = 0
      <4>1. \A v : Fold!OccursUpTo(<<>>, 0, v) = 0
        BY Fold!OccursStep
      <4>2. <<>> \in Seq(S!SliceEntry) /\ Len(<<>>) = 0
        OBVIOUS
      <4> QED BY <4>1, <4>2, OccursAll, NoSliceEntries
    <3>2. podIPToServices'[addr] \in Seq(Endpoint)
      BY <2>2 DEF Index
    <3>3. Fold!Occurs(podIPToServices'[addr], ep) \in Nat
      BY <3>2, Fold!OccursType
    <3> QED BY <2>1, <3>1, <3>3
  <2> QED BY <2>1, <2>2, <2>3, NoSliceEntries, ReplaceKeepsSliceInv
<1>4. ASSUME NEW v \in Service,
             \/ S!onServiceDelete(v)
             \/ \E ips \in SUBSET ClusterIP : S!onService(v, ips)
      PROVE  UNCHANGED <<slices, podIPToServices, endpointsBySlice>>
  BY <1>4 DEF S!onServiceDelete, S!onService
<1>5. UNCHANGED serviceVars => UNCHANGED <<slices, podIPToServices, endpointsBySlice>>
  BY DEF serviceVars
<1> QED BY <1>1, <1>2, <1>3, <1>4, <1>5 DEF S!Next

LEMMA SliceInvInit == ASSUME S!Init PROVE SliceInv
<1>1. /\ slices = [s \in Slice |-> S!NoSlice]
      /\ podIPToServices = [addr \in Addr |-> <<>>]
      /\ endpointsBySlice = [s \in Slice |-> <<>>]
  BY DEF S!Init
<1>2. /\ slices \in [Slice -> S!SliceObject] /\ podIPToServices \in Index
      /\ endpointsBySlice = [s \in Slice |-> S!Entries(slices[s])]
  BY <1>1, NoSliceEntries DEF Index
<1>3. \A v : Fold!Occurs(<<>>, v) = 0
  <2>1. \A v : Fold!OccursUpTo(<<>>, 0, v) = 0
    BY Fold!OccursStep
  <2>2. <<>> \in Seq(S!SliceEntry) /\ Len(<<>>) = 0
    OBVIOUS
  <2> QED BY <2>1, <2>2, OccursAll
<1>4. ASSUME NEW addr \in Addr, NEW ep \in Endpoint
      PROVE  Fold!SumFunctionOnSet(Claimed(addr, ep), Slice) = 0
  <2>1. \A s \in Slice : Claimed(addr, ep)[s] = 0
    BY <1>1, <1>3, NoSliceEntries DEF Claimed
  <2> QED BY <2>1, FiniteSlice, Fold!SumZero
<1> QED BY <1>1, <1>2, <1>3, <1>4 DEF SliceInv

\* An address is attributed to a service as many times as the slices delivered
\* last say, in whichever order slices are delivered, changed, relabelled,
\* emptied and deleted, and although two of them name the same endpoint.
THEOREM InformerEndpointsExact == DestinationsSpec => []EndpointsExact
<1>1. DestinationsInit => SliceInv
  BY SliceInvInit DEF DestinationsInit
<1>2. SliceInv /\ [DestinationsNext]_destinationsVars => SliceInv'
  BY InformerSteps, StepKeepsSliceInv
<1>3. SliceInv => EndpointsExact
  <2> SUFFICES ASSUME SliceInv, NEW addr \in Addr, NEW ep \in S!ServiceEndpoint
               PROVE  S!Occurrences(podIPToServices[addr], ep) =
                         S!SumFunction([key \in Slice |->
                            S!Occurrences(S!Entries(slices[key]), [addr |-> addr, ep |-> ep])])
    BY DEF EndpointsExact, S!EndpointsExact
  <2> DEFINE claims == [key \in Slice |->
                          S!Occurrences(S!Entries(slices[key]), [addr |-> addr, ep |-> ep])]
  <2>1. claims = Claimed(addr, ep)
    BY SameOccurs DEF Claimed, At
  <2>2. DOMAIN claims = Slice
    OBVIOUS
  <2> HIDE DEF claims
  <2>3. S!SumFunction(claims) = Fold!SumFunctionOnSet(claims, Slice)
    BY <2>2, SameSum
  <2>4. Fold!Occurs(podIPToServices[addr], ep) = Fold!SumFunctionOnSet(Claimed(addr, ep), Slice)
    BY DEF SliceInv, Endpoint
  <2> QED BY <2>1, <2>3, <2>4, SameOccurs DEF claims
<1> QED BY <1>1, <1>2, <1>3, PTL DEF DestinationsSpec, destinationsVars
=============================================================================
