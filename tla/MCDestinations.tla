---------------------------- MODULE MCDestinations ----------------------------
(***************************************************************************)
(* Which service a flow went to: the intent cache knows what a connection  *)
(* dialed (IntentJoin), the informer which service owns that ClusterIP or  *)
(* stands behind an address (ServiceIndex), which pod has it and in which  *)
(* zone (PodIndex).  Each lookup of handlePoll reads one of them under its *)
(* own lock and none writes another's state, so `subject' picks the one    *)
(* whose events arrive.                                                    *)
(*                                                                         *)
(* IntentJoin has sockets t1 and t2 that use the same four-tuple and pid   *)
(* one after the other and dial different services, and t3 with a tuple of *)
(* its own; the one call is a send on t1.                                  *)
(***************************************************************************)
EXTENDS IntentJoin, TLC

CONSTANTS
    t1, t2, t3, k1, k2, q1, x1, x2,
    Pod, Node, IP, Zone, InstanceType, MaxRestarts, None,           \* PodIndex
    Slice, Service, Addr, Port, ClusterIP, MaxEndpoints             \* ServiceIndex

VARIABLES
    subject,
    pods, containerToPod, podIPToMeta, podNameToMeta, nodeZones, nodeInstanceTypes,
    ipToZone, onNodeBusy, contended,                                \* PodIndex
    slices, services, podIPToServices, endpointsBySlice, clusterIPToSvc

P == INSTANCE PodIndex
S == INSTANCE ServiceIndex

ASSUME InformerAssumption == P!ConstantsOK /\ S!ConstantsOK

JoinKeyOf == [s \in Sock |-> [i \in ConnKind |-> IF s = t3 THEN k2 ELSE k1]]
JoinWireKey == [s \in Sock |-> q1]
JoinDialed == [s \in Sock |-> IF s = t2 THEN x2 ELSE x1]
JoinCallSock == [d \in Call |-> t1]
JoinCallKind == [d \in Call |-> "tx"]

podVars == <<pods, containerToPod, podIPToMeta, podNameToMeta, nodeZones,
             nodeInstanceTypes, ipToZone, onNodeBusy, contended>>
serviceVars == <<slices, services, podIPToServices, endpointsBySlice, clusterIPToSvc>>

\* The sockets of a join that stays out are not told apart.
DestinationsInit ==
    /\ subject \in {"intent", "pods", "services"}
    /\ JInit /\ P!Init /\ S!Init
    /\ subject # "intent" => sk = [s \in Sock |-> "fresh"]

DestinationsNext ==
    /\ \/ subject = "intent" /\ JNext /\ UNCHANGED <<podVars, serviceVars>>
       \/ subject = "pods" /\ P!Next /\ UNCHANGED <<jVars, serviceVars>>
       \/ subject = "services" /\ S!Next /\ UNCHANGED <<jVars, podVars>>
    /\ UNCHANGED subject

DestinationsSpec ==
    DestinationsInit /\ [][DestinationsNext]_<<subject, jVars, podVars, serviceVars>>

\* The join's accounts of bytes and drops are written here and never read:
\* states that differ in them alone are one state.
View == <<subject, podVars, serviceVars, cur, prev, established, since, labelled,
          enabled, sk, origDst, conn, owner, slot, hook, stage, ring,
          phase, todo, half, snap, life, pubOpen>>

\* Shutdown leaves the cache and the indexes alone: explored up to SIGTERM.
BeforeShutdown == life = "running"

\* Pods and zones are interchangeable (so are nodes, at more than it saves).
Symmetry == Permutations(Pod) \cup Permutations(Zone)

-----------------------------------------------------------------------------
\* PodIndex!InstanceTypeFilled: in whichever order pod and node events arrive,
\* every index has the instance type of the pod's node.
InstanceTypeFilled == P!InstanceTypeFilled

\* PodIndex!ZoneFollowsPod: the resolver's zone of an address is that of the
\* node of the pod the index names, except within onNode.
ZoneFollowsPod == P!ZoneFollowsPod

\* PodIndex!SettledAddressKnown: once the earlier holders of an address were
\* seen to leave, LookupPodIP names the running pod that has it.
SettledAddressKnown == P!SettledAddressKnown

\* ServiceIndex!EndpointsExact: an address is attributed to a service as many
\* times as the slices delivered last say.
EndpointsExact == S!EndpointsExact

\* ServiceIndex!ClusterIPKnown: while a service has a ClusterIP, a flow that
\* dialed the address is attributed to it.
ClusterIPKnown == S!ClusterIPKnown
=============================================================================
