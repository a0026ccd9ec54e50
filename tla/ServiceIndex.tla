----------------------------- MODULE ServiceIndex -----------------------------
(***************************************************************************)
(* pkg/k8s Informer, EndpointSlices and Services: which services stand     *)
(* behind a pod address and which service owns a ClusterIP.  A service's   *)
(* endpoints are spread over slices that are delivered independently, may  *)
(* be relabelled, and overlap while endpoints move between them.           *)
(***************************************************************************)
EXTENDS Naturals, SequencesExt, FiniteSetsExt, Functions

CONSTANTS Slice, Service, Addr, Port, ClusterIP, None,
          MaxEndpoints  \* bound: address and port pairs in one slice

\* What the constants must satisfy; the composing module assumes it.
ConstantsOK ==
    MaxEndpoints \in Nat /\ None \notin Service \cup Port /\ IsFiniteSet(Slice)

VARIABLES
    slices,             \* the slice watch: object last delivered, per name
    services,           \* the service watch: ClusterIPs last delivered, or None
    podIPToServices, endpointsBySlice, clusterIPToSvc

vars == <<slices, services, podIPToServices, endpointsBySlice, clusterIPToSvc>>

ServiceEndpoint == [service : Service, port : Port]
SliceEntry == [addr : Addr, ep : ServiceEndpoint]

\* A slice as delivered: the service label and the pairs the three nested
\* loops of onEndpointSlice visit, in their order.  A pair without a port
\* number is skipped.
SliceObject == [service : Service \cup {None},
                pairs : SeqOf([addr : Addr, port : Port \cup {None}], MaxEndpoints)]
NoSlice == [service |-> None, pairs |-> <<>>]

\* Types of the two watches and the three indexes.
TypeOK ==
    /\ slices \in [Slice -> SliceObject]
    /\ services \in [Service -> SUBSET ClusterIP]
    /\ podIPToServices \in [Addr -> Seq(ServiceEndpoint)]
    /\ endpointsBySlice \in [Slice -> Seq(SliceEntry)]
    /\ clusterIPToSvc \in [ClusterIP -> Service \cup {None}]

Init ==
    /\ slices = [s \in Slice |-> NoSlice]
    /\ services = [v \in Service |-> {}]
    /\ podIPToServices = [a \in Addr |-> <<>>]
    /\ endpointsBySlice = [s \in Slice |-> <<>>]
    /\ clusterIPToSvc = [c \in ClusterIP |-> None]

-----------------------------------------------------------------------------
Entries(obj) ==
    LET Visit(entries, pair) ==
            IF pair.port = None THEN entries
            ELSE Append(entries, [addr |-> pair.addr,
                                  ep |-> [service |-> obj.service, port |-> pair.port]])
    IN  IF obj.service = None THEN <<>> ELSE FoldLeft(Visit, <<>>, obj.pairs)

\* Mutant: every instance of the endpoint is removed, a sibling slice's too.
WithoutEntryAll(index, entry) == [index EXCEPT ![entry.addr] = Remove(@, entry.ep)]

\* removeSliceLocked removes one matching instance per entry of the slice.
WithoutEntry(index, entry) == [index EXCEPT ![entry.addr] = RemoveFirst(@, entry.ep)]

WithEntry(index, entry) == [index EXCEPT ![entry.addr] = Append(@, entry.ep)]

removeSlice(key) == FoldLeft(WithoutEntry, podIPToServices, endpointsBySlice[key])

onEndpointSlice(key, obj) ==
    /\ slices' = [slices EXCEPT ![key] = obj]
    /\ podIPToServices' = FoldLeft(WithEntry, removeSlice(key), Entries(obj))
    /\ endpointsBySlice' = [endpointsBySlice EXCEPT ![key] = Entries(obj)]
    /\ UNCHANGED <<services, clusterIPToSvc>>

onEndpointSliceDelete(key) ==
    /\ slices' = [slices EXCEPT ![key] = NoSlice]
    /\ podIPToServices' = removeSlice(key)
    /\ endpointsBySlice' = [endpointsBySlice EXCEPT ![key] = <<>>]
    /\ UNCHANGED <<services, clusterIPToSvc>>

\* Mutant: an address that is indexed already keeps its service.
onServiceKeepsFirst(v, ips) ==
    /\ \A w \in Service \ {v} : services[w] \cap ips = {}
    /\ services' = [services EXCEPT ![v] = ips]
    /\ clusterIPToSvc' = [c \in ClusterIP |->
          IF c \in ips /\ clusterIPToSvc[c] = None THEN v ELSE clusterIPToSvc[c]]
    /\ UNCHANGED <<slices, podIPToServices, endpointsBySlice>>

\* ips: the routable ClusterIPs of the service; the API server gives an address
\* to one service at a time.
onService(v, ips) ==
    /\ \A w \in Service \ {v} : services[w] \cap ips = {}
    /\ services' = [services EXCEPT ![v] = ips]
    /\ clusterIPToSvc' = [c \in ClusterIP |-> IF c \in ips THEN v ELSE clusterIPToSvc[c]]
    /\ UNCHANGED <<slices, podIPToServices, endpointsBySlice>>

onServiceDelete(v) ==
    /\ services' = [services EXCEPT ![v] = {}]
    /\ clusterIPToSvc' = [c \in ClusterIP |->
                            IF c \in services[v] THEN None ELSE clusterIPToSvc[c]]
    /\ UNCHANGED <<slices, podIPToServices, endpointsBySlice>>

Next ==
    \/ \E key \in Slice : \/ \E obj \in SliceObject : onEndpointSlice(key, obj)
                          \/ onEndpointSliceDelete(key)
    \/ \E v \in Service : \/ \E ips \in SUBSET ClusterIP : onService(v, ips)
                          \/ onServiceDelete(v)

Spec == Init /\ [][Next]_vars

-----------------------------------------------------------------------------
Occurrences(seq, x) == Cardinality({i \in DOMAIN seq : seq[i] = x})

\* onEndpointSlice and removeSliceLocked: an address is attributed to a service
\* as many times as the slices delivered last say, whatever the order of
\* updates, moves between slices, relabellings and deletions that led there.
\* Nothing leaks and no sibling slice's endpoint is lost.
EndpointsExact ==
    \A a \in Addr, ep \in ServiceEndpoint :
        Occurrences(podIPToServices[a], ep) =
            SumFunction([key \in Slice |->
                            Occurrences(Entries(slices[key]), [addr |-> a, ep |-> ep])])

\* onService and onServiceDelete: while a service has a ClusterIP, a flow that
\* dialed the address is attributed to it, although services are deleted,
\* renumbered and addresses reused.
ClusterIPKnown ==
    \A v \in Service : \A c \in services[v] : clusterIPToSvc[c] = v

-----------------------------------------------------------------------------
(* What the comments of the code say.                                       *)

\* informer.go: "LookupClusterIP resolves a pre-DNAT ClusterIP to its owning
\* service".
ClusterIPOwned ==
    \A c \in ClusterIP : clusterIPToSvc[c] # None => c \in services[clusterIPToSvc[c]]
=============================================================================
