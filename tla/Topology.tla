-------------------------------- MODULE Topology --------------------------------
(***************************************************************************)
(* pkg/cloud TopologyRefresher over pkg/cloud/aws Provider: every interval *)
(* five calls in a fixed order, each of which replaces one table of the    *)
(* classifier or, when it fails, leaves the table as it was.  The account  *)
(* changes at any time, also between a call's answer and its use; the      *)
(* informer and an operator write tables of their own; flows are           *)
(* classified throughout.                                                  *)
(*                                                                         *)
(* External: the account as the EC2 API shows it.  The API lists whatever  *)
(* the caller may see, other VPCs included.  Peerings are listed whatever  *)
(* their status, which GetVPCPeerings does not look at.                    *)
(***************************************************************************)
EXTENDS Classifier

CONSTANTS
    LocalVpc,
    VpcCIDR,            \* per VPC
    Peering,            \* [requester, accepter] that may be listed
    Subnet,             \* [vpc, cidr, zone] that may be listed
    NodeSubnet,         \* the one this node is in
    NatIP,              \* private addresses of NAT gateways
    RouteTables,        \* the lists of tables DescribeRouteTables may return
    EndpointCIDR,       \* what an operator may pass to SetVPCEndpointCIDRs
    PodCIDR, PodIP, PodZone,    \* what the informer may report
    Dst,                \* destinations of the flows classified
    MaxChanges,         \* bound: changes of the account
    MaxWrites,          \* bound: table writes by others than the refresher
    MaxFailures         \* bound: failing calls to the EC2 API

\* AWS refuses to peer VPCs that overlap, and a subnet lies within its VPC.
Overlap(p, q) == Covers(p, q.addr) \/ Covers(q, p.addr)

ASSUME TopologyAssumption ==
    /\ ClassifierConstantsOK /\ MaxChanges \in Nat /\ MaxWrites \in Nat /\ MaxFailures \in Nat
    /\ VpcCIDR \in [DOMAIN VpcCIDR -> Prefix] /\ LocalVpc \in DOMAIN VpcCIDR
    /\ Peering \subseteq [requester : DOMAIN VpcCIDR, accepter : DOMAIN VpcCIDR]
    /\ \A p \in Peering : ~Overlap(VpcCIDR[p.requester], VpcCIDR[p.accepter])
    /\ Subnet \subseteq [vpc : DOMAIN VpcCIDR, cidr : Prefix, zone : Zone]
    /\ \A s \in Subnet : s.cidr.bits >= VpcCIDR[s.vpc].bits /\ Covers(VpcCIDR[s.vpc], s.cidr.addr)
    /\ NodeSubnet \in Subnet /\ NodeSubnet.vpc = LocalVpc
    /\ NatIP \subseteq Addr /\ PodIP \subseteq Addr /\ PodZone \subseteq Zone /\ Dst \subseteq Addr
    /\ EndpointCIDR \subseteq Prefix /\ PodCIDR \subseteq Prefix
    /\ IsFiniteSet(Peering) /\ IsFiniteSet(EndpointCIDR)

VARIABLES
    nats, routes, peerings, subnets,    \* the account
    ec2,                \* the provider's client for it: "client", or "nil"
    step,               \* the refresher: the call it is at, or "idle"
    got,                \* the answer it has not applied yet, or None
    changes, writes, failures   \* counters for the bounds

account == <<nats, routes, peerings, subnets, ec2>>
refresher == <<step, got>>
counters == <<changes, writes, failures>>
vars == <<tables, call, account, refresher, counters>>

Steps == <<"nat", "route", "peerings", "transit", "zones">>

\* Types of the account, the refresher and the tables it fills.
TypeOK ==
    /\ nats \subseteq NatIP /\ routes \in RouteTables /\ peerings \subseteq Peering
    /\ subnets \subseteq Subnet /\ NodeSubnet \in subnets /\ ec2 \in {"client", "nil"}
    /\ step \in ToSet(Steps) \cup {"idle"} /\ changes \in 0 .. MaxChanges
    /\ writes \in 0 .. MaxWrites /\ failures \in 0 .. MaxFailures
    /\ peeringCIDRs \subseteq Prefix /\ natGatewayIPs \subseteq Addr
    /\ ipToZone \in [Addr -> Zone \cup {None}] /\ defaultRouteNAT \in BOOLEAN

Init ==
    /\ ClassifierInit
    /\ nats = NatIP /\ peerings = Peering /\ subnets = Subnet
    /\ routes \in RouteTables
    /\ ec2 \in {"client", "nil"}
    /\ changes = 0 /\ writes = 0 /\ failures = 0
    /\ step = Steps[1] /\ got = None

-----------------------------------------------------------------------------
(* The provider's calls: what each returns for the account at hand.  With  *)
(* no client they return nothing and no error, NodeRoutesViaNAT an error.  *)

\* routeTableDefaultsToNAT: the first default route of a table decides.
routeTableDefaultsToNAT(t) == t.default # <<>> /\ Head(t.default) = "nat"

\* NodeRoutesViaNAT: the table associated with the node's subnet, else the
\* last main table of the node's VPC.
NodeRoutesViaNAT ==
    LET mine == SelectSeq(routes, LAMBDA t : t.vpc = LocalVpc)
        assoc == SelectSeq(mine, LAMBDA t : t.associated)
        main == SelectSeq(mine, LAMBDA t : t.main)
    IN  IF assoc # <<>> THEN routeTableDefaultsToNAT(Head(assoc))
        ELSE main # <<>> /\ routeTableDefaultsToNAT(Last(main))

\* Mutant: the accepter is always taken to be the peer.
GetVPCPeeringsAccepter == {VpcCIDR[p.accepter] : p \in peerings}

\* GetVPCPeerings: the side that is not the node's VPC; others are skipped.
GetVPCPeerings ==
    {VpcCIDR[p.accepter] : p \in {p \in peerings : p.requester = LocalVpc}}
    \cup {VpcCIDR[p.requester] : p \in {p \in peerings : p.accepter = LocalVpc}}

LocalVPCCIDRs == IF ec2 = "nil" THEN {}
                 ELSE {s.cidr : s \in {s \in subnets : s.vpc = LocalVpc}}

\* GetSubnetZoneMapping: subnets of every VPC; of two with one CIDR the one
\* listed last is kept.
GetSubnetZoneMapping ==
    LET cidrs == {s.cidr : s \in subnets}
    IN  {m \in [cidrs -> Zone] :
            \A c \in cidrs : \E s \in subnets : s.cidr = c /\ s.zone = m[c]}

\* GetNATGateways: the private addresses of the gateways listed as available.
GetNATGateways == nats

\* GetTransitGateways lists the attachments and gives none of them a range.
GetTransitGateways == {}

Answers(s) ==
    CASE s = "nat"      -> {GetNATGateways}
      [] s = "route"    -> {NodeRoutesViaNAT}
      [] s = "peerings" -> {GetVPCPeerings}
      [] s = "transit"  -> {GetTransitGateways}
      [] s = "zones"    -> GetSubnetZoneMapping

NoClient(s) ==
    CASE s = "route" -> {}
      [] s = "zones" -> {<<>>}
      [] OTHER       -> {{}}

Response(s) == IF ec2 = "nil" THEN NoClient(s) ELSE Answers(s)

-----------------------------------------------------------------------------
(* The refresher.                                                          *)

After(s) ==
    LET i == SelectInSeq(Steps, LAMBDA x : x = s)
    IN  IF i = Len(Steps) THEN "idle" ELSE Steps[i + 1]

\* The ticker fires.
Tick ==
    /\ step = "idle" /\ step' = Steps[1] /\ got' = None
    /\ UNCHANGED <<tables, account, counters>> /\ Observe

\* A call of the provider returns.
Fetch ==
    /\ step # "idle" /\ got = None
    /\ \E r \in Response(step) : got' = [value |-> r]
    /\ UNCHANGED <<tables, account, step, counters>> /\ Observe

\* It fails: the step ends with a warning, the table stays.
FetchFails ==
    /\ step # "idle" /\ got = None /\ step' = After(step)
    /\ \/ ec2 # "nil" /\ failures < MaxFailures /\ failures' = failures + 1
       \/ ec2 = "nil" /\ step = "route" /\ UNCHANGED failures
    /\ UNCHANGED <<tables, account, got, changes, writes>> /\ Observe

\* overlapsAny: ranges that overlap the local VPC are dropped.
Guarded(cidrs, local) == {c \in cidrs : \A l \in local : ~Overlap(c, l)}

\* The answer is applied; for peerings LocalVPCCIDRs is asked first.
Apply ==
    /\ got # None /\ got' = None /\ step' = After(step)
    /\ CASE step = "nat"      -> SetNATGatewayIPs(got.value)
         [] step = "route"    -> SetDefaultRouteNAT(got.value)
         [] step = "peerings" -> SetVPCPeeringCIDRs(Guarded(got.value, LocalVPCCIDRs))
         [] step = "transit"  -> SetTransitGatewayCIDRs(got.value)
         [] step = "zones"    -> IF DOMAIN got.value = {} THEN UNCHANGED tables
                                 ELSE SetCIDRZones(got.value)
    /\ Observe
    /\ UNCHANGED <<account, counters>>

\* LocalVPCCIDRs fails: "the guard degrades to a no-op".
ApplyUnguarded ==
    /\ got # None /\ step = "peerings" /\ got' = None /\ step' = After(step)
    /\ ec2 # "nil" /\ failures < MaxFailures /\ failures' = failures + 1
    /\ SetVPCPeeringCIDRs(got.value)
    /\ Observe
    /\ UNCHANGED <<account, changes, writes>>

-----------------------------------------------------------------------------
(* The rest of the world.                                                  *)

\* Something in the account is created or deleted, or a route is replaced.
AccountChanges ==
    /\ changes < MaxChanges /\ changes' = changes + 1
    /\ \/ /\ \E n \in NatIP : nats' = SymDiff(nats, {n})
          /\ UNCHANGED <<routes, peerings, subnets>>
       \/ /\ routes' \in RouteTables
          /\ UNCHANGED <<nats, peerings, subnets>>
       \/ /\ \E p \in Peering : peerings' = SymDiff(peerings, {p})
          /\ UNCHANGED <<nats, routes, subnets>>
       \/ /\ \E s \in Subnet \ {NodeSubnet} : subnets' = SymDiff(subnets, {s})
          /\ UNCHANGED <<nats, routes, peerings>>
    /\ UNCHANGED <<tables, ec2, refresher, writes, failures>> /\ Observe

\* The informer reports a pod CIDR or a pod's zone; an operator's endpoints.
OthersSet ==
    /\ writes < MaxWrites /\ writes' = writes + 1
    /\ \/ \E c \in PodCIDR : AddClusterCIDR(c)
       \/ \E a \in PodIP, z \in PodZone : SetIPZone(a, z)
       \/ SetVPCEndpointCIDRs(EndpointCIDR)
    /\ Observe
    /\ UNCHANGED <<account, refresher, changes, failures>>

Classify ==
    /\ (\E d \in Dst : ClassifyBegin(d)) \/ ClassifyStep
    /\ UNCHANGED <<account, refresher, counters>>

Next == \/ Tick \/ Fetch \/ FetchFails \/ Apply \/ ApplyUnguarded
        \/ AccountChanges \/ OthersSet \/ Classify

\* The ticker and the refresher's goroutine run.  That calls return is an
\* assumption: IMDS requests have a deadline, EC2 requests have none of their
\* own.
Spec == /\ Init /\ [][Next]_vars
        /\ WF_vars(Tick) /\ WF_vars(Fetch \/ FetchFails) /\ WF_vars(Apply \/ ApplyUnguarded)

-----------------------------------------------------------------------------
\* refreshVPCPeerings and GetVPCPeerings: whichever side of a peering this VPC
\* is on, and also while the guard's own call fails, no range of the local VPC
\* is priced as a peering.
LocalNotPeered ==
    \A p \in peeringCIDRs, s \in subnets : s.vpc = LocalVpc => ~Overlap(p, s.cidr)

\* Every table shows the account as it is.
Current ==
    /\ natGatewayIPs = nats
    /\ defaultRouteNAT = NodeRoutesViaNAT
    /\ peeringCIDRs = {VpcCIDR[v] : v \in {v \in DOMAIN VpcCIDR :
                          \E p \in peerings : {v, LocalVpc} = {p.requester, p.accepter}}}
    /\ ToSet(cidrZones) \subseteq {[prefix |-> s.cidr, zone |-> s.zone] : s \in subnets}
    /\ \A s \in subnets : \E e \in ToSet(cidrZones) : e.prefix = s.cidr

\* TopologyRefresher: once the API answers and the account settles, the tables
\* show the account and keep showing it, whichever calls failed before, if the
\* provider has a client for it.
EventuallyCurrent == ec2 = "client" => <>[]Current

\* zone.go: "Resolve returns the availability zone for an IP address. Returns
\* empty string if the zone cannot be determined": an address of one of the
\* local subnets that were listed throughout resolves to its zone.
ZoneIsOwn ==
    \A s \in subnets, a \in Addr :
        s.vpc = LocalVpc /\ Covers(s.cidr, a) /\ ipToZone[a] = None
        /\ [prefix |-> s.cidr, zone |-> s.zone] \in ToSet(cidrZones) => Resolve(a) = s.zone
=============================================================================
