------------------------------ MODULE Classifier ------------------------------
(***************************************************************************)
(* pkg/classifier: the tables a flow is priced by, the setters that        *)
(* replace them, and Classify.  Each setter is atomic under a mutex; a     *)
(* call of Classify is not: it takes the classifier's lock once for the    *)
(* cluster CIDRs and once for the prefix tree and the NAT tables, and the  *)
(* zone resolver's lock once per endpoint.  The tables may be swapped in   *)
(* between.                                                                *)
(*                                                                         *)
(* An address is its Width bits, a prefix its first address and its        *)
(* length.  The IsSidecar and IntraNode hints and localIPs are left out:   *)
(* no caller in the agent sets them.                                       *)
(***************************************************************************)
EXTENDS Integers, Sequences, SequencesExt

CONSTANTS
    Width,              \* bits of an address
    PrivateSpace,       \* the prefixes of RFC 1918 and link-local addresses
    Loopback,           \* the prefixes of loopback addresses
    Zone, RegionOf,     \* zones and the region of each
    Src,                \* the source address of the flows classified
    None                \* the empty string, no match

Addr == [1 .. Width -> {0, 1}]
Prefix == {p \in [addr : Addr, bits : 0 .. Width] : \A i \in p.bits + 1 .. Width : p.addr[i] = 0}

ClassifierConstantsOK ==
    /\ Width \in Nat /\ Src \in Addr
    /\ PrivateSpace \subseteq Prefix /\ Loopback \subseteq Prefix
    /\ None \notin Zone /\ DOMAIN RegionOf = Zone
    /\ None \notin {"VPCPeering", "TransitGateway", "VPCEndpoint", "NATGatewayEgress",
                     "InternetEgress"}

VARIABLES
    peeringCIDRs, tgwCIDRs, endpointCIDRs,
    prefixTree,         \* sequence of [prefix, type]
    clusterPrefixes,
    natGatewayIPs, defaultRouteNAT,
    ipToZone,           \* ZoneResolver: address to zone
    cidrZones,          \* ZoneResolver: sequence of [prefix, zone]
    call                \* the call of Classify in progress, or the last one

prefixSets == <<peeringCIDRs, tgwCIDRs, endpointCIDRs, prefixTree>>
natTables == <<natGatewayIPs, defaultRouteNAT>>
zoneTables == <<ipToZone, cidrZones>>
tables == <<prefixSets, clusterPrefixes, natTables, zoneTables>>

\* netip.Prefix.Contains.
Covers(p, a) == \A i \in 1 .. p.bits : a[i] = p.addr[i]
CoveredBy(ps, a) == \E p \in ps : Covers(p, a)

-----------------------------------------------------------------------------
(* The prefix tree: entries in the order of Add, insertion sort, first hit. *)

Entries(ps, type) == SetToSeq({[prefix |-> p, type |-> type] : p \in ps})

\* Mutant: the comparison is the wrong way round.
InsertShortestFirst(sorted, e) ==
    LET Place(t) == 1 + Max({0} \cup {i \in DOMAIN t : t[i].prefix.bits <= e.prefix.bits})
    IN  [t \in {sorted} |-> InsertAt(t, Place(t), e)][sorted]

\* Build, one round: e moves left past every shorter prefix.  (A function of
\* the list, so that TLC computes the list once.)
InsertSorted(sorted, e) ==
    LET Place(t) == 1 + Max({0} \cup {i \in DOMAIN t : t[i].prefix.bits >= e.prefix.bits})
    IN  [t \in {sorted} |-> InsertAt(t, Place(t), e)][sorted]

Build(entries) == FoldLeft(InsertSorted, <<>>, entries)

Lookup(tree, a) ==
    LET i == SelectInSeq(tree, LAMBDA e : Covers(e.prefix, a))
    IN  IF i = 0 THEN None ELSE tree[i].type

Rebuild ==
    \E entries \in {Entries(peeringCIDRs', "VPCPeering") \o Entries(tgwCIDRs', "TransitGateway")
                    \o Entries(endpointCIDRs', "VPCEndpoint")} :
        prefixTree' = Build(entries)

-----------------------------------------------------------------------------
(* The setters: each replaces its own table under the lock.                *)

\* Mutant: the ranges are added to those known (the behaviour before DEC-015).
AppendVPCPeeringCIDRs(cidrs) ==
    /\ peeringCIDRs' = peeringCIDRs \cup cidrs
    /\ UNCHANGED <<tgwCIDRs, endpointCIDRs>> /\ Rebuild
    /\ UNCHANGED <<clusterPrefixes, natTables, zoneTables>>

SetVPCPeeringCIDRs(cidrs) ==
    /\ peeringCIDRs' = cidrs
    /\ UNCHANGED <<tgwCIDRs, endpointCIDRs>> /\ Rebuild
    /\ UNCHANGED <<clusterPrefixes, natTables, zoneTables>>

SetTransitGatewayCIDRs(cidrs) ==
    /\ tgwCIDRs' = cidrs
    /\ UNCHANGED <<peeringCIDRs, endpointCIDRs>> /\ Rebuild
    /\ UNCHANGED <<clusterPrefixes, natTables, zoneTables>>

SetVPCEndpointCIDRs(cidrs) ==
    /\ endpointCIDRs' = cidrs
    /\ UNCHANGED <<peeringCIDRs, tgwCIDRs>> /\ Rebuild
    /\ UNCHANGED <<clusterPrefixes, natTables, zoneTables>>

SetNATGatewayIPs(ips) ==
    /\ natGatewayIPs' = ips
    /\ UNCHANGED <<prefixSets, clusterPrefixes, defaultRouteNAT, zoneTables>>

SetDefaultRouteNAT(viaNAT) ==
    /\ defaultRouteNAT' = viaNAT
    /\ UNCHANGED <<prefixSets, clusterPrefixes, natGatewayIPs, zoneTables>>

AddClusterCIDR(cidr) ==
    /\ clusterPrefixes' = clusterPrefixes \cup {cidr}
    /\ UNCHANGED <<prefixSets, natTables, zoneTables>>

SetIPZone(a, z) ==
    /\ ipToZone' = [ipToZone EXCEPT ![a] = z]
    /\ UNCHANGED <<prefixSets, clusterPrefixes, natTables, cidrZones>>

\* The mapping is a Go map: its entries arrive in any order.
SetCIDRZones(mapping) ==
    /\ cidrZones' \in SetToSeqs({[prefix |-> p, zone |-> mapping[p]] : p \in DOMAIN mapping})
    /\ UNCHANGED <<prefixSets, clusterPrefixes, natTables, ipToZone>>

-----------------------------------------------------------------------------
(* Classify, one step per critical section.                                *)

\* ZoneResolver.Resolve: the address table, then the first range that matches.
Resolve(a) ==
    LET i == SelectInSeq(cidrZones, LAMBDA e : Covers(e.prefix, a))
    IN  IF ipToZone[a] # None THEN ipToZone[a]
        ELSE IF i # 0 THEN cidrZones[i].zone ELSE None

\* classifyInternal, from the two zones.
ZonesType(s, d) ==
    CASE s = None \/ d = None     -> "Unknown"
      [] s = d                    -> "SameZone"
      [] RegionOf[s] = RegionOf[d] -> "CrossAZ"
      [] OTHER                    -> "CrossRegion"

\* classifyPrivate and classifyExternal, their one look at the tables: the
\* type, or None to go on with the zones.
TablesType(d) ==
    LET matched == Lookup(prefixTree, d)
    IN  IF CoveredBy(PrivateSpace \cup Loopback, d)
        THEN IF d \in natGatewayIPs THEN "NATGatewayEgress" ELSE matched
        ELSE IF matched # None THEN matched
        ELSE IF defaultRouteNAT THEN "NATGatewayEgress" ELSE "InternetEgress"

\* The ranges that contain a with their category, and the categories of the
\* most specific ones among them.
Hits(a) ==
    {e \in (peeringCIDRs \X {"VPCPeering"}) \cup (tgwCIDRs \X {"TransitGateway"})
          \cup (endpointCIDRs \X {"VPCEndpoint"}) : Covers(e[1], a)}
MostSpecific(hits) == {e[2] : e \in {e \in hits : \A f \in hits : f[1].bits <= e[1].bits}}

\* What the decision order in Classify's comment allows for a destination when
\* all tables are read at once.
Answer(d) ==
    CASE CoveredBy(Loopback, d) -> {"IntraNode"}
      [] ~CoveredBy(Loopback, d) /\ CoveredBy(clusterPrefixes, d) ->
            {ZonesType(Resolve(Src), Resolve(d))}
      [] ~CoveredBy(Loopback \cup clusterPrefixes, d) /\ CoveredBy(PrivateSpace, d) ->
            IF d \in natGatewayIPs THEN {"NATGatewayEgress"}
            ELSE IF Hits(d) # {} THEN MostSpecific(Hits(d))
            ELSE {ZonesType(Resolve(Src), Resolve(d))}
      [] OTHER ->
            IF Hits(d) # {} THEN MostSpecific(Hits(d))
            ELSE IF defaultRouteNAT THEN {"NATGatewayEgress"} ELSE {"InternetEgress"}

Idle == [pc |-> "done", dst |-> None, zone |-> None, atomic |-> TRUE,
         seen |-> {}, swaps |-> 0]

\* The call answers; `atomic' notes for AnswerOfOneMoment whether one moment
\* explains the answer.
Return(type) ==
    call' = [Idle EXCEPT !.atomic = call.swaps <= 1 => type \in call.seen]

\* Mutant: the tables are consulted before the cluster CIDRs.
ClassifyBeginTables(d) ==
    /\ call.pc = "done"
    /\ call' = [Idle EXCEPT !.pc = "tables", !.dst = d, !.seen = Answer(d)]
    /\ UNCHANGED tables

\* Loopback destinations are answered at once; then isClusterInternal.
ClassifyBegin(d) ==
    /\ call.pc = "done"
    /\ IF CoveredBy(Loopback, d)
       THEN call' = [Idle EXCEPT !.atomic = "IntraNode" \in Answer(d)]
       ELSE call' = [Idle EXCEPT !.pc = IF CoveredBy(clusterPrefixes, d) THEN "src" ELSE "tables",
                                 !.dst = d, !.seen = Answer(d)]
    /\ UNCHANGED tables

ReadTables ==
    /\ call.pc = "tables"
    /\ IF TablesType(call.dst) # None THEN Return(TablesType(call.dst))
                                      ELSE call' = [call EXCEPT !.pc = "src"]
    /\ UNCHANGED tables

ReadSrcZone ==
    /\ call.pc = "src" /\ call' = [call EXCEPT !.pc = "dst", !.zone = Resolve(Src)]
    /\ UNCHANGED tables

ReadDstZone ==
    /\ call.pc = "dst" /\ Return(ZonesType(call.zone, Resolve(call.dst)))
    /\ UNCHANGED tables

ClassifyStep == ReadTables \/ ReadSrcZone \/ ReadDstZone

\* The call in progress during a step of somebody else, for AnswerOfOneMoment:
\* the answers it could give at each moment, and how many times the tables
\* changed (a change of the source's own zone counts twice; after two changes
\* nothing is claimed).
Observe ==
    \E d \in {call.dst} :
        call' = IF call.pc = "done" \/ tables' = tables THEN call
                ELSE IF call.swaps = 0 /\ Resolve(Src)' = Resolve(Src)
                THEN [call EXCEPT !.seen = @ \cup Answer(d)', !.swaps = 1]
                ELSE [call EXCEPT !.seen = {}, !.swaps = 2]

ClassifierInit ==
    /\ peeringCIDRs = {} /\ tgwCIDRs = {} /\ endpointCIDRs = {} /\ prefixTree = <<>>
    /\ clusterPrefixes = {} /\ natGatewayIPs = {} /\ defaultRouteNAT = FALSE
    /\ ipToZone = [a \in Addr |-> None] /\ cidrZones = <<>>
    /\ call = Idle

-----------------------------------------------------------------------------
\* PrefixTree: "longest-prefix-match lookups": after any sequence of setters
\* the insertion-sorted list answers with the category of the most specific
\* range of the three sets, and matches nothing they do not contain.
LongestMatch ==
    \A a \in Addr :
        IF Hits(a) = {} THEN Lookup(prefixTree, a) = None
        ELSE Lookup(prefixTree, a) \in MostSpecific(Hits(a))

\* Classify against concurrent swaps: although it reads four times under two
\* locks, a call during which at most one table changed (not the source's own
\* zone) answers as if it had read everything at one moment of the call.
AnswerOfOneMoment == call.atomic
=============================================================================
