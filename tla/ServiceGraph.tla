------------------------------ MODULE ServiceGraph ------------------------------
(***************************************************************************)
(* pkg/servicegraph: the Snapshotter rebuilds the service graph from the   *)
(* flows table and swaps it in; a reader loads the pointer once and runs   *)
(* AttributeAll on what it loaded, one origin after the other, while the   *)
(* refresh goroutine goes on.                                              *)
(*                                                                         *)
(* Dollars and shares are integers: a share of 1 is Scale, and a cent is   *)
(* Cent times that.  A quotient is exact, in each of MaxIterations rounds, *)
(* if Scale is the product of as many multiples of every inbound byte      *)
(* total, as in the model checked.  Left out are a node's own totals and   *)
(* zones and an edge's connections, which no query method reads, and       *)
(* Chokepoints, FindService and the contributor list, which only read the  *)
(* graph.                                                                  *)
(***************************************************************************)
EXTENDS Integers, FiniteSetsExt, Functions

CONSTANTS
    Service, External,  \* names; NodeID.Kind keeps the two apart
    Row,                \* what the flows table may aggregate to
    MaxRows,            \* bound: rows of one answer
    MaxChanges,         \* bound: changes of the table
    MaxIterations, Epsilon,     \* AttributeOpts
    Scale,              \* the share 1
    Cent,               \* a cent, in the unit of the rows' costs
    None                \* an empty column; no snapshot yet

VARIABLES
    table, changes,     \* external: the rows in the window, the bound's counter
    phase, rows, building,      \* the refresh goroutine
    current,            \* the snapshot served
    reader              \* the chargeback in progress

vars == <<table, changes, phase, rows, building, current, reader>>

Node == Service \cup External
CrossZoneCharged == {"cross_az", "cross_region"}
TrafficType == CrossZoneCharged \cup {"same_zone"}

\* A group of edgeQuery: the WHERE clause wants a source service and one of
\* the three names of a destination.
ConstantsOK ==
    /\ {MaxRows, MaxChanges, MaxIterations, Epsilon, Scale, Cent} \subseteq Nat \ {0}
    /\ Service \cap External = {} /\ None \notin Node
    /\ \A r \in Row :
        /\ r.src \in Service /\ r.service \in Service \cup {None}
        /\ r.cloud \in External \cup {None} /\ r.domain \in External \cup {None}
        /\ {r.service, r.cloud, r.domain} # {None}
        /\ r.type \in TrafficType /\ r.bytes \in Nat /\ r.cost \in Nat

-----------------------------------------------------------------------------
(* The graph: the nodes, and bytes and cost by type for each edge.  `of'   *)
(* is history: the rows the table held when the query ran.                 *)

New(result) == [nodes |-> {}, edges |-> <<>>, of |-> result]

dstNode(r) ==
    CASE r.service # None -> r.service
      [] r.service = None /\ r.cloud # None -> r.cloud
      [] OTHER -> r.domain

NoEdge == [bytes |-> 0, byType |-> [t \in TrafficType |-> 0]]

AddEdgeRow(g, r) ==
    LET k == <<r.src, dstNode(r)>>
        e == IF k \in DOMAIN g.edges THEN g.edges[k] ELSE NoEdge
        more == [bytes |-> e.bytes + r.bytes,
                 byType |-> [e.byType EXCEPT ![r.type] = @ + r.cost]]
    IN  [g EXCEPT !.nodes = @ \cup {k[1], k[2]},
                  !.edges = [l \in DOMAIN @ \cup {k} |-> IF l = k THEN more ELSE @[l]]]

CrossZoneCost(e) == SumFunction([t \in CrossZoneCharged |-> e.byType[t]])

In(g, n) == {k \in DOMAIN g.edges : k[2] = n}
Out(g, n) == {k \in DOMAIN g.edges : k[1] = n}

inBytes(g, n) == SumFunction([k \in In(g, n) |-> g.edges[k].bytes])

\* hasCycle decides by a depth-first search whether some node reaches itself.
hasCycle(g) ==
    LET Reach[i \in Nat] ==
            IF i = 0 THEN DOMAIN g.edges
            ELSE Reach[i - 1] \cup {<<p[1][1], p[2][2]>> :
                    p \in {p \in Reach[i - 1] \X DOMAIN g.edges : p[1][2] = p[2][1]}}
    IN  \E n \in g.nodes : <<n, n>> \in Reach[Cardinality(g.nodes)]

-----------------------------------------------------------------------------
(* Attribution.                                                            *)

Inherited(g, resp, n) ==
    SumFunction([k \in In(g, n) |-> (g.edges[k].bytes * resp[k[1]]) \div inBytes(g, n)])

\* Mutant: the origin's share is computed like everyone else's.
NextShareUnpinned(g, origin, resp, n) ==
    IF inBytes(g, n) = 0 THEN (IF n = origin THEN Scale ELSE 0)
    ELSE Inherited(g, resp, n)

\* One node of one round of the power iteration.
NextShare(g, origin, resp, n) ==
    CASE n = origin -> Scale
      [] n # origin /\ inBytes(g, n) = 0 -> 0
      [] OTHER -> Inherited(g, resp, n)

\* The shares after each round.
Rounds(g, origin) ==
    LET R[i \in 0 .. MaxIterations] ==
            IF i = 0 THEN [n \in g.nodes |-> IF n = origin THEN Scale ELSE 0]
            ELSE [n \in g.nodes |-> NextShare(g, origin, R[i - 1], n)]
    IN  R

\* The loop ends with the first round that moves no share by Epsilon, or with
\* the last one it may make.
Responsibility(g, origin) ==
    LET R == Rounds(g, origin)
        Settled(i) == \A n \in g.nodes : R[i][n] - R[i - 1][n] \in (1 - Epsilon) .. (Epsilon - 1)
        ends == {i \in 1 .. MaxIterations : Settled(i)} \cup {MaxIterations}
    IN  R[Min(ends)]

\* A cent of what is charged: a cost times a share.
cent == Cent * Scale

\* To the nearest cent, a half up: amounts are not negative.
round2(v) == ((2 * v + cent) \div (2 * cent)) * cent

AttributeFrom(g, origin) ==
    LET resp == Responsibility(g, origin)
        Over(E) == SumFunction([k \in E |-> resp[k[1]] * CrossZoneCost(g.edges[k])])
        direct == Over(Out(g, origin))
        induced == Over(DOMAIN g.edges \ Out(g, origin))
    IN  [direct |-> round2(direct), induced |-> round2(induced),
         total |-> round2(direct + induced)]

\* The origins AttributeAll goes through.
Origins(g) == {n \in g.nodes : n \in Service /\ Out(g, n) # {}}

-----------------------------------------------------------------------------
(* The snapshotter.                                                        *)

Idle == [graph |-> None]

Init ==
    /\ table \in UNION {kSubset(k, Row) : k \in 0 .. MaxRows} /\ IsFiniteSet(table)
    /\ changes = 0
    /\ phase = "idle" /\ rows = {} /\ building = None
    /\ current = None /\ reader = Idle

\* External: the window slides and flows arrive, so a group comes or goes.
TableChanges ==
    /\ changes < MaxChanges /\ changes' = changes + 1
    /\ \E r \in Row : table' = SymDiff(table, {r}) /\ Cardinality(table') <= MaxRows
    /\ UNCHANGED <<phase, rows, building, current, reader>>

\* Refresh, at the start and on every tick: the query reads one state of the
\* table.
Query ==
    /\ phase = "idle" /\ phase' = "reading" /\ rows' = table
    /\ UNCHANGED <<table, changes, building, current, reader>>

\* Mutant: rows.Err() is not returned, and what was scanned becomes the graph.
QueryFailsPartial ==
    /\ phase = "reading" /\ phase' = "building"
    /\ building' = New(rows) /\ rows' \in SUBSET rows
    /\ UNCHANGED <<table, changes, current, reader>>

\* The query, a Scan or rows.Err() fails: Refresh returns and keeps the graph.
QueryFails ==
    /\ phase = "reading" /\ phase' = "idle" /\ rows' = {}
    /\ UNCHANGED <<table, changes, building, current, reader>>

QueryOk ==
    /\ phase = "reading" /\ phase' = "building" /\ building' = New(rows)
    /\ UNCHANGED <<table, changes, rows, current, reader>>

\* Build adds the rows one by one, in whatever order they came.
BuildRow ==
    /\ phase = "building"
    /\ \E r \in rows : rows' = rows \ {r} /\ building' = AddEdgeRow(building, r)
    /\ UNCHANGED <<table, changes, phase, current, reader>>

Store ==
    /\ phase = "building" /\ rows = {}
    /\ current' = building /\ phase' = "idle" /\ building' = None
    /\ UNCHANGED <<table, changes, rows, reader>>

-----------------------------------------------------------------------------
(* A reader: Graph().AttributeAll().                                       *)

LoadGraph ==
    /\ reader = Idle /\ current # None
    /\ reader' = [graph |-> current, todo |-> Origins(current), bill |-> <<>>]
    /\ UNCHANGED <<table, changes, phase, rows, building, current>>

\* One origin of AttributeAll; one whose total rounds to nothing is left out.
AttributeNext ==
    /\ reader # Idle
    /\ \E o \in reader.todo :
        LET share == AttributeFrom(reader.graph, o)
            billed == DOMAIN reader.bill \cup {o}
        IN  reader' = [reader EXCEPT !.todo = @ \ {o},
                         !.bill = IF share.total = 0 THEN @
                                  ELSE [n \in billed |-> IF n = o THEN share ELSE @[n]]]
    /\ UNCHANGED <<table, changes, phase, rows, building, current>>

Answered ==
    /\ reader # Idle /\ reader.todo = {} /\ reader' = Idle
    /\ UNCHANGED <<table, changes, phase, rows, building, current>>

Next ==
    \/ TableChanges \/ Query \/ QueryFails \/ QueryOk \/ BuildRow \/ Store
    \/ LoadGraph \/ AttributeNext \/ Answered

Spec == Init /\ [][Next]_vars

-----------------------------------------------------------------------------
\* Types.
TypeOK ==
    /\ table \subseteq Row /\ rows \subseteq Row /\ changes \in 0 .. MaxChanges
    /\ phase \in {"idle", "reading", "building"}
    /\ current # None => current.nodes \subseteq Node
    /\ reader # Idle => reader.todo \subseteq Origins(reader.graph)

\* What the bill adds up to over the given origins, and what the table said the
\* zone crossings cost when the query ran.
Billed(origins) ==
    SumFunction([o \in origins \cap DOMAIN reader.bill |-> reader.bill[o].total])
CrossZoneRows(result) == {r \in result : r.type \in CrossZoneCharged}
Incurred == SumFunction([r \in CrossZoneRows(reader.graph.of) |-> r.cost])

\* The given origins are charged what was incurred, give or take half a cent for
\* each origin: no more, no less.
NotAbove(origins) ==
    2 * Billed(origins)
        <= 2 * (Scale * Incurred) + Cardinality(origins \cap DOMAIN reader.bill) * cent
NotBelow(origins) ==
    2 * (Scale * Incurred)
        <= 2 * Billed(origins) + Cardinality(origins \cap Origins(reader.graph)) * cent

\* Nodes that drive traffic nobody drives: no inbound bytes.
Roots(g) == {n \in g.nodes : inBytes(g, n) = 0}

\* AttributeAll on any graph, cyclic or not, at any point of the loop: together
\* the roots are not charged more than the zone crossings in the table cost when
\* the query ran, but for the half cent that rounding may add to each.
RootsNeverOverpay == reader # Idle => NotAbove(Roots(reader.graph))

\* AttributeAll: the roots never overpay, and when the chargeback of a graph
\* without a cycle is finished, they have paid all of what the zone crossings in
\* the table cost when the query ran, but for the half cent that rounding, or
\* leaving out a total that rounds to nothing, may take from each; however the
\* refresh goroutine, failing queries, the order of the rows and the reader
\* interleave.
RootsPayAll ==
    /\ RootsNeverOverpay
    /\ reader # Idle /\ reader.todo = {} /\ ~hasCycle(reader.graph) =>
          NotBelow(Roots(reader.graph))

\* AttributeFrom, attribution.go:92-94: on any graph, cyclic or not, shares
\* stay between 0 and 1 and never fall from one round to the next.
SharesGrow ==
    reader # Idle /\ reader.todo = {} => \A o \in Origins(reader.graph) :
        LET R == Rounds(reader.graph, o)
        IN  \A i \in 1 .. MaxIterations, n \in reader.graph.nodes :
                0 <= R[i - 1][n] /\ R[i - 1][n] <= R[i][n] /\ R[i][n] <= Scale

\* AttributeFrom, attribution.go:67-68: summed over every possible origin, the
\* attribution equals the cross-zone cost, half a cent of rounding for each
\* origin aside.  It does not: an edge is charged in full to its own source and
\* again to whoever drives the source.
DollarsConserved ==
    reader # Idle /\ reader.todo = {} /\ ~hasCycle(reader.graph) =>
        NotAbove(Service) /\ NotBelow(Service)
=============================================================================
