-------------------------------- MODULE MCCosts --------------------------------
(***************************************************************************)
(* What a flow costs (Metering), where its rates come from (RateCards) and *)
(* who is charged for it (ServiceGraph).  The engine reads the store's     *)
(* card once per flow through an atomic pointer, the graph is built from   *)
(* the table the priced flows were written to, and none writes what        *)
(* another reads, so `subject' picks the one that moves; Metering is       *)
(* checked for a set of tier tables and ServiceGraph for a set of answers  *)
(* instead of what the others left.                                        *)
(***************************************************************************)
EXTENDS Metering

CONSTANTS
    Interval, CacheFor, MaxAge,     \* RateCards
    Service, External, Row, MaxRows, MaxChanges, MaxIterations, Epsilon, Scale, Cent, None,
    a, b, c, x

VARIABLES
    subject,
    started, pricing, listed, api, store, cached, cacheAge, cardAge, ticking, toTick, fetch,
    table, changes, phase, rows, building, current, reader      \* ServiceGraph

R == INSTANCE RateCards
G == INSTANCE ServiceGraph

ASSUME CostsAssumption == R!ConstantsOK /\ G!ConstantsOK

\* Tables with a free tier or without, and falling prices.
Endless == MaxGB * Cardinality(Region) + 1
Tier(u, p) == [upTo |-> u, perGB |-> p]
SmallTables ==
    {<<Tier(1, 0), Tier(3, p), Tier(Endless, q)>> : p \in {2, 3}, q \in {1, 2}}
    \cup {<<Tier(2, 2), Tier(Endless, 1)>>}

\* Rows that make chains, a diamond, a cycle, an idle edge that also has a
\* domain, and an edge with two traffic types.
GraphRow(src, service, cloud, domain, type, bytes, cost) ==
    [src |-> src, service |-> service, cloud |-> cloud, domain |-> domain,
     type |-> type, bytes |-> bytes, cost |-> cost]
GraphRows ==
    {GraphRow(a, b, None, None, "same_zone", 2, 0),
     GraphRow(a, b, None, None, "cross_az", 1, 1),
     GraphRow(a, c, None, None, "cross_az", 2, 1),
     GraphRow(b, c, None, None, "cross_az", 1, 2),
     GraphRow(b, c, None, x, "same_zone", 0, 0),
     GraphRow(b, a, None, None, "cross_az", 1, 1),
     GraphRow(c, None, x, None, "cross_region", 1, 3)}

rateVars == <<started, pricing, listed, api, store, cached, cacheAge, cardAge, ticking,
              toTick, fetch>>
graphVars == <<table, changes, phase, rows, building, current, reader>>
allVars == <<subject, vars, rateVars, graphVars>>

\* A part that stays out has one initial state.
CostsInit ==
    /\ subject \in {"meter", "rates", "graph"}
    /\ Init /\ R!Init /\ G!Init
    /\ subject # "meter" => mode = "single" /\ tiers = <<Tier(2, 2), Tier(Endless, 1)>>
    /\ subject # "rates" => ~started /\ ~pricing /\ ~listed /\ api = "down"
    /\ subject # "graph" => table = {}

CostsNext ==
    /\ \/ subject = "meter" /\ Next /\ UNCHANGED <<rateVars, graphVars>>
       \/ subject = "rates" /\ R!Next /\ UNCHANGED <<vars, graphVars>>
       \/ subject = "graph" /\ G!Next /\ UNCHANGED <<vars, rateVars>>
    /\ UNCHANGED subject

RateStep(A) == subject = "rates" /\ A /\ UNCHANGED <<subject, vars, graphVars>>

\* RateCards's fairness: the clock runs and so does the refresher's goroutine.
CostsSpec ==
    /\ CostsInit /\ [][CostsNext]_allVars
    /\ WF_allVars(RateStep(R!Tick)) /\ WF_allVars(RateStep(R!Refresh))
    /\ WF_allVars(RateStep(R!FetchOk \/ R!FetchFail))

-----------------------------------------------------------------------------
\* RateCards!LiveIsRecent: a card labelled live was fetched at most one expiry
\* and one interval ago.
LiveIsRecent == R!LiveIsRecent

\* RateCards!EventuallyLive: once the pricing API stays reachable, the store
\* ends up with live rates and keeps them, if the price list has the region;
\* otherwise it ends up with defaults marked as such.
EventuallyLive == subject = "rates" => R!EventuallyLive

\* ServiceGraph!RootsNeverOverpay: on any graph, the roots together are charged
\* at most what the zone crossings of one answer cost, rounding aside.
RootsNeverOverpay == G!RootsNeverOverpay

\* ServiceGraph!RootsPayAll: and a finished chargeback on a graph without a
\* cycle charges the roots no less than that, rounding aside.
RootsPayAll == G!RootsPayAll

\* ServiceGraph!SharesGrow: responsibilities stay in [0, 1] and never fall from
\* one round of the iteration to the next, on cyclic graphs too.
SharesGrow == G!SharesGrow

\* ServiceGraph!DollarsConserved, as attribution.go:67-68 has it: summed over
\* every origin, attribution equals cost, rounding aside.
DollarsConserved == G!DollarsConserved
=============================================================================
