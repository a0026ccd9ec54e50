-------------------------------- MODULE Metering --------------------------------
(***************************************************************************)
(* pkg/cost Engine: what a flow costs.  In single-meter mode the position  *)
(* in the tier table is advanced under e.mu and the price computed after   *)
(* the lock is released, by any number of callers; in marginal mode there  *)
(* is no meter.  Volumes are whole GB and prices whole cents: the engine's *)
(* float64 arithmetic is abstracted to integers.                           *)
(***************************************************************************)
EXTENDS Naturals, Sequences, FiniteSetsExt, Functions

CONSTANTS
    Caller, Region,
    TierTables,     \* the tier tables to check: sequences of [upTo, perGB]
    NatPerGB,
    FlatPerGB,      \* the rate of a flat type; 0 if the card has none for it
    MaxFlowGB,      \* bound: GB of one direction of one flow
    MaxGB,          \* bound: GB of a region and period, each counted as metered
    MaxMonth        \* bound: months

ASSUME MeteringAssumption ==
    /\ NatPerGB \in Nat /\ FlatPerGB \in Nat
    /\ MaxFlowGB \in Nat /\ MaxGB \in Nat /\ MaxMonth \in Nat
    /\ IsFiniteSet(Caller)

\* TieredRate: tiers "sorted by UpToGB ascending", the last one without an end.
\* A live table may repeat a threshold (pricing.go appends a tier per price
\* dimension): gbInTier and tieredCost say what the code then does, but no bill
\* is defined by such a table, so the properties are about tables without one.
ASSUME TierTablesAssumption ==
    \A t \in TierTables :
        /\ t \in Seq([upTo : Nat, perGB : Nat]) /\ Len(t) > 1 /\ t[Len(t)].upTo > MaxGB
        /\ \A i, j \in DOMAIN t : i < j => t[i].upTo < t[j].upTo

\* The cards' paid tiers get cheaper.
ASSUME FallingPrices ==
    \A t \in TierTables : \A i, j \in DOMAIN t :
        i < j /\ t[i].perGB > 0 => t[j].perGB <= t[i].perGB

\* DefaultMeteredDirections: egress is metered on Tx, the others on both.  "flat"
\* stands for the types priced per GB and nothing else: those whose rate has one
\* tier, the transit gateway, and those without a rate, which cost nothing.
TrafficType == {"internet_egress", "nat_gateway", "flat"}

VARIABLES
    mode,               \* "single" (PricingModeSingleMeter) or "marginal"
    tiers,              \* the card's InternetEgress tiers
    month, resetTime,   \* now; the start of the engine's billing period
    cumulativeBytes,    \* the meter, per region
    priced,             \* per caller: the step between unlock and price, or Idle
    charged, volume     \* history: cents and GB per region, of resetTime's period

vars == <<mode, tiers, month, resetTime, cumulativeBytes, priced, charged, volume>>

Idle == [region |-> "none"]
Volume == [egress : Nat, nat : Nat, flat : Nat]
ZeroVolume == [egress |-> 0, nat |-> 0, flat |-> 0]

\* Types; a caller between unlock and price holds the stretch it metered.
TypeOK ==
    /\ mode \in {"single", "marginal"} /\ tiers \in TierTables
    /\ month \in 0 .. MaxMonth /\ resetTime \in 0 .. month
    /\ cumulativeBytes \in [Region -> 0 .. MaxGB]
    /\ \A c \in Caller : priced[c] = Idle \/ priced[c] \in
          [region : Region, from : Nat, to : Nat, flat : Nat, current : BOOLEAN]
    /\ charged \in [Region -> Nat] /\ volume \in [Region -> Volume]

Init ==
    /\ mode \in {"single", "marginal"} /\ tiers \in TierTables
    /\ month = 0 /\ resetTime = 0
    /\ cumulativeBytes = [r \in Region |-> 0]
    /\ priced = [c \in Caller |-> Idle]
    /\ charged = [r \in Region |-> 0] /\ volume = [r \in Region |-> ZeroVolume]

-----------------------------------------------------------------------------
Larger(a, b) == IF a > b THEN a ELSE b
Smaller(a, b) == IF a < b THEN a ELSE b

\* Mutant: the first tier's capacity is taken from the new volume alone.
tieredCostFromZero(table, prevGB, newGB) ==
    SumFunction([i \in DOMAIN table |->
        LET tierStart == IF i = 1 THEN 0 ELSE table[i - 1].upTo
            gb == Smaller(newGB - prevGB, table[i].upTo)
        IN  IF gb > tierStart THEN (gb - tierStart) * table[i].perGB ELSE 0])

\* The part of [prevGB, newGB] that falls in tier i: tierStart is where the
\* tiers that end below it end.
gbInTier(table, i, prevGB, newGB) ==
    LET lower == {j \in DOMAIN table : table[j].upTo < table[i].upTo}
        tierStart == Max({0} \cup {table[j].upTo : j \in lower})
        usableStart == Larger(prevGB, tierStart)
        usableEnd == Smaller(newGB, table[i].upTo)
    IN  IF usableEnd > usableStart THEN usableEnd - usableStart ELSE 0

\* tieredCost: tier by tier while some of the volume remains.
tieredCost(table, prevGB, newGB) ==
    LET gb == [i \in DOMAIN table |-> gbInTier(table, i, prevGB, newGB)]
        remains(i) == SumFunctionOnSet(gb, 1 .. i - 1) < newGB - prevGB
    IN  SumFunction([i \in DOMAIN table |->
            IF remains(i) THEN gb[i] * table[i].perGB ELSE 0])

\* MarginalRate: the first tier that costs something.
MarginalRate(table) ==
    LET paid == {i \in DOMAIN table : table[i].perGB > 0}
    IN  IF paid = {} THEN 0 ELSE table[Min(paid)].perGB

\* Mutant: a flow through the NAT gateway pays no internet egress.
EgressGBNatFree(tt, tx) == IF tt = "internet_egress" THEN tx ELSE 0

\* calculateFlow: the GB priced by the egress tiers ...
EgressGB(tt, tx) == IF tt \in {"internet_egress", "nat_gateway"} THEN tx ELSE 0

\* ... and the NAT data-processing cents, on both directions.
NatCents(tt, tx, rx) == IF tt = "nat_gateway" THEN (tx + rx) * NatPerGB ELSE 0

\* Single-meter, under e.mu: the month boundary, then the meter.
NewPeriod == month > resetTime

Meter(r, gb) ==
    [q \in Region |-> (IF NewPeriod THEN 0 ELSE cumulativeBytes[q])
                      + (IF q = r THEN gb ELSE 0)]

\* History: what the flow adds to its region's volume this period.
Grown(v, tt, tx, rx) ==
    [egress |-> v.egress + (IF tt \in {"internet_egress", "nat_gateway"} THEN tx ELSE 0),
     nat |-> v.nat + (IF tt = "nat_gateway" THEN tx + rx ELSE 0),
     flat |-> v.flat + (IF tt = "flat" THEN tx + rx ELSE 0)]

Within(v) == v.egress + v.nat + v.flat <= MaxGB

\* A flat rate is the same in both modes and touches no meter.
FlatFlow(r, tx, rx) ==
    /\ Within(Grown(volume[r], "flat", tx, rx))
    /\ charged' = [charged EXCEPT ![r] = @ + (tx + rx) * FlatPerGB]
    /\ volume' = [volume EXCEPT ![r] = Grown(@, "flat", tx, rx)]
    /\ UNCHANGED <<mode, tiers, month, resetTime, cumulativeBytes, priced>>

\* History: a flow metered before a reset is on the bill of the earlier period.
Outdated == [c \in Caller |-> IF priced[c] = Idle THEN Idle
                              ELSE [priced[c] EXCEPT !.current = FALSE]]

\* calculateFlow in single-meter mode up to e.mu.Unlock.
BeginFlow(c, r, tt, tx, rx) ==
    LET gb == EgressGB(tt, tx)
        prev == IF NewPeriod THEN 0 ELSE cumulativeBytes[r]
    IN  /\ mode = "single" /\ priced[c] = Idle
        /\ tt # "flat"
        /\ Within(Grown(IF NewPeriod THEN ZeroVolume ELSE volume[r], tt, tx, rx))
        /\ cumulativeBytes' = Meter(r, gb)
        /\ resetTime' = month
        /\ priced' = [(IF NewPeriod THEN Outdated ELSE priced) EXCEPT ![c] =
              [region |-> r, from |-> prev, to |-> prev + gb,
               flat |-> NatCents(tt, tx, rx), current |-> TRUE]]
        /\ volume' = [q \in Region |->
              LET v == IF NewPeriod THEN ZeroVolume ELSE volume[q]
              IN  IF q = r THEN Grown(v, tt, tx, rx) ELSE v]
        /\ charged' = IF NewPeriod THEN [q \in Region |-> 0] ELSE charged
        /\ UNCHANGED <<mode, tiers, month>>

\* The price, after the unlock.
PriceFlow(c) ==
    /\ priced[c] # Idle
    /\ LET w == priced[c]
       IN  charged' = IF ~w.current THEN charged
                      ELSE [charged EXCEPT ![w.region] =
                              @ + w.flat + tieredCost(tiers, w.from, w.to)]
    /\ priced' = [priced EXCEPT ![c] = Idle]
    /\ UNCHANGED <<mode, tiers, month, resetTime, cumulativeBytes, volume>>

\* Marginal mode: no meter, no lock.
MarginalFlow(r, tt, tx, rx) ==
    /\ mode = "marginal" /\ tt # "flat"
    /\ Within(Grown(volume[r], tt, tx, rx))
    /\ charged' = [charged EXCEPT ![r] =
          @ + NatCents(tt, tx, rx) + EgressGB(tt, tx) * MarginalRate(tiers)]
    /\ volume' = [volume EXCEPT ![r] = Grown(@, tt, tx, rx)]
    /\ UNCHANGED <<mode, tiers, month, resetTime, cumulativeBytes, priced>>

\* ResetBillingPeriod, by hand.
ResetBillingPeriod ==
    /\ mode = "single"
    /\ cumulativeBytes' = [r \in Region |-> 0] /\ resetTime' = month
    /\ charged' = [r \in Region |-> 0] /\ volume' = [r \in Region |-> ZeroVolume]
    /\ priced' = Outdated
    /\ UNCHANGED <<mode, tiers, month>>

\* External: the clock.
NextMonth ==
    /\ month < MaxMonth /\ month' = month + 1
    /\ UNCHANGED <<mode, tiers, resetTime, cumulativeBytes, priced, charged, volume>>

Next ==
    \/ \E r \in Region, tt \in TrafficType, tx, rx \in 0 .. MaxFlowGB :
          /\ tx + rx > 0
          /\ \/ \E c \in Caller : BeginFlow(c, r, tt, tx, rx)
             \/ MarginalFlow(r, tt, tx, rx)
             \/ tt = "flat" /\ FlatFlow(r, tx, rx)
    \/ \E c \in Caller : PriceFlow(c)
    \/ ResetBillingPeriod \/ NextMonth

Spec == Init /\ [][Next]_vars

-----------------------------------------------------------------------------
\* The reference: each GB costs what the tier it falls into says.
PriceOfGB(g) == tiers[Min({i \in DOMAIN tiers : g < tiers[i].upTo})].perGB
EgressBill(n) == SumFunction([g \in 0 .. n - 1 |-> PriceOfGB(g)])
Bill(v) == EgressBill(v.egress) + v.nat * NatPerGB + v.flat * FlatPerGB

PendingCallers(r) ==
    {c \in Caller : priced[c] # Idle /\ priced[c].region = r /\ priced[c].current}
PendingCents == [c \in Caller |->
    IF priced[c] = Idle THEN 0
    ELSE priced[c].flat + tieredCost(tiers, priced[c].from, priced[c].to)]
Pending(r) == SumFunctionOnSet(PendingCents, PendingCallers(r))

\* calculateFlow, priceTiered, tieredCost with concurrent callers and month
\* boundaries: what the flows of a region were charged, however the volume was
\* split among them, is what the tier table asks for the whole volume.
BillExact ==
    mode = "single" => \A r \in Region : charged[r] + Pending(r) = Bill(volume[r])

\* MarginalRate, on cards whose paid tiers get cheaper: marginal mode is a ceiling,
\* no mix of flows is ever charged less than its bill.
MarginalIsCeiling ==
    mode = "marginal" => \A r \in Region : charged[r] >= Bill(volume[r])

-----------------------------------------------------------------------------
(* What the comments of the code say.                                       *)

\* ratecard.go: the free allowance is "aggregated ACROSS the whole account (all
\* services, all regions)", and the single meter "may grant it".
OneAllowance ==
    LET total == [egress |-> SumFunction([r \in Region |-> volume[r].egress]),
                  nat |-> SumFunction([r \in Region |-> volume[r].nat]),
                  flat |-> SumFunction([r \in Region |-> volume[r].flat])]
    IN  mode = "single" =>
            SumFunction([r \in Region |-> charged[r] + Pending(r)]) = Bill(total)
=============================================================================
