------------------------------ MODULE CostsProofs ------------------------------
(***************************************************************************)
(* Rate cards, meters and chargebacks.  A card labelled live is at most    *)
(* one expiry and one interval old, however the pricing API behaved        *)
(* (RecentInv relates the provider's cache and the refresher's ticker).    *)
(* What flows are charged is the bill of the whole volume (MeterInv: every *)
(* stretch taken from the meter is charged or about to be).  The shares of *)
(* a chargeback grow within [0, 1], and the roots never overpay (BillInv:  *)
(* the edges of a graph cost what the rows added to it cost).              *)
(***************************************************************************)
EXTENDS MCCosts, FoldProofs, TLAPS

\* The types the clocks need; the cache may hold any card.
ClockTypes ==
    /\ started \in BOOLEAN /\ ticking \in BOOLEAN
    /\ fetch \in {"no", "started", "waited"}
    /\ cacheAge \in 0 .. CacheFor /\ cardAge \in Nat /\ toTick \in 0 .. Interval

\* What a refresh finds in the cache is as old as the cache says.
CacheDated == R!CacheHit => cardAge <= cacheAge

\* Between refreshes the card and the time to the next one share one budget;
\* the refresh that has to fetch may last one instant more.
LiveBudget ==
    store.live =>
        /\ started /\ ticking
        /\ fetch = "no" => cardAge + toTick < CacheFor + Interval
        /\ fetch = "started" => cardAge < CacheFor + Interval
        /\ fetch = "waited" => cardAge <= CacheFor + Interval

RecentInv ==
    /\ ClockTypes /\ CacheDated /\ LiveBudget
    /\ fetch # "no" \/ ticking => started

-----------------------------------------------------------------------------
LEMMA Periods ==
    /\ Interval \in Nat /\ Interval > 0 /\ CacheFor \in Nat /\ CacheFor > 0
    /\ MaxAge \in Nat
BY CostsAssumption DEF R!ConstantsOK

\* Time passes: the age grows while the countdown falls.
LEMMA TickRecent ==
    ASSUME RecentInv, R!Tick PROVE RecentInv'
<1> USE Periods DEF RecentInv, ClockTypes
<1>1. /\ started' = started /\ ticking' = ticking /\ store' = store /\ cached' = cached
      /\ toTick' = IF ticking THEN toTick - 1 ELSE toTick
      /\ fetch # "waited" /\ fetch' = IF fetch = "started" THEN "waited" ELSE fetch
      /\ started => toTick > 0
  BY DEF R!Tick
<1>2. cacheAge' = (IF cacheAge + 1 > CacheFor THEN CacheFor ELSE cacheAge + 1)
  BY DEF R!Tick, R!Upto
<1>3. cardAge' \in Nat /\ cardAge' <= cardAge + 1
  BY DEF R!Tick, R!Upto
<1>4. ClockTypes' /\ (fetch' # "no" \/ ticking' => started')
  BY <1>1, <1>2, <1>3
<1>5. CacheDated'
  BY <1>1, <1>2, <1>3 DEF CacheDated, R!CacheHit
<1>6. LiveBudget'
  <2> SUFFICES ASSUME store'.live
               PROVE  /\ started' /\ ticking'
                      /\ fetch' = "no" => cardAge' + toTick' < CacheFor + Interval
                      /\ fetch' = "started" => cardAge' < CacheFor + Interval
                      /\ fetch' = "waited" => cardAge' <= CacheFor + Interval
    BY Zenon DEF LiveBudget
  <2>1. store.live
    BY <1>1
  <2>2. started /\ ticking /\ toTick' = toTick - 1
    BY <1>1, <2>1 DEF LiveBudget
  <2>3. CASE fetch = "no"
    <3>1. cardAge + toTick < CacheFor + Interval
      BY <2>1, <2>3 DEF LiveBudget
    <3>2. fetch' = "no" /\ started' /\ ticking'
      BY <1>1, <2>2, <2>3
    <3>3. cardAge' <= cardAge + 1 /\ cardAge' \in Nat /\ toTick' = toTick - 1
      BY <1>3, <2>2
    <3>4. \A i, j, m, n, k \in Nat : i + j < m + n /\ k <= i + 1 => k + (j - 1) < m + n
      OBVIOUS
    <3>5. cardAge \in Nat /\ toTick \in Nat
      OBVIOUS
    <3>6. cardAge' + (toTick - 1) < CacheFor + Interval
      BY ONLY <3>1, <3>3, <3>4, <3>5, Periods
    <3>7. cardAge' + toTick' < CacheFor + Interval
      BY ONLY <3>3, <3>6
    <3> QED BY <3>2, <3>7
  <2>4. CASE fetch = "started"
    <3>1. cardAge < CacheFor + Interval
      BY <2>1, <2>4 DEF LiveBudget
    <3>2. fetch' = "waited" /\ started' /\ ticking'
      BY <1>1, <2>2, <2>4
    <3>3. cardAge' <= CacheFor + Interval
      BY <1>3, <3>1
    <3> QED BY <3>2, <3>3
  <2> QED BY <1>1, <2>3, <2>4
<1> QED
  BY <1>4, <1>5, <1>6

\* A refresh starts: with a dated card from the cache, with the defaults, or
\* with a fetch that has the rest of the budget.
LEMMA RefreshRecent ==
    ASSUME RecentInv, R!Refresh PROVE RecentInv'
<1> USE Periods DEF RecentInv, ClockTypes
<1>1. /\ started /\ toTick = 0 /\ fetch = "no" /\ toTick' = Interval
      /\ UNCHANGED <<started, cached, cacheAge, cardAge>>
  BY DEF R!Refresh
<1>2. CacheDated'
  BY <1>1 DEF CacheDated, R!CacheHit
<1>3. CASE R!CacheHit /\ ticking' = TRUE /\ fetch' = fetch
  <2>1. cardAge < CacheFor
    BY <1>3 DEF CacheDated, R!CacheHit
  <2>2. LiveBudget'
    BY <1>1, <1>3, <2>1 DEF LiveBudget
  <2> QED BY <1>1, <1>2, <1>3, <2>2
<1>4. CASE store' = [R!DefaultCard EXCEPT !.fallback = TRUE] /\ ticking' = TRUE /\ fetch' = fetch
  <2>1. LiveBudget'
    BY <1>4 DEF LiveBudget, R!DefaultCard
  <2> QED BY <1>1, <1>2, <1>4, <2>1
<1>5. CASE fetch' = "started" /\ UNCHANGED <<store, ticking>>
  <2>1. LiveBudget'
    BY <1>1, <1>5 DEF LiveBudget
  <2> QED BY <1>1, <1>2, <1>5, <2>1
<1> QED
  BY <1>3, <1>4, <1>5 DEF R!Refresh

\* The API answers or its error is handled; the account of time starts again.
LEMMA FetchRecent ==
    ASSUME RecentInv, R!FetchOk \/ R!FetchFail \/ R!ApiChanges PROVE RecentInv'
<1> USE Periods DEF RecentInv, ClockTypes
<1>1. CASE R!FetchOk
  <2>1. /\ started' = started /\ started /\ ticking' = TRUE /\ fetch' = "no"
        /\ toTick' = toTick /\ cacheAge' = 0 /\ cardAge' = 0
    BY <1>1 DEF R!FetchOk
  <2>2. CacheDated' /\ LiveBudget'
    BY <2>1 DEF CacheDated, LiveBudget
  <2> QED BY <2>1, <2>2
<1>2. CASE R!FetchFail
  <2>1. /\ started' = started /\ started /\ ticking' = TRUE /\ fetch' = "no"
        /\ UNCHANGED <<cached, toTick, cacheAge, cardAge>> /\ ~store'.live
    BY <1>2 DEF R!FetchFail, R!DefaultCard
  <2>2. CacheDated' /\ LiveBudget'
    BY <2>1 DEF CacheDated, LiveBudget, R!CacheHit
  <2> QED BY <2>1, <2>2
<1>3. CASE R!ApiChanges
  BY <1>3 DEF R!ApiChanges, CacheDated, LiveBudget, R!CacheHit
<1> QED
  BY <1>1, <1>2, <1>3

\* RateCardRefresher over the provider's cache: a card labelled live was
\* fetched at most one expiry and one interval ago, for every Interval and
\* CacheFor and every sequence of API outages, cache hits and slow fetches.
THEOREM LiveCardsRecent == CostsSpec => []LiveIsRecent
<1>1. CostsInit => RecentInv
  <2> SUFFICES ASSUME R!Init PROVE RecentInv
    BY DEF CostsInit
  <2>1. ~store.live /\ ~R!CacheHit
    BY Periods DEF R!Init, R!DefaultCard, R!CacheHit
  <2>2. CacheDated /\ LiveBudget
    BY <2>1, Zenon DEF CacheDated, LiveBudget
  <2>3. fetch = "no" /\ started \in BOOLEAN /\ ticking = FALSE
    BY DEF R!Init
  <2>4. cacheAge = CacheFor /\ cardAge = 0 /\ toTick = 0
    BY DEF R!Init
  <2>5. CacheFor \in 0 .. CacheFor /\ 0 \in 0 .. Interval
    BY Periods
  <2> QED
    BY <2>2, <2>3, <2>4, <2>5 DEF RecentInv, ClockTypes
<1>2. RecentInv /\ [CostsNext]_allVars => RecentInv'
  <2> SUFFICES ASSUME RecentInv, [CostsNext]_allVars PROVE RecentInv'
    OBVIOUS
  <2>1. CASE R!Next
    BY <2>1, TickRecent, RefreshRecent, FetchRecent DEF R!Next
  <2>2. CASE UNCHANGED rateVars
    BY <2>2 DEF rateVars, RecentInv, ClockTypes, CacheDated, LiveBudget, R!CacheHit
  <2> QED
    BY <2>1, <2>2 DEF CostsNext, allVars
<1>3. RecentInv => LiveIsRecent
  BY Periods DEF RecentInv, ClockTypes, LiveBudget, LiveIsRecent, R!LiveIsRecent
<1> QED
  BY <1>1, <1>2, <1>3, PTL DEF CostsSpec

-----------------------------------------------------------------------------
(* The tier table.  One more GB costs what the tier it falls into says, so  *)
(* the price of a stretch does not depend on how it is split.               *)

\* The terms of tieredCost, and the GB of each.
TierStart(t, i) == IF i = 1 THEN 0 ELSE t[i - 1].upTo
TierGB(t, i, p, n) ==
    LET from == Larger(p, TierStart(t, i))
        to == Smaller(n, t[i].upTo)
    IN  IF to > from THEN to - from ELSE 0
TierCents(t, p, n) ==
    [i \in DOMAIN t |->
        LET from == Larger(p, TierStart(t, i))
            to == Smaller(n, t[i].upTo)
        IN  IF to > from THEN (to - from) * t[i].perGB ELSE 0]

TierOf(t, n) == Min({i \in DOMAIN t : n < t[i].upTo})

LEMMA Tables ==
    ASSUME NEW t \in TierTables
    PROVE  /\ DOMAIN t = 1 .. Len(t) /\ Len(t) \in Nat /\ Len(t) > 1
           /\ \A i \in DOMAIN t : t[i].upTo \in Nat /\ t[i].perGB \in Nat
           /\ t[Len(t)].upTo > MaxGB
           /\ \A i, j \in DOMAIN t : i < j => t[i].upTo < t[j].upTo
           /\ IsFiniteSet(DOMAIN t)
<1>1. t \in Seq([upTo : Nat, perGB : Nat]) /\ Len(t) > 1 /\ t[Len(t)].upTo > MaxGB
      /\ \A i, j \in DOMAIN t : i < j => t[i].upTo < t[j].upTo
  BY TierTablesAssumption
<1>2. DOMAIN t = 1 .. Len(t) /\ Len(t) \in Nat
  BY <1>1
<1>3. IsFiniteSet(1 .. Len(t))
  BY <1>2, FS_Interval
<1>4. ASSUME NEW i \in DOMAIN t PROVE t[i].upTo \in Nat /\ t[i].perGB \in Nat
  <2> DEFINE Tiers == [upTo : Nat, perGB : Nat]
  <2>1. t \in Seq(Tiers) /\ i \in 1 .. Len(t)
    BY <1>1, <1>2
  <2>2. t[i] \in Tiers
    <3> HIDE DEF Tiers
    <3> QED BY <2>1
  <2> QED BY <2>2
<1>5. IsFiniteSet(DOMAIN t)
  BY <1>2, <1>3
<1> QED BY <1>1, <1>2, <1>4, <1>5

\* The tier of a GB starts at or below it and ends above it.
LEMMA TierOfGB ==
    ASSUME NEW t \in TierTables, NEW n \in Nat, n <= MaxGB
    PROVE  /\ TierOf(t, n) \in DOMAIN t
           /\ n < t[TierOf(t, n)].upTo
           /\ \A j \in DOMAIN t : n < t[j].upTo => TierOf(t, n) <= j
<1> DEFINE T == {i \in DOMAIN t : n < t[i].upTo}
<1>1. T \in SUBSET Nat /\ Len(t) \in T
  BY Tables, MeteringAssumption
<1>2. \E i \in T : \A j \in T : i <= j
  BY <1>1, LeastNat
<1>3. Min(T) \in T /\ \A j \in T : Min(T) <= j
  BY <1>2 DEF Min
<1> QED BY <1>3 DEF TierOf

LEMMA CentsAreGB ==
    ASSUME NEW t \in TierTables, NEW p \in Nat, NEW n \in Nat, NEW i \in DOMAIN t
    PROVE  /\ TierStart(t, i) \in Nat /\ TierGB(t, i, p, n) \in Nat
           /\ TierCents(t, p, n)[i] = TierGB(t, i, p, n) * t[i].perGB
           /\ TierCents(t, p, n)[i] \in Nat
<1>1. TierStart(t, i) \in Nat /\ t[i].upTo \in Nat /\ t[i].perGB \in Nat
  BY Tables DEF TierStart
<1>2. \A q \in Nat : 0 * q = 0
  OBVIOUS
<1>3. \A k, q \in Nat : k * q \in Nat
  OBVIOUS
<1>4. TierGB(t, i, p, n) \in Nat
  BY <1>1 DEF TierGB, Larger, Smaller
<1>5. TierCents(t, p, n)[i] = TierGB(t, i, p, n) * t[i].perGB
  BY <1>1, <1>2 DEF TierGB, TierCents
<1> QED BY <1>1, <1>3, <1>4, <1>5

\* The tier below ends where the tier starts.
LEMMA StartIsMax ==
    ASSUME NEW t \in TierTables, NEW i \in DOMAIN t, NEW p \in Nat, NEW n \in Nat
    PROVE  gbInTier(t, i, p, n) = TierGB(t, i, p, n)
<1> DEFINE lower == {j \in DOMAIN t : t[j].upTo < t[i].upTo}
           S == {0} \cup {t[j].upTo : j \in lower}
           s == TierStart(t, i)
<1>1. /\ DOMAIN t = 1 .. Len(t) /\ Len(t) \in Nat
      /\ \A j \in DOMAIN t : t[j].upTo \in Nat
      /\ \A j, k \in DOMAIN t : j < k => t[j].upTo < t[k].upTo
  BY Tables
<1>2. ASSUME NEW j \in lower PROVE j < i /\ j \in Int /\ i \in Int
  <2>1. j \in DOMAIN t /\ t[j].upTo < t[i].upTo /\ i \in Int /\ j \in Int
    BY <1>1
  <2> QED BY <1>1, <2>1
<1>3. s \in S /\ s \in Nat
  <2>1. CASE i = 1
    BY <2>1 DEF TierStart
  <2>2. CASE i # 1
    <3>1. i - 1 \in DOMAIN t /\ i - 1 < i
      BY <1>1, <2>2
    <3>2. i - 1 \in lower
      BY <1>1, <3>1
    <3> QED BY <1>1, <2>2, <3>1, <3>2 DEF TierStart
  <2> QED BY <2>1, <2>2
<1>4. ASSUME NEW v \in S PROVE v <= s
  <2>1. CASE v = 0
    BY <1>3, <2>1
  <2>2. CASE v # 0
    <3>1. PICK j \in lower : v = t[j].upTo
      BY <2>2
    <3>2. j < i /\ j \in DOMAIN t /\ i # 1 /\ i - 1 \in DOMAIN t /\ j <= i - 1
      BY <1>1, <1>2
    <3>3. t[j].upTo <= t[i - 1].upTo
      BY <1>1, <3>2
    <3> QED BY <3>1, <3>2, <3>3 DEF TierStart
  <2> QED BY <2>1, <2>2
<1>5. S \subseteq Int
  BY <1>1
<1> HIDE DEF s
<1>6. Max(S) = s
  <2> HIDE DEF S
  <2>1. \A v \in S : (\A u \in S : v >= u) => v = s
    BY <1>3, <1>4, <1>5
  <2>2. \A u \in S : s >= u
    BY <1>3, <1>4, <1>5
  <2> QED BY <1>3, <2>1, <2>2 DEF Max
<1> QED BY <1>6 DEF gbInTier, TierGB, s

\* The tiers' parts of a stretch, and the part of it below the end of tier k.
TierParts(t, p, n) == [i \in DOMAIN t |-> TierGB(t, i, p, n)]
GBBelow(t, p, n, k) ==
    LET end == IF k = 0 THEN 0 ELSE Smaller(n, t[k].upTo)
    IN  IF end > p THEN end - p ELSE 0

\* The tiers up to the k-th hold no more of a stretch than lies below its end.
LEMMA TiersBelow ==
    ASSUME NEW t \in TierTables, NEW p \in Nat, NEW n \in Nat, NEW k \in Nat, k <= Len(t)
    PROVE  SumFunctionOnSet(TierParts(t, p, n), 1 .. k) = GBBelow(t, p, n, k)
<1> DEFINE parts == TierParts(t, p, n)
           B(j) == GBBelow(t, p, n, j)
           P == {j \in Nat : j <= Len(t) => SumFunctionOnSet(parts, 1 .. j) = B(j)}
<1>1. /\ DOMAIN t = 1 .. Len(t) /\ Len(t) \in Nat
      /\ \A j \in DOMAIN t : t[j].upTo \in Nat
      /\ \A j, l \in DOMAIN t : j < l => t[j].upTo < t[l].upTo
  BY Tables
<1>2. 0 \in P
  <2>1. 1 .. 0 = {} /\ B(0) = 0
    BY DEF GBBelow
  <2> QED BY <2>1, SumEmpty
<1>3. ASSUME NEW j \in Nat, j \in P PROVE j + 1 \in P
  <2> SUFFICES ASSUME j + 1 <= Len(t) PROVE SumFunctionOnSet(parts, 1 .. j + 1) = B(j + 1)
    OBVIOUS
  <2>1. /\ 1 .. j + 1 = (1 .. j) \cup {j + 1} /\ ~(j + 1 \in 1 .. j)
        /\ j + 1 \in DOMAIN t /\ 1 .. j \subseteq DOMAIN t
    BY <1>1
  <2>2. IsFiniteSet(1 .. j)
    BY FS_Interval
  <2>3. Integral(parts, (1 .. j) \cup {j + 1})
    <3>1. ASSUME NEW i \in DOMAIN t PROVE parts[i] \in Int
      <4>1. TierGB(t, i, p, n) \in Nat
        BY CentsAreGB
      <4> QED BY <4>1 DEF TierParts
    <3> QED BY <2>1, <3>1 DEF Integral
  <2>4. SumFunctionOnSet(parts, 1 .. j) = B(j)
    BY <1>1, <1>3
  <2>5. parts[j + 1] = TierGB(t, j + 1, p, n)
    BY <2>1 DEF TierParts
  <2>6. B(j) + TierGB(t, j + 1, p, n) = B(j + 1)
    <3>1. CASE j = 0
      <4>1. t[1].upTo \in Nat /\ j + 1 = 1
        BY <1>1, <2>1, <3>1
      <4> QED BY <3>1, <4>1 DEF GBBelow, TierGB, TierStart, Larger, Smaller
    <3>2. CASE j # 0
      <4>1. j \in DOMAIN t /\ (j + 1) - 1 = j /\ j < j + 1
        BY <1>1, <2>1, <3>2
      <4>2. t[j].upTo \in Nat /\ t[j + 1].upTo \in Nat /\ t[j].upTo < t[j + 1].upTo
        BY <1>1, <2>1, <4>1
      <4>3. TierStart(t, j + 1) = t[j].upTo
        BY <3>2, <4>1 DEF TierStart
      <4>4. B(j) = IF Smaller(n, t[j].upTo) > p THEN Smaller(n, t[j].upTo) - p ELSE 0
        BY <3>2 DEF GBBelow
      <4>5. B(j + 1) = IF Smaller(n, t[j + 1].upTo) > p
                       THEN Smaller(n, t[j + 1].upTo) - p ELSE 0
        BY DEF GBBelow
      <4>6. TierGB(t, j + 1, p, n)
            = IF Smaller(n, t[j + 1].upTo) > Larger(p, t[j].upTo)
              THEN Smaller(n, t[j + 1].upTo) - Larger(p, t[j].upTo) ELSE 0
        BY <4>3 DEF TierGB
      <4>7. ASSUME NEW u \in Nat, NEW v \in Nat, u < v
            PROVE  (IF Smaller(n, u) > p THEN Smaller(n, u) - p ELSE 0)
                   + (IF Smaller(n, v) > Larger(p, u) THEN Smaller(n, v) - Larger(p, u) ELSE 0)
                   = IF Smaller(n, v) > p THEN Smaller(n, v) - p ELSE 0
        <5>1. CASE n < u
          BY <4>7, <5>1 DEF Larger, Smaller
        <5>2. CASE ~(n < u) /\ p < u
          BY <4>7, <5>2 DEF Larger, Smaller
        <5>3. CASE ~(n < u) /\ ~(p < u)
          BY <4>7, <5>3 DEF Larger, Smaller
        <5> QED BY <5>1, <5>2, <5>3
      <4> QED BY <4>2, <4>4, <4>5, <4>6, <4>7
    <3> QED BY <3>1, <3>2
  <2> HIDE DEF parts, B
  <2>7. SumFunctionOnSet(parts, (1 .. j) \cup {j + 1})
        = parts[j + 1] + SumFunctionOnSet(parts, 1 .. j)
    BY <2>1, <2>2, <2>3, SumAdd
  <2>8. B(j) \in Int /\ parts[j + 1] \in Int
    <3>1. parts[j + 1] \in Int
      BY <2>3 DEF Integral
    <3>2. B(j) \in Int
      BY <1>1 DEF B, GBBelow, Smaller
    <3> QED BY <3>1, <3>2
  <2>9. parts[j + 1] + SumFunctionOnSet(parts, 1 .. j) = B(j + 1)
    BY <2>4, <2>5, <2>6, <2>8
  <2> QED BY <2>1, <2>7, <2>9
<1>4. Nat \subseteq P
  <2> HIDE DEF P
  <2> QED BY <1>2, <1>3, Induction
<1>5. SumFunctionOnSet(parts, 1 .. k) = B(k)
  BY <1>4
<1> QED BY <1>5

\* On a table without repeated thresholds a tier that the loop does not reach
\* holds nothing of the stretch, so the loop adds up the tiers' parts.
LEMMA LoopIsSum ==
    ASSUME NEW t \in TierTables, NEW p \in Nat, NEW n \in Nat
    PROVE  tieredCost(t, p, n) = SumFunction(TierCents(t, p, n))
<1> DEFINE parts == TierParts(t, p, n)
           gb == [i \in DOMAIN t |-> gbInTier(t, i, p, n)]
           remains(i) == SumFunctionOnSet(parts, 1 .. i - 1) < n - p
           Loop == [i \in DOMAIN t |-> IF remains(i) THEN parts[i] * t[i].perGB ELSE 0]
<1>1. gb = parts
  BY StartIsMax DEF TierParts
<1>2. tieredCost(t, p, n) = SumFunction(Loop)
  BY <1>1 DEF tieredCost
<1>3. ASSUME NEW i \in DOMAIN t PROVE Loop[i] = TierCents(t, p, n)[i]
  <2>1. /\ DOMAIN t = 1 .. Len(t) /\ Len(t) \in Nat
        /\ \A j \in DOMAIN t : t[j].upTo \in Nat
    BY Tables
  <2>2. /\ TierCents(t, p, n)[i] = TierGB(t, i, p, n) * t[i].perGB
        /\ TierGB(t, i, p, n) \in Nat /\ t[i].perGB \in Nat /\ TierStart(t, i) \in Nat
    BY CentsAreGB, Tables
  <2>0. parts[i] = TierGB(t, i, p, n)
    BY DEF TierParts
  <2>3. CASE remains(i)
    BY <2>0, <2>2, <2>3
  <2>4. CASE ~remains(i)
    <3> DEFINE k == i - 1
    <3>1. k \in Nat /\ k <= Len(t)
      BY <2>1
    <3>2. SumFunctionOnSet(parts, 1 .. k) = GBBelow(t, p, n, k)
      BY <3>1, TiersBelow
    <3>3. ~(GBBelow(t, p, n, k) < n - p)
      BY <2>4, <3>2
    <3>4. TierGB(t, i, p, n) = 0
      <4>1. CASE i = 1
        <5>1. k = 0 /\ t[1].upTo \in Nat
          BY <2>1, <4>1
        <5> HIDE DEF k
        <5> QED BY <3>3, <4>1, <5>1 DEF GBBelow, TierGB, TierStart, Larger, Smaller
      <4>2. CASE i # 1
        <5>1. k \in DOMAIN t /\ k # 0 /\ t[k].upTo \in Nat /\ TierStart(t, i) = t[k].upTo
          BY <2>1, <4>2 DEF TierStart
        <5> HIDE DEF k
        <5>2. t[i].upTo \in Nat
          BY <2>1
        <5> QED BY <3>3, <5>1, <5>2 DEF GBBelow, TierGB, Larger, Smaller
      <4> QED BY <4>1, <4>2
    <3>5. TierCents(t, p, n)[i] = 0
      BY <2>2, <3>4
    <3> QED BY <2>4, <3>5
  <2> QED BY <2>3, <2>4
<1>4. Loop = TierCents(t, p, n)
  BY <1>3 DEF TierCents
<1> QED BY <1>2, <1>4

LEMMA CostIsSum ==
    ASSUME NEW t \in TierTables, NEW p \in Nat, NEW n \in Nat
    PROVE  /\ tieredCost(t, p, n) = SumFunctionOnSet(TierCents(t, p, n), DOMAIN t)
           /\ Integral(TierCents(t, p, n), DOMAIN t) /\ IsFiniteSet(DOMAIN t)
           /\ tieredCost(t, p, n) \in Int
<1>1. DOMAIN TierCents(t, p, n) = DOMAIN t
  BY DEF TierCents
<1>2. tieredCost(t, p, n) = SumFunction(TierCents(t, p, n))
  BY LoopIsSum
<1>3. tieredCost(t, p, n) = SumFunctionOnSet(TierCents(t, p, n), DOMAIN t)
  BY <1>1, <1>2 DEF SumFunction
<1>4. Integral(TierCents(t, p, n), DOMAIN t)
  <2>1. ASSUME NEW i \in DOMAIN t PROVE TierCents(t, p, n)[i] \in Int
    <3>1. TierCents(t, p, n)[i] \in Nat
      BY CentsAreGB
    <3> QED BY <3>1
  <2> QED BY <2>1 DEF Integral
<1>5. IsFiniteSet(DOMAIN t)
  BY Tables
<1> QED BY <1>3, <1>4, <1>5, SumInt

\* One more GB is one more GB of its own tier.
LEMMA GBStep ==
    ASSUME NEW t \in TierTables, NEW p \in Nat, NEW n \in Nat, p <= n, n <= MaxGB,
           NEW i \in DOMAIN t
    PROVE  TierGB(t, i, p, n + 1) = TierGB(t, i, p, n) + (IF i = TierOf(t, n) THEN 1 ELSE 0)
<1> DEFINE o == TierOf(t, n)
<1>1. o \in DOMAIN t /\ n < t[o].upTo /\ \A j \in DOMAIN t : n < t[j].upTo => o <= j
  BY TierOfGB
<1> HIDE DEF o
<1>2. /\ DOMAIN t = 1 .. Len(t) /\ Len(t) \in Nat
      /\ \A j \in DOMAIN t : t[j].upTo \in Nat
      /\ \A j, k \in DOMAIN t : j < k => t[j].upTo < t[k].upTo
  BY Tables
<1>3. TierStart(t, i) \in Nat /\ t[i].upTo \in Nat
  BY CentsAreGB, <1>2
<1>4. CASE i = o
  <2>1. TierStart(t, i) <= n
    <3>1. CASE i = 1
      BY <3>1 DEF TierStart
    <3>2. CASE i # 1
      <4>1. i - 1 \in DOMAIN t /\ i \in Int
        BY <1>2, <3>2
      <4>2. ~(n < t[i - 1].upTo)
        BY <1>1, <1>4, <4>1
      <4> QED BY <1>2, <3>2, <4>1, <4>2 DEF TierStart
    <3> QED BY <3>1, <3>2
  <2> QED BY <1>1, <1>3, <1>4, <2>1 DEF TierGB, Larger, Smaller, o
<1>5. CASE i < o
  <2>1. ~(n < t[i].upTo)
    BY <1>1, <1>2, <1>5
  <2> QED BY <1>1, <1>2, <1>3, <1>5, <2>1 DEF TierGB, Larger, Smaller, o
<1>6. CASE o < i
  <2>1. i - 1 \in DOMAIN t /\ i # 1 /\ o <= i - 1
    BY <1>1, <1>2, <1>6
  <2>2. t[o].upTo <= t[i - 1].upTo
    BY <1>1, <1>2, <2>1
  <2>3. TierStart(t, i) >= n + 1
    BY <1>1, <1>2, <2>1, <2>2 DEF TierStart
  <2> QED BY <1>1, <1>2, <1>3, <1>6, <2>3 DEF TierGB, Larger, Smaller, o
<1> QED BY <1>1, <1>2, <1>4, <1>5, <1>6

LEMMA TierStep ==
    ASSUME NEW t \in TierTables, NEW p \in Nat, NEW n \in Nat, p <= n, n <= MaxGB
    PROVE  tieredCost(t, p, n + 1) = tieredCost(t, p, n) + t[TierOf(t, n)].perGB
<1> DEFINE o == TierOf(t, n)
           F == TierCents(t, p, n)
           F1 == TierCents(t, p, n + 1)
<1>0. n + 1 \in Nat
  OBVIOUS
<1>1. o \in DOMAIN t
  BY TierOfGB
<1>2. /\ tieredCost(t, p, n) = SumFunctionOnSet(F, DOMAIN t)
      /\ tieredCost(t, p, n + 1) = SumFunctionOnSet(F1, DOMAIN t)
      /\ Integral(F, DOMAIN t) /\ Integral(F1, DOMAIN t) /\ IsFiniteSet(DOMAIN t)
      /\ tieredCost(t, p, n) \in Int
  BY <1>0, CostIsSum
<1>3. ASSUME NEW i \in DOMAIN t \ {o} PROVE F[i] = F1[i]
  <2>1. TierGB(t, i, p, n + 1) = TierGB(t, i, p, n)
    BY GBStep, CentsAreGB
  <2>2. /\ F[i] = TierGB(t, i, p, n) * t[i].perGB
        /\ F1[i] = TierGB(t, i, p, n + 1) * t[i].perGB
    BY <1>0, CentsAreGB
  <2> QED BY <2>1, <2>2
<1>4. F1[o] = F[o] + t[o].perGB
  <2>1. TierGB(t, o, p, n + 1) = TierGB(t, o, p, n) + 1
    BY <1>1, GBStep
  <2>2. /\ F[o] = TierGB(t, o, p, n) * t[o].perGB
        /\ F1[o] = TierGB(t, o, p, n + 1) * t[o].perGB
        /\ TierGB(t, o, p, n) \in Nat /\ t[o].perGB \in Nat
    BY <1>0, <1>1, CentsAreGB, Tables
  <2>3. \A k, q \in Nat : (k + 1) * q = k * q + q
    OBVIOUS
  <2> QED BY <2>1, <2>2, <2>3
<1>5. F[o] \in Int /\ t[o].perGB \in Int
  BY <1>1, <1>2, Tables DEF Integral
<1> HIDE DEF o, F, F1
<1>6. SumFunctionOnSet(F1, DOMAIN t) = SumFunctionOnSet(F, DOMAIN t) - F[o] + F1[o]
  BY <1>1, <1>2, <1>3, SumChange
<1> QED BY <1>2, <1>4, <1>5, <1>6 DEF o

LEMMA TierNothing ==
    ASSUME NEW t \in TierTables, NEW n \in Nat
    PROVE  tieredCost(t, n, n) = 0
<1> DEFINE F == TierCents(t, n, n)
<1>1. ASSUME NEW i \in DOMAIN t PROVE F[i] = 0
  <2>1. TierGB(t, i, n, n) = 0
    BY CentsAreGB, Tables DEF TierGB, Larger, Smaller
  <2>2. F[i] = 0 * t[i].perGB /\ t[i].perGB \in Nat
    BY <2>1, CentsAreGB, Tables
  <2> QED BY <2>2
<1>2. tieredCost(t, n, n) = SumFunctionOnSet(F, DOMAIN t) /\ IsFiniteSet(DOMAIN t)
  BY CostIsSum
<1> HIDE DEF F
<1> QED BY <1>1, <1>2, SumZero

\* A stretch costs what its parts cost.
LEMMA TierSplit ==
    ASSUME NEW t \in TierTables, NEW p \in Nat, NEW n \in Nat, NEW m \in Nat,
           p <= n, n <= m, m <= MaxGB
    PROVE  tieredCost(t, p, m) = tieredCost(t, p, n) + tieredCost(t, n, m)
<1> DEFINE P == {k \in Nat : n + k <= MaxGB =>
                    tieredCost(t, p, n + k) = tieredCost(t, p, n) + tieredCost(t, n, n + k)}
<1>1. 0 \in P
  BY TierNothing, CostIsSum
<1>2. ASSUME NEW k \in Nat, k \in P PROVE k + 1 \in P
  <2> SUFFICES ASSUME n + (k + 1) <= MaxGB
               PROVE  tieredCost(t, p, n + (k + 1))
                      = tieredCost(t, p, n) + tieredCost(t, n, n + (k + 1))
    OBVIOUS
  <2> DEFINE e == n + k
             q == t[TierOf(t, e)].perGB
  <2>1. e \in Nat /\ e <= MaxGB /\ p <= e /\ n <= e /\ n + (k + 1) = e + 1
    BY MeteringAssumption
  <2>2. tieredCost(t, p, e) = tieredCost(t, p, n) + tieredCost(t, n, e)
    BY <1>2, <2>1
  <2> HIDE DEF e
  <2>3. /\ tieredCost(t, p, e + 1) = tieredCost(t, p, e) + q
        /\ tieredCost(t, n, e + 1) = tieredCost(t, n, e) + q
    BY <2>1, TierStep
  <2>4. /\ tieredCost(t, p, e) \in Int /\ tieredCost(t, p, n) \in Int
        /\ tieredCost(t, n, e) \in Int
    BY <2>1, CostIsSum
  <2>5. q \in Int
    BY <2>1, TierOfGB, Tables
  <2> HIDE DEF q
  <2>6. tieredCost(t, p, e + 1) = tieredCost(t, p, n) + tieredCost(t, n, e + 1)
    BY <2>2, <2>3, <2>4, <2>5
  <2> QED BY <2>1, <2>6
<1>3. Nat \subseteq P
  <2> HIDE DEF P
  <2> QED BY <1>1, <1>2, Induction
<1>4. m - n \in Nat /\ n + (m - n) = m
  OBVIOUS
<1> QED BY <1>3, <1>4

\* The reference bill is the tier table's price of the whole volume.
TableBill(t, v) == tieredCost(t, 0, v.egress) + v.nat * NatPerGB + v.flat * FlatPerGB
EgressCents(t, n) == [g \in 0 .. n - 1 |-> t[TierOf(t, g)].perGB]

LEMMA EgressIsTiered ==
    ASSUME NEW t \in TierTables, NEW n \in Nat, n <= MaxGB
    PROVE  SumFunction(EgressCents(t, n)) = tieredCost(t, 0, n)
<1> DEFINE F(k) == EgressCents(t, k)
           P == {k \in Nat : k <= MaxGB =>
                    SumFunctionOnSet(F(k), 0 .. k - 1) = tieredCost(t, 0, k)}
<1>0. ASSUME NEW k \in Nat, k <= MaxGB PROVE Integral(F(k), 0 .. k - 1) /\ IsFiniteSet(0 .. k - 1)
  <2>1. ASSUME NEW g \in 0 .. k - 1 PROVE F(k)[g] \in Int
    <3>1. g \in Nat /\ g <= MaxGB
      BY <1>0, MeteringAssumption
    <3>2. t[TierOf(t, g)].perGB \in Nat
      BY <3>1, TierOfGB, Tables
    <3> QED BY <3>2 DEF EgressCents
  <2>2. IsFiniteSet(0 .. k - 1)
    BY FS_Interval
  <2> QED BY <2>1, <2>2 DEF Integral
<1>1. 0 \in P
  <2>1. 0 .. 0 - 1 = {} /\ 0 \in Nat
    OBVIOUS
  <2> QED BY <2>1, SumEmpty, TierNothing
<1>2. ASSUME NEW k \in Nat, k \in P PROVE k + 1 \in P
  <2> SUFFICES ASSUME k + 1 <= MaxGB
               PROVE  SumFunctionOnSet(F(k + 1), 0 .. (k + 1) - 1) = tieredCost(t, 0, k + 1)
    OBVIOUS
  <2>1. /\ k <= MaxGB /\ k + 1 \in Nat /\ 0 \in Nat /\ 0 <= k
        /\ 0 .. (k + 1) - 1 = (0 .. k - 1) \cup {k} /\ k \notin 0 .. k - 1
    BY MeteringAssumption
  <2>2. /\ Integral(F(k), 0 .. k - 1) /\ IsFiniteSet(0 .. k - 1)
        /\ Integral(F(k + 1), (0 .. k - 1) \cup {k})
    BY <1>0, <2>1
  <2>3. Integral(F(k + 1), 0 .. k - 1)
    BY <2>2 DEF Integral
  <2>4. \A g \in 0 .. k - 1 : F(k + 1)[g] = F(k)[g]
    BY DEF EgressCents
  <2>5. F(k + 1)[k] = t[TierOf(t, k)].perGB
    BY DEF EgressCents
  <2>6. SumFunctionOnSet(F(k), 0 .. k - 1) = tieredCost(t, 0, k)
    BY <1>2, <2>1
  <2> HIDE DEF F
  <2>7. SumFunctionOnSet(F(k + 1), (0 .. k - 1) \cup {k})
        = F(k + 1)[k] + SumFunctionOnSet(F(k + 1), 0 .. k - 1)
    BY <2>1, <2>2, SumAdd
  <2>8. SumFunctionOnSet(F(k + 1), 0 .. k - 1) = SumFunctionOnSet(F(k), 0 .. k - 1)
    BY <2>2, <2>3, <2>4, SumSame
  <2>9. tieredCost(t, 0, k + 1) = tieredCost(t, 0, k) + t[TierOf(t, k)].perGB
    BY <2>1, TierStep
  <2>10. tieredCost(t, 0, k) \in Int
    BY <2>1, CostIsSum
  <2>11. t[TierOf(t, k)].perGB \in Int
    BY <2>1, TierOfGB, Tables
  <2>12. SumFunctionOnSet(F(k + 1), (0 .. k - 1) \cup {k}) = tieredCost(t, 0, k + 1)
    BY <2>5, <2>6, <2>7, <2>8, <2>9, <2>10, <2>11
  <2> QED BY <2>1, <2>12
<1>3. Nat \subseteq P
  <2> HIDE DEF P
  <2> QED BY <1>1, <1>2, Induction
<1>4. DOMAIN EgressCents(t, n) = 0 .. n - 1
  BY DEF EgressCents
<1> QED BY <1>3, <1>4 DEF SumFunction

LEMMA BillIsTiered ==
    ASSUME tiers \in TierTables, NEW v \in Volume, v.egress <= MaxGB
    PROVE  Bill(v) = TableBill(tiers, v)
<1>1. v.egress \in Nat
  BY DEF Volume
<1>2. EgressBill(v.egress) = SumFunction(EgressCents(tiers, v.egress))
  BY DEF EgressBill, EgressCents, PriceOfGB, TierOf
<1> QED BY <1>1, <1>2, EgressIsTiered DEF Bill, TableBill

LEMMA Distribute == \A i, j, k \in Nat : (i + j) * k = i * k + j * k /\ i * k \in Nat
OBVIOUS

\* What a flow adds to the bill.
LEMMA BillOfFlow ==
    ASSUME NEW t \in TierTables, NEW v \in Volume, NEW tt \in TrafficType, tt # "flat",
           NEW tx \in Nat, NEW rx \in Nat, Within(Grown(v, tt, tx, rx))
    PROVE  /\ Grown(v, tt, tx, rx) \in Volume
           /\ Grown(v, tt, tx, rx).egress = v.egress + EgressGB(tt, tx)
           /\ EgressGB(tt, tx) \in Nat /\ NatCents(tt, tx, rx) \in Nat
           /\ v.egress + EgressGB(tt, tx) <= MaxGB
           /\ TableBill(t, Grown(v, tt, tx, rx))
              = TableBill(t, v) + NatCents(tt, tx, rx)
                + tieredCost(t, v.egress, v.egress + EgressGB(tt, tx))
           /\ TableBill(t, v) \in Int
<1> DEFINE w == Grown(v, tt, tx, rx)
           e == EgressGB(tt, tx)
           n == IF tt = "nat_gateway" THEN tx + rx ELSE 0
<1>1. v.egress \in Nat /\ v.nat \in Nat /\ v.flat \in Nat
  BY DEF Volume
<1>2. w.egress = v.egress + e /\ w.nat = v.nat + n /\ w.flat = v.flat
  BY <1>1 DEF Grown, EgressGB
<1>3. e \in Nat /\ n \in Nat /\ NatCents(tt, tx, rx) = n * NatPerGB
  BY MeteringAssumption DEF EgressGB, NatCents
<1>4. w \in Volume
  BY <1>1 DEF Grown, Volume
<1>5. v.egress + e <= MaxGB
  BY <1>1, <1>2, <1>3, MeteringAssumption DEF Within
<1> HIDE DEF w, e, n
<1>6. tieredCost(t, 0, w.egress)
      = tieredCost(t, 0, v.egress) + tieredCost(t, v.egress, v.egress + e)
  BY <1>1, <1>2, <1>3, <1>5, TierSplit
<1>7. /\ w.nat * NatPerGB = v.nat * NatPerGB + n * NatPerGB
      /\ v.nat * NatPerGB \in Nat /\ n * NatPerGB \in Nat /\ v.flat * FlatPerGB \in Nat
  BY <1>1, <1>2, <1>3, Distribute, MeteringAssumption
<1>8. tieredCost(t, 0, v.egress) \in Int /\ tieredCost(t, v.egress, v.egress + e) \in Int
  BY <1>1, <1>3, CostIsSum
<1>9. /\ TableBill(t, w) = TableBill(t, v) + n * NatPerGB + tieredCost(t, v.egress, v.egress + e)
      /\ TableBill(t, v) \in Int
  BY <1>2, <1>6, <1>7, <1>8 DEF TableBill
<1> QED BY <1>2, <1>3, <1>4, <1>5, <1>7, <1>9 DEF w, e

LEMMA BillOfFlat ==
    ASSUME NEW t \in TierTables, NEW v \in Volume, NEW tx \in Nat, NEW rx \in Nat
    PROVE  /\ Grown(v, "flat", tx, rx) \in Volume
           /\ Grown(v, "flat", tx, rx).egress = v.egress
           /\ TableBill(t, Grown(v, "flat", tx, rx))
              = TableBill(t, v) + (tx + rx) * FlatPerGB
           /\ TableBill(t, v) \in Int /\ (tx + rx) * FlatPerGB \in Nat
<1> DEFINE w == Grown(v, "flat", tx, rx)
<1>1. v.egress \in Nat /\ v.nat \in Nat /\ v.flat \in Nat /\ tx + rx \in Nat
  BY DEF Volume
<1>2. w.egress = v.egress /\ w.nat = v.nat /\ w.flat = v.flat + (tx + rx) /\ w \in Volume
  BY <1>1 DEF Grown, Volume
<1> HIDE DEF w
<1>3. /\ w.flat * FlatPerGB = v.flat * FlatPerGB + (tx + rx) * FlatPerGB
      /\ v.nat * NatPerGB \in Nat /\ v.flat * FlatPerGB \in Nat /\ (tx + rx) * FlatPerGB \in Nat
  BY <1>1, <1>2, Distribute, MeteringAssumption
<1>4. tieredCost(t, 0, v.egress) \in Int
  BY <1>1, CostIsSum
<1>5. /\ TableBill(t, w) = TableBill(t, v) + (tx + rx) * FlatPerGB
      /\ TableBill(t, v) \in Int
  BY <1>2, <1>3, <1>4 DEF TableBill
<1> QED BY <1>2, <1>3, <1>5 DEF w

\* The marginal rate is the highest, so no stretch costs more.
LEMMA MarginalCovers ==
    ASSUME NEW t \in TierTables, NEW p \in Nat, NEW d \in Nat, p + d <= MaxGB
    PROVE  /\ tieredCost(t, p, p + d) <= d * MarginalRate(t)
           /\ MarginalRate(t) \in Nat
<1> DEFINE M == MarginalRate(t)
           P == {k \in Nat : p + k <= MaxGB => tieredCost(t, p, p + k) <= k * M}
<1>1. M \in Nat /\ \A i \in DOMAIN t : t[i].perGB <= M
  <2> DEFINE paid == {i \in DOMAIN t : t[i].perGB > 0}
  <2>1. M = IF paid = {} THEN 0 ELSE t[Min(paid)].perGB
    BY DEF MarginalRate
  <2>2. \A i \in DOMAIN t : t[i].perGB \in Nat
    BY Tables
  <2>3. CASE paid = {}
    BY <2>1, <2>2, <2>3
  <2>4. CASE paid # {}
    <3>1. paid \in SUBSET Nat
      BY Tables
    <3>2. Min(paid) \in paid /\ \A j \in paid : Min(paid) <= j
      BY <2>4, <3>1, LeastNat DEF Min
    <3> DEFINE f == Min(paid)
    <3> HIDE DEF f
    <3>3. ASSUME NEW i \in DOMAIN t PROVE t[i].perGB <= t[f].perGB
      <4>1. CASE i \notin paid
        BY <2>2, <3>2, <4>1 DEF f
      <4>2. CASE i \in paid /\ i # f
        <5>1. f \in paid /\ f <= i
          BY <3>2, <4>2 DEF f
        <5>2. f \in Nat /\ i \in Nat
          BY <3>1, <4>2, <5>1
        <5>3. f < i
          BY <4>2, <5>1, <5>2
        <5> QED BY <5>1, <5>3, FallingPrices
      <4>3. CASE i = f
        BY <2>2, <4>3
      <4> QED BY <4>1, <4>2, <4>3
    <3> QED BY <2>1, <2>2, <2>4, <3>2, <3>3 DEF f
  <2> QED BY <2>3, <2>4
<1> HIDE DEF M
<1>2. 0 \in P
  <2>1. p + 0 = p /\ 0 * M = 0
    BY <1>1
  <2> QED BY <2>1, TierNothing
<1>3. ASSUME NEW k \in Nat, k \in P PROVE k + 1 \in P
  <2> SUFFICES ASSUME p + (k + 1) <= MaxGB PROVE tieredCost(t, p, p + (k + 1)) <= (k + 1) * M
    OBVIOUS
  <2> DEFINE e == p + k
             q == t[TierOf(t, e)].perGB
  <2>1. e \in Nat /\ e <= MaxGB /\ p <= e /\ p + (k + 1) = e + 1
    BY MeteringAssumption
  <2>2. tieredCost(t, p, e) <= k * M
    BY <1>3, <2>1
  <2> HIDE DEF e
  <2>3. tieredCost(t, p, e + 1) = tieredCost(t, p, e) + q /\ tieredCost(t, p, e) \in Int
    BY <2>1, TierStep, CostIsSum
  <2>4. q \in Nat /\ q <= M
    BY <1>1, <2>1, TierOfGB, Tables
  <2>5. (k + 1) * M = k * M + M /\ k * M \in Nat
    BY <1>1
  <2> HIDE DEF q
  <2>6. tieredCost(t, p, e + 1) <= (k + 1) * M
    BY <1>1, <2>2, <2>3, <2>4, <2>5
  <2> QED BY <2>1, <2>6
<1>4. Nat \subseteq P
  <2> HIDE DEF P
  <2> QED BY <1>2, <1>3, Induction
<1> QED BY <1>1, <1>4 DEF M

-----------------------------------------------------------------------------
(* The meter.  Between unlock and price a caller holds a stretch nobody     *)
(* else holds: what is charged and what is held add up to the bill.         *)

Stretch == [region : Region, from : Nat, to : Nat, flat : Nat, current : BOOLEAN]

MeterTypes ==
    /\ mode \in {"single", "marginal"} /\ tiers \in TierTables
    /\ cumulativeBytes \in [Region -> Nat] /\ charged \in [Region -> Int]
    /\ priced \in [Caller -> {Idle} \cup Stretch]
    /\ volume \in [Region -> Volume]

\* The meter is the region's egress of the period ...
Metered == \A r \in Region : /\ volume[r].egress <= MaxGB
                             /\ mode = "single" => cumulativeBytes[r] = volume[r].egress

\* ... and the bills, in terms of the table.
Billed ==
    \A r \in Region :
        /\ mode = "single" => charged[r] + Pending(r) = TableBill(tiers, volume[r])
        /\ mode = "marginal" => charged[r] >= TableBill(tiers, volume[r])

\* Marginal mode takes no meter.
Unmetered == mode = "marginal" => \A k \in Caller : priced[k] = Idle

MeterInv == MeterTypes /\ Metered /\ Billed /\ Unmetered

LEMMA StretchIsNotIdle == Idle \notin Stretch
<1> SUFFICES ASSUME Idle \in Stretch PROVE FALSE
  OBVIOUS
<1>1. "from" \in DOMAIN Idle
  BY DEF Stretch
<1> QED BY <1>1 DEF Idle

LEMMA PendingTypes ==
    ASSUME MeterTypes
    PROVE  /\ Integral(PendingCents, Caller)
           /\ \A r : PendingCallers(r) \subseteq Caller /\ IsFiniteSet(PendingCallers(r))
           /\ \A r : Integral(PendingCents, PendingCallers(r)) /\ Pending(r) \in Int
<1>1. Integral(PendingCents, Caller)
  <2>1. ASSUME NEW k \in Caller PROVE PendingCents[k] \in Int
    <3>1. CASE priced[k] = Idle
      BY <3>1 DEF PendingCents
    <3>2. CASE priced[k] # Idle
      <4>1. priced[k] \in Stretch
        BY <3>2 DEF MeterTypes
      <4>2. priced[k].flat \in Nat /\ priced[k].from \in Nat /\ priced[k].to \in Nat
        BY <4>1 DEF Stretch
      <4>3. tieredCost(tiers, priced[k].from, priced[k].to) \in Int
        BY <4>2, CostIsSum DEF MeterTypes
      <4> QED BY <3>2, <4>2, <4>3 DEF PendingCents
    <3> QED BY <3>1, <3>2
  <2> QED BY <2>1 DEF Integral
<1>2. ASSUME NEW r PROVE PendingCallers(r) \subseteq Caller /\ IsFiniteSet(PendingCallers(r))
  <2>1. PendingCallers(r) \subseteq Caller
    BY DEF PendingCallers
  <2> QED BY <2>1, MeteringAssumption, FS_Subset
<1>3. ASSUME NEW r PROVE Integral(PendingCents, PendingCallers(r)) /\ Pending(r) \in Int
  <2>1. Integral(PendingCents, PendingCallers(r))
    BY <1>1, <1>2 DEF Integral
  <2> QED BY <1>2, <2>1, SumInt DEF Pending
<1> QED BY <1>1, <1>2, <1>3

LEMMA FlatBilled ==
    ASSUME MeterInv, NEW r \in Region, NEW tx \in Nat, NEW rx \in Nat, FlatFlow(r, tx, rx)
    PROVE  MeterInv'
<1> DEFINE w == Grown(volume[r], "flat", tx, rx)
           d == (tx + rx) * FlatPerGB
<1>1. /\ volume' = [volume EXCEPT ![r] = w] /\ charged' = [charged EXCEPT ![r] = @ + d]
      /\ UNCHANGED <<mode, tiers, cumulativeBytes, priced>>
  BY DEF FlatFlow
<1>2. MeterTypes
  BY DEF MeterInv
<1>3. /\ w \in Volume /\ w.egress = volume[r].egress
      /\ TableBill(tiers, w) = TableBill(tiers, volume[r]) + d
      /\ TableBill(tiers, volume[r]) \in Int /\ d \in Nat
  BY <1>2, BillOfFlat DEF MeterTypes
<1>4. Pending(r) \in Int
  BY <1>2, PendingTypes
<1>5. \A q : Pending(q)' = Pending(q)
  BY <1>1 DEF Pending, PendingCents, PendingCallers
<1> HIDE DEF w, d
<1>6. MeterTypes'
  BY <1>1, <1>2, <1>3 DEF MeterTypes
<1>7. Metered'
  BY <1>1, <1>2, <1>3 DEF MeterInv, Metered, MeterTypes
<1>8. Billed'
  <2> SUFFICES ASSUME NEW q \in Region
               PROVE  /\ mode' = "single" => charged'[q] + Pending(q)' = TableBill(tiers', volume'[q])
                      /\ mode' = "marginal" => charged'[q] >= TableBill(tiers', volume'[q])
    BY DEF Billed
  <2>1. CASE q = r
    <3>1. /\ mode = "single" => charged[r] + Pending(r) = TableBill(tiers, volume[r])
          /\ mode = "marginal" => charged[r] >= TableBill(tiers, volume[r])
      BY DEF MeterInv, Billed
    <3>2. charged'[q] = charged[r] + d /\ volume'[q] = w /\ charged[r] \in Int
      BY <1>1, <1>2, <2>1 DEF MeterTypes
    <3>3. Pending(q)' = Pending(r)
      BY <1>5, <2>1
    <3> QED BY <1>1, <1>3, <1>4, <3>1, <3>2, <3>3
  <2>2. CASE q # r
    <3>1. charged'[q] = charged[q] /\ volume'[q] = volume[q]
      BY <1>1, <1>2, <2>2 DEF MeterTypes
    <3> QED BY <1>1, <1>5, <3>1 DEF MeterInv, Billed
  <2> QED BY <2>1, <2>2
<1>9. Unmetered'
  BY <1>1 DEF MeterInv, Unmetered
<1> QED BY <1>6, <1>7, <1>8, <1>9 DEF MeterInv

LEMMA MarginalBilled ==
    ASSUME MeterInv, NEW r \in Region, NEW tt \in TrafficType, NEW tx \in Nat, NEW rx \in Nat,
           MarginalFlow(r, tt, tx, rx)
    PROVE  MeterInv'
<1> DEFINE w == Grown(volume[r], tt, tx, rx)
           n == NatCents(tt, tx, rx)
           e == EgressGB(tt, tx)
           d == e * MarginalRate(tiers)
           v == volume[r]
<1>1. /\ volume' = [volume EXCEPT ![r] = w] /\ charged' = [charged EXCEPT ![r] = @ + n + d]
      /\ UNCHANGED <<mode, tiers, cumulativeBytes, priced>> /\ mode = "marginal"
      /\ tt # "flat" /\ Within(w)
  BY DEF MarginalFlow
<1>2. MeterTypes /\ tiers \in TierTables /\ v \in Volume /\ v.egress \in Nat
  BY DEF MeterInv, MeterTypes, Volume
<1>3. /\ w \in Volume /\ w.egress = v.egress + e /\ v.egress + e <= MaxGB
      /\ TableBill(tiers, w) = TableBill(tiers, v) + n + tieredCost(tiers, v.egress, v.egress + e)
      /\ TableBill(tiers, v) \in Int /\ n \in Nat /\ e \in Nat
  BY <1>1, <1>2, BillOfFlow
<1>4. tieredCost(tiers, v.egress, v.egress + e) <= d /\ MarginalRate(tiers) \in Nat
  BY <1>2, <1>3, MarginalCovers
<1>5. d \in Nat
  BY <1>3, <1>4, Distribute
<1>6. tieredCost(tiers, v.egress, v.egress + e) \in Int
  BY <1>2, <1>3, CostIsSum
<1> HIDE DEF w, d, n, e
<1>7. MeterTypes'
  BY <1>1, <1>2, <1>3, <1>5 DEF MeterTypes
<1>8. Metered'
  BY <1>1, <1>2, <1>3 DEF MeterInv, Metered, MeterTypes
<1>9. Billed'
  <2> SUFFICES ASSUME NEW q \in Region PROVE charged'[q] >= TableBill(tiers', volume'[q])
    BY <1>1 DEF Billed
  <2>1. charged[q] >= TableBill(tiers, volume[q])
    BY <1>1 DEF MeterInv, Billed
  <2>2. CASE q = r
    <3>1. charged'[q] = charged[r] + n + d /\ volume'[q] = w /\ charged[r] \in Int
      BY <1>1, <1>2, <2>2 DEF MeterTypes
    <3>2. charged[r] >= TableBill(tiers, v)
      BY <2>1, <2>2
    <3> HIDE DEF v
    <3>3. charged[r] + n + d >= TableBill(tiers, w)
      BY <1>3, <1>4, <1>5, <1>6, <3>1, <3>2
    <3> QED BY <1>1, <3>1, <3>3
  <2>3. CASE q # r
    BY <1>1, <1>2, <2>1, <2>3 DEF MeterTypes
  <2> QED BY <2>2, <2>3
<1>10. Unmetered'
  BY <1>1 DEF MeterInv, Unmetered
<1> QED BY <1>7, <1>8, <1>9, <1>10 DEF MeterInv

LEMMA NothingBilled ==
    ASSUME NEW t \in TierTables
    PROVE  ZeroVolume \in Volume /\ ZeroVolume.egress = 0 /\ TableBill(t, ZeroVolume) = 0
<1>1. /\ ZeroVolume \in Volume /\ ZeroVolume.egress = 0 /\ ZeroVolume.nat = 0
      /\ ZeroVolume.flat = 0
  BY DEF ZeroVolume, Volume
<1>2. tieredCost(t, 0, 0) = 0
  BY TierNothing
<1>3. 0 * NatPerGB = 0 /\ 0 * FlatPerGB = 0
  BY MeteringAssumption
<1> QED BY <1>1, <1>2, <1>3 DEF TableBill

\* A reset leaves no caller pending.
LEMMA OutdatedPends ==
    ASSUME MeterTypes
    PROVE  /\ Outdated \in [Caller -> {Idle} \cup Stretch]
           /\ \A k \in Caller : Outdated[k] # Idle => ~Outdated[k].current
<1>1. ASSUME NEW k \in Caller
      PROVE  /\ Outdated[k] \in {Idle} \cup Stretch
             /\ Outdated[k] # Idle => ~Outdated[k].current
  <2>1. CASE priced[k] = Idle
    BY <2>1 DEF Outdated
  <2>2. CASE priced[k] # Idle
    <3> DEFINE w == priced[k]
    <3>1. w \in Stretch /\ Outdated[k] = [w EXCEPT !.current = FALSE]
      BY <2>2 DEF MeterTypes, Outdated
    <3> HIDE DEF w
    <3>2. [w EXCEPT !.current = FALSE] \in Stretch /\ ~[w EXCEPT !.current = FALSE].current
      BY <3>1 DEF Stretch
    <3> QED BY <3>1, <3>2
  <2> QED BY <2>1, <2>2
<1>2. Outdated = [k \in Caller |-> Outdated[k]]
  BY DEF Outdated
<1> QED BY <1>1, <1>2

LEMMA BeginBilled ==
    ASSUME MeterInv, NEW k \in Caller, NEW r \in Region, NEW tt \in TrafficType,
           NEW tx \in Nat, NEW rx \in Nat, BeginFlow(k, r, tt, tx, rx)
    PROVE  MeterInv'
<1> DEFINE old == IF NewPeriod THEN Outdated ELSE priced
           vol(q) == IF NewPeriod THEN ZeroVolume ELSE volume[q]
           chg(q) == IF NewPeriod THEN 0 ELSE charged[q]
           pend(q) == IF NewPeriod THEN {} ELSE PendingCallers(q)
           prev == IF NewPeriod THEN 0 ELSE cumulativeBytes[r]
           e == EgressGB(tt, tx)
           n == NatCents(tt, tx, rx)
           w == Grown(vol(r), tt, tx, rx)
           new == [region |-> r, from |-> prev, to |-> prev + e, flat |-> n, current |-> TRUE]
<1>1. /\ mode = "single" /\ mode' = mode /\ tiers' = tiers /\ priced[k] = Idle
      /\ tt # "flat" /\ Within(w)
      /\ priced' = [old EXCEPT ![k] = new]
      /\ cumulativeBytes' = Meter(r, e)
  BY DEF BeginFlow
<1>2. /\ volume' = [q \in Region |-> IF q = r THEN w ELSE vol(q)]
      /\ charged' = IF NewPeriod THEN [q \in Region |-> 0] ELSE charged
  BY DEF BeginFlow
<1>3. MeterTypes /\ tiers \in TierTables
  BY DEF MeterInv, MeterTypes
\* What the period has when the flow arrives.
<1>4. ASSUME NEW q \in Region
      PROVE  /\ vol(q) \in Volume /\ vol(q).egress <= MaxGB /\ chg(q) \in Int
             /\ (IF NewPeriod THEN 0 ELSE cumulativeBytes[q]) = vol(q).egress
             /\ chg(q) + SumFunctionOnSet(PendingCents, pend(q)) = TableBill(tiers, vol(q))
             /\ charged'[q] = chg(q)
  <2>1. CASE NewPeriod
    <3>1. SumFunctionOnSet(PendingCents, {}) = 0
      BY SumEmpty
    <3> QED BY <1>2, <1>3, <2>1, <3>1, NothingBilled, MeteringAssumption
  <2>2. CASE ~NewPeriod
    BY <1>1, <1>2, <1>3, <2>2 DEF MeterInv, MeterTypes, Metered, Billed, Pending
  <2> QED BY <2>1, <2>2
<1>5. /\ w \in Volume /\ w.egress = vol(r).egress + e /\ w.egress <= MaxGB
      /\ TableBill(tiers, w) = TableBill(tiers, vol(r)) + n
                               + tieredCost(tiers, vol(r).egress, vol(r).egress + e)
      /\ TableBill(tiers, vol(r)) \in Int /\ n \in Nat /\ e \in Nat
  BY <1>1, <1>3, <1>4, BillOfFlow
<1>6. prev = vol(r).egress /\ prev \in Nat /\ prev + e \in Nat
  BY <1>4, <1>5 DEF Volume
<1>7. new \in Stretch /\ new # Idle
  <2>1. new \in Stretch
    BY <1>5, <1>6 DEF Stretch
  <2> HIDE DEF new
  <2> QED BY <2>1, StretchIsNotIdle
<1>8. old \in [Caller -> {Idle} \cup Stretch]
  BY <1>3, OutdatedPends DEF MeterTypes
<1>9. /\ priced' \in [Caller -> {Idle} \cup Stretch] /\ priced'[k] = new
      /\ \A j \in Caller : j # k => priced'[j] = old[j]
  BY <1>1, <1>7, <1>8
<1>10. cumulativeBytes' \in [Region -> Nat]
       /\ \A q \in Region : cumulativeBytes'[q] = vol(q).egress + (IF q = r THEN e ELSE 0)
  BY <1>1, <1>3, <1>4, <1>5 DEF Meter, MeterTypes
\* The pending flows: those of the period and the new one.
<1>11. ASSUME NEW q \in Region
       PROVE  PendingCallers(q)' = pend(q) \cup (IF q = r THEN {k} ELSE {})
  <2>1. new.region = r /\ new.current
    OBVIOUS
  <2>2. ASSUME NEW j \in Caller, j # k
        PROVE  j \in PendingCallers(q)' <=> j \in pend(q)
    <3>1. priced'[j] = old[j]
      BY <1>9, <2>2
    <3>2. CASE NewPeriod
      <4>1. old[j] # Idle => ~old[j].current
        BY <1>3, <3>2, OutdatedPends
      <4> QED BY <3>1, <3>2, <4>1 DEF PendingCallers
    <3>3. CASE ~NewPeriod
      BY <3>1, <3>3 DEF PendingCallers
    <3> QED BY <3>2, <3>3
  <2>3. k \in PendingCallers(q)' <=> q = r
    BY <1>7, <1>9, <2>1 DEF PendingCallers
  <2>4. k \notin pend(q) /\ pend(q) \subseteq Caller /\ PendingCallers(q)' \subseteq Caller
    BY <1>1 DEF PendingCallers
  <2> HIDE DEF pend
  <2> QED BY <2>2, <2>3, <2>4
<1>12. ASSUME NEW q \in Region
       PROVE  /\ k \notin pend(q) /\ IsFiniteSet(pend(q)) /\ Integral(PendingCents, pend(q))
              /\ \A j \in pend(q) : PendingCents'[j] = PendingCents[j]
  <2>1. CASE NewPeriod
    BY <2>1, FS_EmptySet DEF Integral
  <2>2. CASE ~NewPeriod
    <3>1. /\ pend(q) = PendingCallers(q) /\ PendingCallers(q) \subseteq Caller
          /\ IsFiniteSet(PendingCallers(q)) /\ Integral(PendingCents, PendingCallers(q))
      BY <1>3, <2>2, PendingTypes
    <3>2. k \notin PendingCallers(q)
      BY <1>1 DEF PendingCallers
    <3>3. ASSUME NEW j \in PendingCallers(q) PROVE PendingCents'[j] = PendingCents[j]
      <4>1. j \in Caller /\ j # k
        BY <3>1, <3>2
      <4>2. priced'[j] = priced[j]
        BY <1>9, <2>2, <4>1
      <4> QED BY <1>1, <4>1, <4>2 DEF PendingCents
    <3> QED BY <3>1, <3>2, <3>3
  <2> QED BY <2>1, <2>2
<1>13. PendingCents'[k] = n + tieredCost(tiers, vol(r).egress, vol(r).egress + e)
  <2>1. new.flat = n /\ new.from = prev /\ new.to = prev + e
    OBVIOUS
  <2>2. PendingCents'[k] = priced'[k].flat + tieredCost(tiers', priced'[k].from, priced'[k].to)
    BY <1>7, <1>9 DEF PendingCents
  <2> QED BY <1>1, <1>6, <1>9, <2>1, <2>2
<1>14. tieredCost(tiers, vol(r).egress, vol(r).egress + e) \in Int
  BY <1>3, <1>5, <1>6, CostIsSum
<1> HIDE DEF old, vol, chg, pend, e, n, w, new, prev
<1>15. ASSUME NEW q \in Region
       PROVE  /\ SumFunctionOnSet(PendingCents', pend(q)) = SumFunctionOnSet(PendingCents, pend(q))
              /\ SumFunctionOnSet(PendingCents, pend(q)) \in Int
              /\ Integral(PendingCents', pend(q))
  <2>1. Integral(PendingCents', pend(q))
    BY <1>12 DEF Integral
  <2> QED BY <1>12, <2>1, SumSame, SumInt
<1>16. MeterTypes'
  <2>1. volume' \in [Region -> Volume]
    BY <1>2, <1>4, <1>5
  <2>2. charged' \in [Region -> Int]
    BY <1>2, <1>3 DEF MeterTypes
  <2> QED BY <1>1, <1>3, <1>9, <1>10, <2>1, <2>2 DEF MeterTypes
<1>17. Metered'
  BY <1>2, <1>4, <1>5, <1>10 DEF Metered, Volume
<1>18. ASSUME NEW q \in Region
       PROVE  charged'[q] + Pending(q)' = TableBill(tiers, volume'[q])
  <2>1. Pending(q)' = SumFunctionOnSet(PendingCents', PendingCallers(q)')
    BY DEF Pending
  <2>2. CASE q # r
    <3>1. PendingCallers(q)' = pend(q)
      BY <1>11, <2>2
    <3> QED BY <1>2, <1>4, <1>15, <2>1, <2>2, <3>1
  <2>3. CASE q = r
    <3>1. Integral(PendingCents', pend(r) \cup {k})
      BY <1>5, <1>13, <1>14, <1>15 DEF Integral
    <3>2. SumFunctionOnSet(PendingCents', pend(r) \cup {k})
          = PendingCents'[k] + SumFunctionOnSet(PendingCents', pend(r))
      BY <1>12, <3>1, SumAdd
    <3>3. Pending(q)' = PendingCents'[k] + SumFunctionOnSet(PendingCents, pend(r))
      BY <1>11, <1>15, <2>1, <2>3, <3>2
    <3>4. /\ charged'[q] = chg(r) /\ chg(r) \in Int /\ volume'[q] = w
          /\ chg(r) + SumFunctionOnSet(PendingCents, pend(r)) = TableBill(tiers, vol(r))
          /\ SumFunctionOnSet(PendingCents, pend(r)) \in Int
      BY <1>2, <1>4, <1>15, <2>3
    <3> QED BY <1>5, <1>13, <1>14, <3>3, <3>4
  <2> QED BY <2>2, <2>3
<1>19. Billed'
  BY <1>1, <1>18 DEF Billed
<1>20. Unmetered'
  BY <1>1 DEF Unmetered
<1> QED BY <1>16, <1>17, <1>19, <1>20 DEF MeterInv

LEMMA PriceBilled ==
    ASSUME MeterInv, NEW k \in Caller, PriceFlow(k)
    PROVE  MeterInv'
<1> DEFINE w == priced[k]
           d == w.flat + tieredCost(tiers, w.from, w.to)
<1>1. /\ w # Idle /\ priced' = [priced EXCEPT ![k] = Idle]
      /\ charged' = IF ~w.current THEN charged ELSE [charged EXCEPT ![w.region] = @ + w.flat + tieredCost(tiers, w.from, w.to)]
      /\ UNCHANGED <<mode, tiers, cumulativeBytes, volume>>
  BY DEF PriceFlow
<1>2. MeterTypes /\ w \in Stretch
  BY <1>1 DEF MeterInv, MeterTypes
<1>3. w.region \in Region /\ w.flat \in Nat /\ w.from \in Nat /\ w.to \in Nat /\ w.current \in BOOLEAN
  BY <1>2 DEF Stretch
<1>4. tieredCost(tiers, w.from, w.to) \in Int
  BY <1>2, <1>3, CostIsSum DEF MeterTypes
<1>5. d \in Int /\ d = PendingCents[k]
  BY <1>1, <1>3, <1>4 DEF PendingCents
<1>6. ASSUME NEW q PROVE PendingCallers(q)' = PendingCallers(q) \ {k}
  BY <1>1, <1>2 DEF PendingCallers, MeterTypes
<1>7. ASSUME NEW q PROVE k \in PendingCallers(q) <=> w.region = q /\ w.current
  BY <1>1 DEF PendingCallers
<1>8. ASSUME NEW q
      PROVE  /\ SumFunctionOnSet(PendingCents', PendingCallers(q) \ {k})
                = SumFunctionOnSet(PendingCents, PendingCallers(q) \ {k})
             /\ SumFunctionOnSet(PendingCents, PendingCallers(q) \ {k}) \in Int
  <2> DEFINE S == PendingCallers(q) \ {k}
  <2>1. /\ IsFiniteSet(PendingCallers(q)) /\ Integral(PendingCents, PendingCallers(q))
        /\ PendingCallers(q) \subseteq Caller
    BY <1>2, PendingTypes
  <2>2. IsFiniteSet(S) /\ Integral(PendingCents, S)
    BY <2>1, FS_Subset DEF Integral
  <2>3. \A j \in S : PendingCents'[j] = PendingCents[j]
    BY <1>1, <1>2, <2>1 DEF PendingCents, MeterTypes
  <2> HIDE DEF S
  <2>4. SumFunctionOnSet(PendingCents, S) = SumFunctionOnSet(PendingCents', S)
    BY <2>2, <2>3, SumSame
  <2> QED BY <2>2, <2>4, SumInt DEF S
<1>9. ASSUME NEW q \in Region
      PROVE  charged'[q] + Pending(q)' = charged[q] + Pending(q) /\ charged'[q] \in Int
  <2>0. charged[q] \in Int
    BY <1>2 DEF MeterTypes
  <2>1. Pending(q)' = SumFunctionOnSet(PendingCents, PendingCallers(q) \ {k})
    BY <1>6, <1>8 DEF Pending
  <2>2. CASE k \in PendingCallers(q)
    <3>1. Pending(q) = PendingCents[k] + SumFunctionOnSet(PendingCents, PendingCallers(q) \ {k})
      BY <1>2, <2>2, PendingTypes, SumRemove DEF Pending
    <3>2. charged'[q] = charged[q] + w.flat + tieredCost(tiers, w.from, w.to)
      BY <1>1, <1>2, <1>7, <2>2 DEF MeterTypes
    <3> QED BY <1>3, <1>4, <1>5, <1>8, <2>0, <2>1, <3>1, <3>2
  <2>3. CASE k \notin PendingCallers(q)
    <3>1. charged'[q] = charged[q]
      BY <1>1, <1>2, <1>3, <1>7, <2>3 DEF MeterTypes
    <3>2. PendingCallers(q) \ {k} = PendingCallers(q)
      BY <2>3
    <3> QED BY <2>0, <2>1, <3>1, <3>2 DEF Pending
  <2> QED BY <2>2, <2>3
<1>10. mode = "single"
  BY <1>1, <1>2 DEF MeterInv, MeterTypes, Unmetered
<1>11. MeterTypes'
  <2>1. charged' \in [Region -> Int]
    <3>1. DOMAIN charged' = Region /\ charged' = [q \in Region |-> charged'[q]]
      BY <1>1, <1>2 DEF MeterTypes
    <3> QED BY <1>9, <3>1
  <2> QED BY <1>1, <1>2, <2>1 DEF MeterTypes
<1>12. Metered' /\ Unmetered'
  BY <1>1, <1>10 DEF MeterInv, Metered, Unmetered
<1>13. Billed'
  BY <1>1, <1>9, <1>10 DEF MeterInv, Billed
<1> QED BY <1>11, <1>12, <1>13 DEF MeterInv

LEMMA ResetBilled ==
    ASSUME MeterInv, ResetBillingPeriod
    PROVE  MeterInv'
<1>1. /\ mode = "single" /\ mode' = mode /\ tiers' = tiers /\ priced' = Outdated
      /\ cumulativeBytes' = [r \in Region |-> 0] /\ charged' = [r \in Region |-> 0]
      /\ volume' = [r \in Region |-> ZeroVolume]
  BY DEF ResetBillingPeriod
<1>2. MeterTypes /\ tiers \in TierTables
  BY DEF MeterInv, MeterTypes
<1>3. ZeroVolume \in Volume /\ ZeroVolume.egress = 0 /\ TableBill(tiers, ZeroVolume) = 0
  BY <1>2, NothingBilled
<1>4. ASSUME NEW q PROVE Pending(q)' = 0
  <2>1. PendingCallers(q)' = {}
    BY <1>1, <1>2, OutdatedPends DEF PendingCallers
  <2>2. Pending(q)' = SumFunctionOnSet(PendingCents', {})
    BY <2>1 DEF Pending
  <2> QED BY <2>2, SumEmpty
<1>5. MeterTypes'
  BY <1>1, <1>2, <1>3, OutdatedPends DEF MeterTypes
<1>6. Metered' /\ Unmetered'
  BY <1>1, <1>3, MeteringAssumption DEF Metered, Unmetered
<1>7. Billed'
  BY <1>1, <1>3, <1>4 DEF Billed
<1> QED BY <1>5, <1>6, <1>7 DEF MeterInv

LEMMA IdleBilled ==
    ASSUME MeterInv, UNCHANGED <<mode, tiers, cumulativeBytes, priced, charged, volume>>
    PROVE  MeterInv'
<1>1. \A q : Pending(q)' = Pending(q)
  BY DEF Pending, PendingCents, PendingCallers
<1>2. MeterTypes' /\ Metered' /\ Unmetered'
  BY DEF MeterInv, MeterTypes, Metered, Unmetered
<1>3. Billed'
  BY <1>1 DEF MeterInv, Billed
<1> QED BY <1>2, <1>3 DEF MeterInv

LEMMA MeterInvariant == CostsSpec => []MeterInv
<1>1. CostsInit => MeterInv
  <2> SUFFICES ASSUME Init PROVE MeterInv
    BY DEF CostsInit
  <2>1. /\ mode \in {"single", "marginal"} /\ tiers \in TierTables
        /\ cumulativeBytes = [r \in Region |-> 0] /\ priced = [k \in Caller |-> Idle]
        /\ charged = [r \in Region |-> 0] /\ volume = [r \in Region |-> ZeroVolume]
    BY DEF Init
  <2>2. ZeroVolume \in Volume /\ ZeroVolume.egress = 0 /\ TableBill(tiers, ZeroVolume) = 0
    BY <2>1, NothingBilled
  <2>3. ASSUME NEW q PROVE Pending(q) = 0
    <3>1. PendingCallers(q) = {}
      BY <2>1 DEF PendingCallers
    <3> QED BY <3>1, SumEmpty DEF Pending
  <2>4. MeterTypes /\ Metered /\ Unmetered
    BY <2>1, <2>2, MeteringAssumption DEF MeterTypes, Metered, Unmetered
  <2>5. Billed
    BY <2>1, <2>2, <2>3 DEF Billed
  <2> QED BY <2>4, <2>5 DEF MeterInv
<1>2. MeterInv /\ [CostsNext]_allVars => MeterInv'
  <2> SUFFICES ASSUME MeterInv, [CostsNext]_allVars PROVE MeterInv'
    OBVIOUS
  <2>1. CASE Next
    <3>1. ASSUME NEW r \in Region, NEW tt \in TrafficType,
                 NEW tx \in 0 .. MaxFlowGB, NEW rx \in 0 .. MaxFlowGB,
                 \/ \E k \in Caller : BeginFlow(k, r, tt, tx, rx)
                 \/ MarginalFlow(r, tt, tx, rx)
                 \/ FlatFlow(r, tx, rx)
          PROVE  MeterInv'
      <4>1. tx \in Nat /\ rx \in Nat
        BY MeteringAssumption
      <4> QED BY <3>1, <4>1, BeginBilled, MarginalBilled, FlatBilled
    <3>2. CASE \E k \in Caller : PriceFlow(k)
      BY <3>2, PriceBilled
    <3>3. CASE ResetBillingPeriod
      BY <3>3, ResetBilled
    <3>4. CASE NextMonth
      BY <3>4, IdleBilled DEF NextMonth
    <3> QED BY <2>1, <3>1, <3>2, <3>3, <3>4 DEF Next
  <2>2. CASE UNCHANGED vars
    BY <2>2, IdleBilled DEF vars
  <2> QED
    BY <2>1, <2>2 DEF CostsNext, allVars
<1> QED
  BY <1>1, <1>2, PTL DEF CostsSpec

\* calculateFlow, priceTiered and tieredCost: for every tier table, any number
\* of concurrent callers and any flows and month boundaries, what the flows of a
\* region were charged is what the table asks for the whole volume, GB by GB.
THEOREM SingleMeterExact == CostsSpec => []BillExact
<1>1. MeterInv => BillExact
  <2> SUFFICES ASSUME MeterInv, mode = "single", NEW r \in Region
               PROVE  charged[r] + Pending(r) = Bill(volume[r])
    BY DEF BillExact
  <2>1. Bill(volume[r]) = TableBill(tiers, volume[r])
    BY BillIsTiered DEF MeterInv, MeterTypes, Metered
  <2> QED BY <2>1 DEF MeterInv, Billed
<1> QED
  BY <1>1, MeterInvariant, PTL

\* MarginalRate: on every card whose paid tiers get cheaper, marginal mode never
\* charges a region less than its bill, whatever mix of flows it saw.
THEOREM MarginalModeCovers == CostsSpec => []MarginalIsCeiling
<1>1. MeterInv => MarginalIsCeiling
  <2> SUFFICES ASSUME MeterInv, mode = "marginal", NEW r \in Region
               PROVE  charged[r] >= Bill(volume[r])
    BY DEF MarginalIsCeiling
  <2>1. Bill(volume[r]) = TableBill(tiers, volume[r])
    BY BillIsTiered DEF MeterInv, MeterTypes, Metered
  <2> QED BY <2>1 DEF MeterInv, Billed
<1> QED
  BY <1>1, MeterInvariant, PTL

-----------------------------------------------------------------------------
(* AttributeFrom: one round of the iteration is a weighted mean of what the *)
(* callers have, so it stays in [0, 1], and it is monotone, so the rounds   *)
(* grow if the second is not below the first.                               *)

LEMMA GraphConstants ==
    /\ Scale \in Nat /\ MaxIterations \in Nat
    /\ \A r \in Row : r.bytes \in Nat
BY CostsAssumption DEF G!ConstantsOK

LEMMA GraphSum == ASSUME NEW f PROVE G!SumFunction(f) = SumFunctionOnSet(f, DOMAIN f)
BY DEF G!SumFunction, G!SumFunctionOnSet, G!FoldFunctionOnSet, G!MapThenFoldSet,
       SumFunctionOnSet, FoldFunctionOnSet, MapThenFoldSet

GraphOK(g) ==
    /\ IsFiniteSet(DOMAIN g.edges)
    /\ \A k \in DOMAIN g.edges : k[1] \in g.nodes /\ g.edges[k].bytes \in Nat

Shares(g) == [g.nodes -> 0 .. Scale]

\* The inbound edges' bytes, and what each of them hands on.
BytesIn(g, n) == [k \in G!In(g, n) |-> g.edges[k].bytes]
Handed(g, resp, n) ==
    [k \in G!In(g, n) |-> (g.edges[k].bytes * resp[k[1]]) \div G!inBytes(g, n)]

LEMMA InBytesFacts ==
    ASSUME NEW g, GraphOK(g), NEW n
    PROVE  /\ IsFiniteSet(G!In(g, n))
           /\ \A k \in G!In(g, n) : /\ k[1] \in g.nodes /\ g.edges[k].bytes \in Nat
                                    /\ BytesIn(g, n)[k] = g.edges[k].bytes
           /\ G!inBytes(g, n) = SumFunctionOnSet(BytesIn(g, n), G!In(g, n))
           /\ G!inBytes(g, n) \in Nat
<1>1. G!In(g, n) \subseteq DOMAIN g.edges
  BY DEF G!In
<1>2. /\ IsFiniteSet(G!In(g, n))
      /\ \A k \in G!In(g, n) : k[1] \in g.nodes /\ g.edges[k].bytes \in Nat
  BY <1>1, FS_Subset DEF GraphOK
<1>3. \A k \in G!In(g, n) : BytesIn(g, n)[k] = g.edges[k].bytes
  BY DEF BytesIn
<1>4. G!inBytes(g, n) = SumFunctionOnSet(BytesIn(g, n), G!In(g, n))
  <2>1. G!inBytes(g, n) = G!SumFunction(BytesIn(g, n)) /\ DOMAIN BytesIn(g, n) = G!In(g, n)
    BY DEF G!inBytes, BytesIn
  <2> QED BY <2>1, GraphSum
<1>5. G!inBytes(g, n) \in Nat
  BY <1>2, <1>3, <1>4, SumNat
<1> QED BY <1>2, <1>3, <1>4, <1>5

\* A quotient: rounded down, and not smaller for a larger dividend.
LEMMA QuotientFacts ==
    ASSUME NEW m \in Nat, m # 0, NEW p \in Nat
    PROVE  /\ p \div m \in Nat /\ m * (p \div m) <= p /\ p < m * (p \div m) + m
           /\ m * (p \div m) \in Nat
OBVIOUS

LEMMA TimesCancels ==
    ASSUME NEW m \in Nat, m # 0, NEW p \in Nat, NEW q \in Nat, m * p <= m * q PROVE p <= q
OBVIOUS

LEMMA QuotientMonotone ==
    ASSUME NEW m \in Nat, m # 0, NEW p \in Nat, NEW q \in Nat, p <= q
    PROVE  p \div m <= q \div m
<1> DEFINE u == p \div m
           v == q \div m
<1>1. u \in Nat /\ v \in Nat /\ m * u <= p /\ q < m * v + m
  BY QuotientFacts
<1> HIDE DEF u, v
<1>2. CASE v < u
  <2>1. PICK d \in Nat : u = v + 1 + d
    <3>1. u - v - 1 \in Nat /\ u = v + 1 + (u - v - 1)
      BY <1>1, <1>2
    <3> QED BY <3>1
  <2>2. m * u = m * v + m + m * d /\ m * d \in Nat /\ m * v \in Nat
    BY <1>1, <2>1
  <2> QED BY <1>1, <2>2
<1> QED BY <1>1, <1>2 DEF u, v

LEMMA TimesMonotone ==
    ASSUME NEW m \in Nat, NEW p \in Nat, NEW q \in Nat, p <= q
    PROVE  m * p <= m * q /\ m * p \in Nat /\ m * q \in Nat
<1>1. PICK d \in Nat : q = p + d
  <2>1. q - p \in Nat /\ q = p + (q - p)
    OBVIOUS
  <2> QED BY <2>1
<1>2. m * q = m * p + m * d /\ m * d \in Nat /\ m * p \in Nat
  BY <1>1
<1> QED BY <1>2

LEMMA HandedFacts ==
    ASSUME NEW g, GraphOK(g), NEW n, G!inBytes(g, n) # 0, NEW resp \in Shares(g)
    PROVE  /\ G!Inherited(g, resp, n) = SumFunctionOnSet(Handed(g, resp, n), G!In(g, n))
           /\ \A k \in G!In(g, n) :
                 /\ resp[k[1]] \in Nat /\ resp[k[1]] <= Scale
                 /\ g.edges[k].bytes * resp[k[1]] \in Nat
                 /\ Handed(g, resp, n)[k] = (g.edges[k].bytes * resp[k[1]]) \div G!inBytes(g, n)
                 /\ Handed(g, resp, n)[k] \in Nat
           /\ G!Inherited(g, resp, n) \in Nat
<1>1. G!Inherited(g, resp, n) = SumFunctionOnSet(Handed(g, resp, n), G!In(g, n))
  <2>1. /\ G!Inherited(g, resp, n) = G!SumFunction(Handed(g, resp, n))
        /\ DOMAIN Handed(g, resp, n) = G!In(g, n)
    BY DEF G!Inherited, Handed
  <2> QED BY <2>1, GraphSum
<1>2. ASSUME NEW k \in G!In(g, n)
      PROVE  /\ resp[k[1]] \in Nat /\ resp[k[1]] <= Scale
             /\ g.edges[k].bytes * resp[k[1]] \in Nat
             /\ Handed(g, resp, n)[k] = (g.edges[k].bytes * resp[k[1]]) \div G!inBytes(g, n)
             /\ Handed(g, resp, n)[k] \in Nat
  <2>1. k[1] \in g.nodes /\ g.edges[k].bytes \in Nat /\ G!inBytes(g, n) \in Nat
    BY InBytesFacts
  <2>2. resp[k[1]] \in 0 .. Scale
    BY <2>1 DEF Shares
  <2>3. resp[k[1]] \in Nat /\ resp[k[1]] <= Scale
    BY <2>2, GraphConstants
  <2>4. g.edges[k].bytes * resp[k[1]] \in Nat
    BY <2>1, <2>3, TimesMonotone
  <2>5. Handed(g, resp, n)[k] = (g.edges[k].bytes * resp[k[1]]) \div G!inBytes(g, n)
    BY DEF Handed
  <2>6. Handed(g, resp, n)[k] \in Nat
    BY <2>1, <2>4, <2>5, QuotientFacts
  <2> QED BY <2>3, <2>4, <2>5, <2>6
<1>3. SumFunctionOnSet(Handed(g, resp, n), G!In(g, n)) \in Nat
  BY <1>2, InBytesFacts, SumNat
<1> QED BY <1>1, <1>2, <1>3

\* A mean of shares is a share.
LEMMA InheritedBounded ==
    ASSUME NEW g, GraphOK(g), NEW n, G!inBytes(g, n) # 0, NEW resp \in Shares(g)
    PROVE  G!Inherited(g, resp, n) \in 0 .. Scale
<1> DEFINE I == G!In(g, n)
           total == G!inBytes(g, n)
           H == Handed(g, resp, n)
           B == BytesIn(g, n)
           U == [k \in I |-> total * H[k]]
           W == [k \in I |-> Scale * B[k]]
<1>1. /\ IsFiniteSet(I) /\ total \in Nat /\ total # 0 /\ total = SumFunctionOnSet(B, I)
      /\ \A k \in I : B[k] \in Nat /\ H[k] \in Nat
      /\ G!Inherited(g, resp, n) = SumFunctionOnSet(H, I) /\ G!Inherited(g, resp, n) \in Nat
  BY InBytesFacts, HandedFacts
<1>2. ASSUME NEW k \in I PROVE U[k] <= W[k] /\ U[k] \in Nat /\ W[k] \in Nat
  <2> DEFINE bytes == g.edges[k].bytes
             r == resp[k[1]]
  <2>1. bytes \in Nat /\ B[k] = bytes
    BY InBytesFacts
  <2>2. r \in Nat /\ r <= Scale /\ bytes * r \in Nat /\ H[k] = (bytes * r) \div total
    BY HandedFacts
  <2>3. U[k] = total * H[k] /\ W[k] = Scale * B[k]
    OBVIOUS
  <2> HIDE DEF bytes, r, total, H, B, U, W, I
  <2>4. total * H[k] <= bytes * r /\ total * H[k] \in Nat
    BY <1>1, <2>2, QuotientFacts
  <2>5. bytes * r <= bytes * Scale /\ bytes * Scale \in Nat
    BY <2>1, <2>2, GraphConstants, TimesMonotone
  <2>6. bytes * Scale = Scale * bytes
    BY <2>1, GraphConstants
  <2> QED BY <2>1, <2>2, <2>3, <2>4, <2>5, <2>6
<1>3. (\A k \in I : U[k] = total * H[k]) /\ (\A k \in I : W[k] = Scale * B[k])
  OBVIOUS
<1> HIDE DEF I, total, H, B, U, W
<1>4. Integral(U, I) /\ Integral(W, I) /\ Integral(H, I) /\ Integral(B, I)
  BY <1>1, <1>2 DEF Integral
<1>5. SumFunctionOnSet(U, I) <= SumFunctionOnSet(W, I)
  BY <1>1, <1>2, <1>4, SumMonotone
<1>6. SumFunctionOnSet(U, I) = total * SumFunctionOnSet(H, I)
  BY <1>1, <1>3, <1>4, SumTimes
<1>7. SumFunctionOnSet(W, I) = Scale * SumFunctionOnSet(B, I)
  BY <1>1, <1>3, <1>4, GraphConstants, SumTimes
<1>8. total * G!Inherited(g, resp, n) <= total * Scale
  <2>1. Scale * total = total * Scale
    BY <1>1, GraphConstants
  <2> QED BY <1>1, <1>5, <1>6, <1>7, <2>1
<1>9. G!Inherited(g, resp, n) <= Scale
  BY <1>1, <1>8, GraphConstants, TimesCancels
<1> QED BY <1>1, <1>9, GraphConstants

LEMMA InheritedMonotone ==
    ASSUME NEW g, GraphOK(g), NEW n, G!inBytes(g, n) # 0,
           NEW resp \in Shares(g), NEW more \in Shares(g), \A m \in g.nodes : resp[m] <= more[m]
    PROVE  G!Inherited(g, resp, n) <= G!Inherited(g, more, n)
<1> DEFINE I == G!In(g, n)
           H == Handed(g, resp, n)
           K == Handed(g, more, n)
<1>1. /\ IsFiniteSet(I) /\ G!inBytes(g, n) \in Nat
      /\ \A k \in I : k[1] \in g.nodes /\ g.edges[k].bytes \in Nat
  BY InBytesFacts
<1>2. ASSUME NEW k \in I PROVE H[k] <= K[k] /\ H[k] \in Nat /\ K[k] \in Nat
  <2>1. /\ resp[k[1]] \in Nat /\ g.edges[k].bytes * resp[k[1]] \in Nat
        /\ H[k] = (g.edges[k].bytes * resp[k[1]]) \div G!inBytes(g, n) /\ H[k] \in Nat
    BY HandedFacts
  <2>2. /\ more[k[1]] \in Nat /\ g.edges[k].bytes * more[k[1]] \in Nat
        /\ K[k] = (g.edges[k].bytes * more[k[1]]) \div G!inBytes(g, n) /\ K[k] \in Nat
    BY HandedFacts
  <2>3. g.edges[k].bytes * resp[k[1]] <= g.edges[k].bytes * more[k[1]]
    BY <1>1, <2>1, <2>2, TimesMonotone
  <2> HIDE DEF H, K
  <2> QED BY <1>1, <2>1, <2>2, <2>3, QuotientMonotone
<1>3. /\ G!Inherited(g, resp, n) = SumFunctionOnSet(H, I)
      /\ G!Inherited(g, more, n) = SumFunctionOnSet(K, I)
  BY HandedFacts
<1> HIDE DEF I, H, K
<1>4. Integral(H, I) /\ Integral(K, I)
  BY <1>2 DEF Integral
<1> QED BY <1>1, <1>2, <1>3, <1>4, SumMonotone

\* A round: from shares to shares, monotone, and not below the first.
LEMMA NextShareFacts ==
    ASSUME NEW g, GraphOK(g), NEW o, NEW n, NEW resp \in Shares(g)
    PROVE  /\ G!NextShare(g, o, resp, n) \in 0 .. Scale
           /\ n = o => G!NextShare(g, o, resp, n) = Scale
           /\ \A more \in Shares(g) : (\A m \in g.nodes : resp[m] <= more[m]) =>
                 G!NextShare(g, o, resp, n) <= G!NextShare(g, o, more, n)
<1>1. CASE n = o
  <2>1. \A s \in Shares(g) : G!NextShare(g, o, s, n) = Scale
    BY <1>1 DEF G!NextShare
  <2> QED BY <1>1, <2>1, GraphConstants
<1>2. CASE n # o /\ G!inBytes(g, n) = 0
  <2>1. \A s \in Shares(g) : G!NextShare(g, o, s, n) = 0
    BY <1>2 DEF G!NextShare
  <2> QED BY <1>2, <2>1, GraphConstants
<1>3. CASE n # o /\ G!inBytes(g, n) # 0
  <2>1. \A s \in Shares(g) : G!NextShare(g, o, s, n) = G!Inherited(g, s, n)
    BY <1>3 DEF G!NextShare
  <2>2. G!Inherited(g, resp, n) \in 0 .. Scale
    BY <1>3, InheritedBounded
  <2>3. \A more \in Shares(g) : (\A m \in g.nodes : resp[m] <= more[m]) =>
           G!Inherited(g, resp, n) <= G!Inherited(g, more, n)
    BY <1>3, InheritedMonotone
  <2> QED BY <1>3, <2>1, <2>2, <2>3
<1> QED BY <1>1, <1>2, <1>3

FirstRound(g, o) == [n \in g.nodes |-> IF n = o THEN Scale ELSE 0]

\* The rounds are what their recursion says.
LEMMA RoundsFacts ==
    ASSUME NEW g, GraphOK(g), NEW o
    PROVE  /\ G!Rounds(g, o)[0] = FirstRound(g, o)
           /\ \A i \in 1 .. MaxIterations :
                 G!Rounds(g, o)[i] = [n \in g.nodes |-> G!NextShare(g, o, G!Rounds(g, o)[i - 1], n)]
<1> DEFINE V == Shares(g)
           M == MaxIterations
           nil == FirstRound(g, o)
           Step(v) == [n \in g.nodes |-> G!NextShare(g, o, v, n)]
           D == [i \in 1 .. M |-> [v \in V |-> Step(v)]]
           Eq(f) == f = [i \in 0 .. M |-> IF i = 0 THEN [n \in g.nodes |-> IF n = o THEN Scale ELSE 0]
                                          ELSE [n \in g.nodes |-> G!NextShare(g, o, f[i - 1], n)]]
<1>1. G!Rounds(g, o) = CHOOSE f : Eq(f)
  BY DEF G!Rounds
<1>2. M \in Nat
  BY GraphConstants
<1>3. nil \in V
  BY GraphConstants DEF FirstRound, Shares
<1>4. \A v \in V : Step(v) \in V
  BY NextShareFacts DEF Shares
<1>5. D \in [1 .. M -> [V -> V]]
  BY <1>4
<1>6. PICK h \in [SUBSET (1 .. M) -> V] :
         \A s \in SUBSET (1 .. M) : h[s] = IF s = {} THEN nil ELSE D[Max(s)][h[s \ {Max(s)}]]
  <2> HIDE DEF D, V, M, nil
  <2>1. \E h \in [SUBSET (1 .. M) -> V] : SolvesLeft(h, nil, D, M)
    BY <1>2, <1>3, <1>5, FoldLeftExists
  <2> QED BY <2>1 DEF SolvesLeft
<1> DEFINE f == [i \in 0 .. M |-> h[1 .. i]]
<1>7. f[0] = nil
  <2>1. 1 .. 0 = {} /\ {} \in SUBSET (1 .. M) /\ 0 \in 0 .. M
    BY <1>2
  <2> HIDE DEF M, nil, D
  <2>2. h[1 .. 0] = nil
    BY <1>6, <2>1
  <2> QED BY <2>1, <2>2
<1>8. ASSUME NEW i \in 1 .. M PROVE f[i] = Step(f[i - 1])
  <2> DEFINE j == i - 1
  <2>1. j \in Nat /\ i = j + 1 /\ 1 .. i \in SUBSET (1 .. M) /\ 1 .. j \in SUBSET (1 .. M)
        /\ i \in 0 .. M /\ j \in 0 .. M
    BY <1>2
  <2> HIDE DEF j
  <2>2. Max(1 .. i) = i /\ (1 .. i) \ {i} = 1 .. j /\ 1 .. i # {}
    BY <2>1, Initials
  <2>3. h[1 .. i] = D[i][h[1 .. j]] /\ h[1 .. j] \in V
    <3> HIDE DEF D, nil, V, M
    <3> QED BY <1>6, <2>1, <2>2
  <2>4. h[1 .. i] = Step(h[1 .. j])
    <3> HIDE DEF Step, V, M
    <3> QED BY <2>3
  <2>5. f[i] = h[1 .. i] /\ f[j] = h[1 .. j]
    BY <2>1
  <2> QED BY <2>4, <2>5 DEF j
<1>9. Eq(f)
  <2>1. \A i \in 0 .. M : i # 0 => i \in 1 .. M
    BY <1>2
  <2>2. f = [i \in 0 .. M |-> IF i = 0 THEN nil ELSE Step(f[i - 1])]
    <3>1. f = [i \in 0 .. M |-> f[i]]
      OBVIOUS
    <3> HIDE DEF f, nil, Step
    <3> QED BY <1>7, <1>8, <2>1, <3>1
  <2> HIDE DEF f
  <2> QED BY <2>2 DEF FirstRound
<1> DEFINE r == CHOOSE w : Eq(w)
<1>10. Eq(r)
  <2> HIDE DEF f
  <2>1. \E w : Eq(w)
    BY <1>9
  <2> HIDE DEF Eq
  <2> QED BY <2>1
<1>11. G!Rounds(g, o) = r
  BY <1>1
<1> HIDE DEF r
<1>12. r[0] = nil /\ \A i \in 1 .. M : r[i] = Step(r[i - 1])
  <2>1. 0 \in 0 .. M /\ \A i \in 1 .. M : i \in 0 .. M /\ i # 0
    BY <1>2
  <2> QED BY <1>10, <2>1 DEF FirstRound
<1> QED BY <1>11, <1>12

\* On any graph, cyclic or not, shares stay in [0, 1] and never fall.
LEMMA SharesRise ==
    ASSUME NEW g, GraphOK(g), NEW o
    PROVE  \A i \in 1 .. MaxIterations, n \in g.nodes :
              /\ 0 <= G!Rounds(g, o)[i - 1][n]
              /\ G!Rounds(g, o)[i - 1][n] <= G!Rounds(g, o)[i][n]
              /\ G!Rounds(g, o)[i][n] <= Scale
<1> DEFINE r == G!Rounds(g, o)
           Step(v) == [n \in g.nodes |-> G!NextShare(g, o, v, n)]
           Rises(v) == /\ v \in Shares(g) /\ Step(v) \in Shares(g)
                       /\ \A n \in g.nodes : v[n] <= Step(v)[n]
           Good == {i \in Nat : i < MaxIterations => r[i + 1] = Step(r[i]) /\ Rises(r[i])}
<1>1. r[0] = FirstRound(g, o) /\ \A i \in 1 .. MaxIterations : r[i] = Step(r[i - 1])
  BY RoundsFacts
<1>2. ASSUME NEW v \in Shares(g)
      PROVE  Step(v) \in Shares(g) /\ \A n \in g.nodes : Step(v)[n] = G!NextShare(g, o, v, n)
  BY NextShareFacts DEF Shares
<1>3. MaxIterations \in Nat /\ Scale \in Nat
  BY GraphConstants
<1> HIDE DEF r
<1>4. \A i \in Nat : i < MaxIterations => r[i + 1] = Step(r[i])
  <2> SUFFICES ASSUME NEW i \in Nat, i < MaxIterations PROVE r[i + 1] = Step(r[i])
    OBVIOUS
  <2>1. i + 1 \in 1 .. MaxIterations /\ (i + 1) - 1 = i
    BY <1>3
  <2> HIDE DEF Step
  <2> QED BY <1>1, <2>1
<1>5. 0 \in Good
  <2>1. r[0] \in Shares(g) /\ \A n \in g.nodes : r[0][n] = IF n = o THEN Scale ELSE 0
    BY <1>1, <1>3 DEF Shares, FirstRound
  <2>2. \A n \in g.nodes : /\ G!NextShare(g, o, r[0], n) \in 0 .. Scale
                           /\ n = o => G!NextShare(g, o, r[0], n) = Scale
    BY <2>1, NextShareFacts
  <2>3. \A n \in g.nodes : r[0][n] <= Step(r[0])[n]
    BY <1>2, <1>3, <2>1, <2>2
  <2>4. Rises(r[0])
    BY <1>2, <2>1, <2>3
  <2> HIDE DEF Rises, Step
  <2> QED BY <1>4, <2>4
<1>6. ASSUME NEW i \in Nat, i \in Good PROVE i + 1 \in Good
  <2> SUFFICES ASSUME i + 1 < MaxIterations PROVE Rises(r[i + 1])
    BY <1>4
  <2>1. i < MaxIterations
    BY <1>3
  <2> DEFINE v == r[i]
             w == r[i + 1]
  <2>2. w = Step(v) /\ Rises(v)
    <3> HIDE DEF Rises, Step
    <3> QED BY <1>6, <2>1
  <2>3. v \in Shares(g) /\ w \in Shares(g) /\ \A n \in g.nodes : v[n] <= w[n]
    BY <2>2
  <2> HIDE DEF v, w
  <2>4. ASSUME NEW n \in g.nodes PROVE w[n] <= Step(w)[n]
    <3>1. w[n] = G!NextShare(g, o, v, n) /\ Step(w)[n] = G!NextShare(g, o, w, n)
      BY <1>2, <2>2, <2>3
    <3>2. G!NextShare(g, o, v, n) <= G!NextShare(g, o, w, n)
      BY <2>3, NextShareFacts
    <3> QED BY <3>1, <3>2
  <2>5. Rises(w)
    BY <1>2, <2>3, <2>4
  <2> QED BY <2>5 DEF w
<1>7. Nat \subseteq Good
  <2> HIDE DEF Good
  <2> QED BY <1>5, <1>6, Induction
<1>8. ASSUME NEW i \in 1 .. MaxIterations, NEW n \in g.nodes
      PROVE  0 <= r[i - 1][n] /\ r[i - 1][n] <= r[i][n] /\ r[i][n] <= Scale
  <2> DEFINE v == r[i - 1]
  <2>1. i - 1 \in Nat /\ i - 1 < MaxIterations /\ (i - 1) + 1 = i
    BY <1>3
  <2>2. i - 1 \in Good
    BY <1>7, <2>1
  <2>3. r[i] = Step(v) /\ Rises(v)
    <3> HIDE DEF Rises, Step
    <3> QED BY <2>1, <2>2
  <2>4. /\ v[n] \in 0 .. Scale /\ Step(v)[n] \in 0 .. Scale /\ v[n] <= Step(v)[n]
    <3> HIDE DEF Step, v
    <3> QED BY <2>3 DEF Shares
  <2> HIDE DEF Step, v
  <2> QED BY <1>3, <2>3, <2>4 DEF v
<1> QED BY <1>8 DEF r

LEMMA RoundsOrdered ==
    ASSUME NEW g, GraphOK(g), NEW o
    PROVE  \A i \in 0 .. MaxIterations :
              /\ G!Rounds(g, o)[i] \in Shares(g)
              /\ \A n \in g.nodes : G!Rounds(g, o)[i][n] <= G!Rounds(g, o)[MaxIterations][n]
<1> DEFINE r == G!Rounds(g, o)
           M == MaxIterations
           Typed == {i \in Nat : i <= M => r[i] \in Shares(g)}
           Below == {d \in Nat : d <= M => \A n \in g.nodes : r[M - d][n] <= r[M][n]}
<1>1. M \in Nat /\ Scale \in Nat
  BY GraphConstants
<1>2. /\ r[0] = FirstRound(g, o)
      /\ \A i \in 1 .. M : r[i] = [n \in g.nodes |-> G!NextShare(g, o, r[i - 1], n)]
  BY RoundsFacts
<1>3. \A i \in 1 .. M, n \in g.nodes : r[i - 1][n] <= r[i][n]
  BY SharesRise
<1> HIDE DEF r, M
<1>4. Nat \subseteq Typed
  <2>1. 0 \in Typed
    BY <1>1, <1>2 DEF FirstRound, Shares
  <2>2. ASSUME NEW i \in Nat, i \in Typed PROVE i + 1 \in Typed
    <3> SUFFICES ASSUME i + 1 <= M PROVE r[i + 1] \in Shares(g)
      OBVIOUS
    <3>1. i + 1 \in 1 .. M /\ (i + 1) - 1 = i /\ i <= M
      BY <1>1
    <3>2. r[i + 1] = [n \in g.nodes |-> G!NextShare(g, o, r[i], n)]
      BY <1>2, <3>1
    <3>3. r[i] \in Shares(g)
      BY <2>2, <3>1
    <3>4. \A n : G!NextShare(g, o, r[i], n) \in 0 .. Scale
      BY <3>3, NextShareFacts
    <3> QED BY <3>2, <3>4 DEF Shares
  <2> HIDE DEF Typed
  <2> QED BY <2>1, <2>2, Induction
<1>5. \A i \in 0 .. M, n \in g.nodes : r[i][n] \in Nat
  BY <1>1, <1>4 DEF Shares
<1>6. Nat \subseteq Below
  <2>1. 0 \in Below
    <3>1. M - 0 = M /\ M \in 0 .. M
      BY <1>1
    <3> QED BY <1>5, <3>1
  <2>2. ASSUME NEW d \in Nat, d \in Below PROVE d + 1 \in Below
    <3> SUFFICES ASSUME d + 1 <= M, NEW n \in g.nodes PROVE r[M - (d + 1)][n] <= r[M][n]
      OBVIOUS
    <3> DEFINE i == M - d
    <3>1. i \in 1 .. M /\ i - 1 = M - (d + 1) /\ d <= M /\ i \in 0 .. M /\ i - 1 \in 0 .. M /\ M \in 0 .. M
      BY <1>1
    <3>2. r[i][n] <= r[M][n]
      BY <2>2, <3>1
    <3> HIDE DEF i
    <3>3. r[i - 1][n] <= r[i][n]
      BY <1>3, <3>1
    <3>4. r[i - 1][n] \in Nat /\ r[i][n] \in Nat /\ r[M][n] \in Nat
      BY <1>5, <3>1
    <3>5. r[i - 1][n] <= r[M][n]
      BY <3>2, <3>3, <3>4
    <3> QED BY <3>1, <3>5
  <2> HIDE DEF Below
  <2> QED BY <2>1, <2>2, Induction
<1>7. ASSUME NEW i \in 0 .. M PROVE r[i] \in Shares(g) /\ \A n \in g.nodes : r[i][n] <= r[M][n]
  <2>1. i \in Nat /\ i <= M /\ M - i \in Nat /\ M - i <= M /\ M - (M - i) = i
    BY <1>1
  <2>2. i \in Typed /\ M - i \in Below
    BY <1>4, <1>6, <2>1
  <2> QED BY <2>1, <2>2
<1> QED BY <1>7 DEF r, M

\* One round for several origins at once.
Held(Q, g, i, n) == [o \in Q |-> G!Rounds(g, o)[i][n]]

LEMMA RoundForRoots ==
    ASSUME NEW g, GraphOK(g), NEW Q, IsFiniteSet(Q), \A o \in Q : G!inBytes(g, o) = 0,
           NEW i \in Nat, i + 1 <= MaxIterations, NEW n \in g.nodes, G!inBytes(g, n) # 0,
           \A m \in g.nodes : SumFunctionOnSet(Held(Q, g, i, m), Q) <= Scale
    PROVE  SumFunctionOnSet(Held(Q, g, i + 1, n), Q) <= Scale
<1> DEFINE I == G!In(g, n)
           total == G!inBytes(g, n)
           F == [o \in Q |-> Handed(g, G!Rounds(g, o)[i], n)]
           H == Held(Q, g, i + 1, n)
           C == [k \in I |-> [o \in Q |-> F[o][k]]]
           K == [k \in I |-> SumFunctionOnSet(C[k], Q)]
           B == BytesIn(g, n)
           U == [k \in I |-> total * K[k]]
           W == [k \in I |-> Scale * B[k]]
<1>1. /\ i + 1 \in 1 .. MaxIterations /\ (i + 1) - 1 = i /\ i \in 0 .. MaxIterations
      /\ Scale \in Nat
  BY GraphConstants
<1>2. \A o \in Q : G!Rounds(g, o)[i] \in Shares(g)
  BY <1>1, RoundsOrdered
<1>3. /\ IsFiniteSet(I) /\ total \in Nat /\ total # 0 /\ total = SumFunctionOnSet(B, I)
      /\ \A k \in I : B[k] \in Nat /\ B[k] = g.edges[k].bytes /\ k[1] \in g.nodes
  BY InBytesFacts
<1>4. ASSUME NEW o \in Q
      PROVE  /\ H[o] = SumFunctionOnSet(F[o], I)
             /\ \A k \in I : /\ F[o][k] \in Nat
                             /\ total * F[o][k] <= B[k] * G!Rounds(g, o)[i][k[1]]
                             /\ total * F[o][k] \in Nat /\ B[k] * G!Rounds(g, o)[i][k[1]] \in Nat
  <2> DEFINE resp == G!Rounds(g, o)[i]
  <2>1. resp \in Shares(g) /\ n # o
    BY <1>2
  <2>2. H[o] = G!NextShare(g, o, resp, n)
    <3>1. \A l \in 1 .. MaxIterations :
             G!Rounds(g, o)[l] = [m \in g.nodes |-> G!NextShare(g, o, G!Rounds(g, o)[l - 1], m)]
      BY RoundsFacts
    <3>2. G!Rounds(g, o)[i + 1] = [m \in g.nodes |-> G!NextShare(g, o, resp, m)]
      BY <1>1, <3>1
    <3> HIDE DEF resp
    <3> QED BY <3>2 DEF Held
  <2>3. G!NextShare(g, o, resp, n) = G!Inherited(g, resp, n)
    BY <2>1 DEF G!NextShare
  <2>4. F[o] = Handed(g, resp, n)
    OBVIOUS
  <2> HIDE DEF resp, F, H, I
  <2>5. G!Inherited(g, resp, n) = SumFunctionOnSet(Handed(g, resp, n), I)
    BY <2>1, HandedFacts DEF I
  <2>6. ASSUME NEW k \in I
        PROVE  /\ Handed(g, resp, n)[k] \in Nat
               /\ total * Handed(g, resp, n)[k] <= B[k] * resp[k[1]]
               /\ total * Handed(g, resp, n)[k] \in Nat /\ B[k] * resp[k[1]] \in Nat
    <3> DEFINE p == g.edges[k].bytes * resp[k[1]]
    <3>1. p \in Nat /\ Handed(g, resp, n)[k] = p \div total
      BY <2>1, HandedFacts DEF I
    <3>2. p = B[k] * resp[k[1]]
      BY <1>3
    <3> HIDE DEF p, total
    <3>3. p \div total \in Nat /\ total * (p \div total) <= p /\ total * (p \div total) \in Nat
      BY <1>3, <3>1, QuotientFacts
    <3> QED BY <3>1, <3>2, <3>3
  <2> QED BY <2>2, <2>3, <2>4, <2>5, <2>6 DEF resp
<1>5. /\ \A k \in I : K[k] = SumFunctionOnSet(C[k], Q)
      /\ \A o \in Q, k \in I : C[k][o] = F[o][k]
  <2> HIDE DEF F
  <2> QED OBVIOUS
<1>6. SumFunctionOnSet(H, Q) = SumFunctionOnSet(K, I)
  <2>1. \A o \in Q : Integral(F[o], I) /\ H[o] = SumFunctionOnSet(F[o], I)
    <3> HIDE DEF F, H, I
    <3> QED BY <1>4 DEF Integral
  <2> HIDE DEF F, H, I, K, C
  <2>2. Matrix(F, C, H, K, Q, I) /\ IsFiniteSet(I)
    BY <1>3, <1>5, <2>1 DEF Matrix
  <2> QED BY <2>2, SumExchange
<1>7. ASSUME NEW k \in I
      PROVE  K[k] \in Nat /\ U[k] <= W[k] /\ U[k] \in Nat /\ W[k] \in Nat
  <2> DEFINE A == [o \in Q |-> F[o][k]]
             L == [o \in Q |-> total * F[o][k]]
             N == [o \in Q |-> B[k] * G!Rounds(g, o)[i][k[1]]]
             Z == Held(Q, g, i, k[1])
  <2>1. U[k] = total * K[k] /\ W[k] = Scale * B[k] /\ K[k] = SumFunctionOnSet(A, Q)
    OBVIOUS
  <2>2. \A o \in Q : /\ A[o] \in Nat /\ L[o] = total * A[o] /\ L[o] <= N[o]
                     /\ L[o] \in Nat /\ N[o] \in Nat
    <3> HIDE DEF F, total, B
    <3> QED BY <1>4
  <2>3. \A o \in Q : N[o] = B[k] * Z[o] /\ Z[o] \in Nat
    <3>1. \A o \in Q : Z[o] = G!Rounds(g, o)[i][k[1]]
      BY DEF Held
    <3>2. \A o \in Q : G!Rounds(g, o)[i][k[1]] \in 0 .. Scale
      BY <1>2, <1>3 DEF Shares
    <3> HIDE DEF Z, B
    <3> QED BY <1>1, <3>1, <3>2
  <2>4. SumFunctionOnSet(Z, Q) <= Scale
    BY <1>3
  <2> HIDE DEF A, L, N, Z, F, C, K, U, W, B, total, I
  <2>5. Integral(A, Q) /\ Integral(L, Q) /\ Integral(N, Q) /\ Integral(Z, Q)
    BY <2>2, <2>3 DEF Integral
  <2>6. SumFunctionOnSet(L, Q) = total * SumFunctionOnSet(A, Q)
    BY <1>3, <2>2, <2>5, SumTimes
  <2>7. SumFunctionOnSet(N, Q) = B[k] * SumFunctionOnSet(Z, Q)
    BY <1>3, <2>3, <2>5, SumTimes
  <2>8. SumFunctionOnSet(L, Q) <= SumFunctionOnSet(N, Q)
    BY <2>2, <2>5, SumMonotone
  <2>9. SumFunctionOnSet(Z, Q) \in Nat /\ SumFunctionOnSet(A, Q) \in Nat
    BY <2>2, <2>3, SumNat
  <2>10. B[k] * SumFunctionOnSet(Z, Q) <= B[k] * Scale /\ B[k] * Scale \in Nat
         /\ B[k] * SumFunctionOnSet(Z, Q) \in Nat
    BY <1>1, <1>3, <2>4, <2>9, TimesMonotone
  <2>11. total * SumFunctionOnSet(A, Q) \in Nat
    BY <1>3, <2>9, TimesMonotone
  <2>12. B[k] * Scale = Scale * B[k]
    BY <1>1, <1>3
  <2> QED BY <2>1, <2>6, <2>7, <2>8, <2>9, <2>10, <2>11, <2>12
<1>8. (\A k \in I : U[k] = total * K[k]) /\ (\A k \in I : W[k] = Scale * B[k])
  OBVIOUS
<1> HIDE DEF I, total, F, C, H, K, B, U, W
<1>9. Integral(U, I) /\ Integral(W, I) /\ Integral(K, I) /\ Integral(B, I)
  BY <1>3, <1>7 DEF Integral
<1>10. SumFunctionOnSet(U, I) <= SumFunctionOnSet(W, I)
  BY <1>3, <1>7, <1>9, SumMonotone
<1>11. SumFunctionOnSet(U, I) = total * SumFunctionOnSet(K, I)
  BY <1>3, <1>8, <1>9, SumTimes
<1>12. SumFunctionOnSet(W, I) = Scale * SumFunctionOnSet(B, I)
  BY <1>1, <1>3, <1>8, <1>9, SumTimes
<1>13. SumFunctionOnSet(K, I) \in Nat
  BY <1>3, <1>7, SumNat
<1>14. total * SumFunctionOnSet(K, I) <= total * Scale
  <2>1. Scale * total = total * Scale
    BY <1>1, <1>3
  <2> QED BY <1>3, <1>10, <1>11, <1>12, <2>1
<1>15. SumFunctionOnSet(K, I) <= Scale
  BY <1>1, <1>3, <1>13, <1>14, TimesCancels
<1> QED BY <1>6, <1>15 DEF H

\* Together, origins nobody sends to hold no more than all of a node's traffic.
LEMMA RootsShare ==
    ASSUME NEW g, GraphOK(g), NEW Q, IsFiniteSet(Q), \A o \in Q : G!inBytes(g, o) = 0
    PROVE  \A i \in 0 .. MaxIterations, n \in g.nodes : SumFunctionOnSet(Held(Q, g, i, n), Q) <= Scale
<1> DEFINE M == MaxIterations
           Good == {i \in Nat : i <= M =>
                       \A n \in g.nodes : SumFunctionOnSet(Held(Q, g, i, n), Q) <= Scale}
<1>1. M \in Nat /\ Scale \in Nat
  BY GraphConstants
<1>2. ASSUME NEW i, NEW n,
             \A o \in Q : G!Rounds(g, o)[i][n] = IF o = n THEN Scale ELSE 0
      PROVE  SumFunctionOnSet(Held(Q, g, i, n), Q) <= Scale
  <2>1. \A o \in Q : Held(Q, g, i, n)[o] = IF o = n THEN Scale ELSE 0
    BY <1>2 DEF Held
  <2>2. SumFunctionOnSet(Held(Q, g, i, n), Q) \in 0 .. Scale
    BY <1>1, <2>1, SumSingle
  <2> QED BY <1>1, <2>2
<1>3. 0 \in Good
  <2>1. \A o \in Q : G!Rounds(g, o)[0] = FirstRound(g, o)
    BY RoundsFacts
  <2>2. \A n \in g.nodes, o \in Q : G!Rounds(g, o)[0][n] = IF o = n THEN Scale ELSE 0
    BY <2>1 DEF FirstRound
  <2> QED BY <1>2, <2>2
<1>4. ASSUME NEW i \in Nat, i \in Good PROVE i + 1 \in Good
  <2> SUFFICES ASSUME i + 1 <= M, NEW n \in g.nodes
               PROVE  SumFunctionOnSet(Held(Q, g, i + 1, n), Q) <= Scale
    OBVIOUS
  <2>1. /\ i + 1 \in 1 .. M /\ (i + 1) - 1 = i /\ i \in 0 .. M
        /\ \A m \in g.nodes : SumFunctionOnSet(Held(Q, g, i, m), Q) <= Scale
    BY <1>1, <1>4
  <2>2. CASE G!inBytes(g, n) # 0
    BY <2>1, <2>2, RoundForRoots
  <2>3. CASE G!inBytes(g, n) = 0
    <3>1. ASSUME NEW o \in Q PROVE G!Rounds(g, o)[i + 1][n] = IF o = n THEN Scale ELSE 0
      <4> DEFINE resp == G!Rounds(g, o)[i]
      <4>0. \A l \in 1 .. M :
               G!Rounds(g, o)[l] = [m \in g.nodes |-> G!NextShare(g, o, G!Rounds(g, o)[l - 1], m)]
        BY RoundsFacts
      <4>2. G!Rounds(g, o)[i + 1] = [m \in g.nodes |-> G!NextShare(g, o, resp, m)]
        BY <2>1, <4>0
      <4> HIDE DEF resp
      <4>1. G!Rounds(g, o)[i + 1][n] = G!NextShare(g, o, resp, n)
        BY <4>2
      <4> QED BY <2>3, <4>1 DEF G!NextShare
    <3> QED BY <1>2, <3>1
  <2> QED BY <2>2, <2>3
<1>5. Nat \subseteq Good
  <2> HIDE DEF Good
  <2> QED BY <1>3, <1>4, Induction
<1> QED BY <1>1, <1>5

-----------------------------------------------------------------------------
(* The snapshotter only builds such graphs.                                *)

Built(g) == \E nodes, edges, result : /\ g = [nodes |-> nodes, edges |-> edges, of |-> result]
                                      /\ GraphOK(g)

GraphInv ==
    /\ table \subseteq Row /\ rows \subseteq Row
    /\ phase = "building" => Built(building)
    /\ current # None => Built(current)
    /\ reader # G!Idle => \E g, todo, bill : /\ reader = [graph |-> g, todo |-> todo, bill |-> bill]
                                            /\ Built(g)

LEMMA RowAdded ==
    ASSUME NEW g, Built(g), NEW r \in Row PROVE Built(G!AddEdgeRow(g, r))
<1> DEFINE k == <<r.src, G!dstNode(r)>>
           e == IF k \in DOMAIN g.edges THEN g.edges[k] ELSE G!NoEdge
           more == [bytes |-> e.bytes + r.bytes,
                    byType |-> [e.byType EXCEPT ![r.type] = @ + r.cost]]
           edges == [l \in DOMAIN g.edges \cup {k} |-> IF l = k THEN more ELSE g.edges[l]]
           nodes == g.nodes \cup {k[1], k[2]}
<1>1. GraphOK(g) /\ \E n, f, result : g = [nodes |-> n, edges |-> f, of |-> result]
  BY DEF Built
<1>2. G!AddEdgeRow(g, r) = [g EXCEPT !.nodes = nodes, !.edges = edges]
  BY DEF G!AddEdgeRow
<1>3. IsFiniteSet(DOMAIN g.edges \cup {k})
  BY <1>1, FS_AddElement DEF GraphOK
<1>4. e.bytes \in Nat /\ r.bytes \in Nat
  BY <1>1, GraphConstants DEF GraphOK, G!NoEdge
<1>5. more.bytes \in Nat
  BY <1>4
<1>6. k[1] \in nodes
  OBVIOUS
<1> HIDE DEF k, e, more
<1>7. DOMAIN edges = DOMAIN g.edges \cup {k}
      /\ \A l \in DOMAIN edges : l[1] \in nodes /\ edges[l].bytes \in Nat
  BY <1>1, <1>5, <1>6 DEF GraphOK
<1> HIDE DEF nodes, edges
<1>8. G!AddEdgeRow(g, r) = [nodes |-> nodes, edges |-> edges, of |-> g.of]
  BY <1>1, <1>2
<1>9. GraphOK(G!AddEdgeRow(g, r))
  BY <1>3, <1>7, <1>8 DEF GraphOK
<1> QED BY <1>8, <1>9 DEF Built

LEMMA StepKeepsGraphInv ==
    ASSUME GraphInv, G!Next \/ UNCHANGED graphVars PROVE GraphInv'
<1> USE DEF GraphInv
<1>1. CASE UNCHANGED graphVars
  BY <1>1 DEF graphVars
<1>2. CASE G!TableChanges
  BY <1>2 DEF G!TableChanges, G!SymDiff
<1>3. CASE G!Query
  BY <1>3 DEF G!Query
<1>4. CASE G!QueryFails
  BY <1>4 DEF G!QueryFails
<1>5. CASE G!QueryOk
  <2>1. Built(G!New(rows))
    <3>1. IsFiniteSet({}) /\ DOMAIN <<>> = {}
      BY FS_EmptySet
    <3> QED BY <3>1 DEF G!New, Built, GraphOK
  <2> QED BY <1>5, <2>1 DEF G!QueryOk
<1>6. CASE G!BuildRow
  BY <1>6, RowAdded DEF G!BuildRow
<1>7. CASE G!Store
  BY <1>7 DEF G!Store
<1>8. CASE G!LoadGraph
  BY <1>8 DEF G!LoadGraph
<1>9. CASE G!AttributeNext
  <2>1. PICK g, todo, bill : reader = [graph |-> g, todo |-> todo, bill |-> bill] /\ Built(g)
    BY <1>9 DEF G!AttributeNext
  <2>2. \E td, bl : reader' = [reader EXCEPT !.todo = td, !.bill = bl]
    BY <1>9 DEF G!AttributeNext
  <2>3. \E td, bl : reader' = [graph |-> g, todo |-> td, bill |-> bl]
    BY <2>1, <2>2
  <2> QED BY <1>9, <2>1, <2>3 DEF G!AttributeNext
<1>10. CASE G!Answered
  BY <1>10 DEF G!Answered
<1> QED BY <1>1, <1>2, <1>3, <1>4, <1>5, <1>6, <1>7, <1>8, <1>9, <1>10 DEF G!Next

\* AttributeFrom, attribution.go:92-94: for every graph the snapshotter can
\* build, cyclic or not, every origin and every precision, the shares of the
\* power iteration stay in [0, 1] and never fall from one round to the next.
THEOREM AttributionSharesGrow == CostsSpec => []SharesGrow
<1>1. CostsInit => GraphInv
  <2> SUFFICES ASSUME G!Init PROVE GraphInv
    BY DEF CostsInit
  <2>1. /\ rows = {} /\ phase = "idle" /\ current = None /\ reader = G!Idle
    BY DEF G!Init
  <2>2. table \subseteq Row
    BY DEF G!Init, G!kSubset
  <2> QED BY <2>1, <2>2 DEF GraphInv
<1>2. GraphInv /\ [CostsNext]_allVars => GraphInv'
  <2> SUFFICES ASSUME GraphInv, [CostsNext]_allVars PROVE GraphInv'
    OBVIOUS
  <2>1. G!Next \/ UNCHANGED graphVars
    BY DEF CostsNext, allVars
  <2> QED BY <2>1, StepKeepsGraphInv
<1>3. GraphInv => SharesGrow
  <2> SUFFICES ASSUME GraphInv, reader # G!Idle, NEW o
               PROVE  \A i \in 1 .. MaxIterations, n \in reader.graph.nodes :
                         /\ 0 <= G!Rounds(reader.graph, o)[i - 1][n]
                         /\ G!Rounds(reader.graph, o)[i - 1][n] <= G!Rounds(reader.graph, o)[i][n]
                         /\ G!Rounds(reader.graph, o)[i][n] <= Scale
    BY DEF SharesGrow, G!SharesGrow
  <2>1. GraphOK(reader.graph)
    BY DEF GraphInv, Built
  <2> QED BY <2>1, SharesRise
<1> QED
  BY <1>1, <1>2, <1>3, PTL DEF CostsSpec

-----------------------------------------------------------------------------
(* AttributeAll: what the roots pay.                                        *)

CostsOK(g) == \A k \in DOMAIN g.edges : g.edges[k].byType \in [G!TrafficType -> Nat]
EdgeCosts(g) == [k \in DOMAIN g.edges |-> G!CrossZoneCost(g.edges[k])]
EdgeTotal(g) == SumFunctionOnSet(EdgeCosts(g), DOMAIN g.edges)

TypeCosts(e) == [t \in G!CrossZoneCharged |-> e.byType[t]]

LEMMA CrossZoneFacts ==
    ASSUME NEW e, e.byType \in [G!TrafficType -> Nat]
    PROVE  /\ \A t \in G!CrossZoneCharged : TypeCosts(e)[t] = e.byType[t] /\ TypeCosts(e)[t] \in Nat
           /\ G!CrossZoneCost(e) = SumFunctionOnSet(TypeCosts(e), G!CrossZoneCharged)
           /\ G!CrossZoneCost(e) \in Nat /\ IsFiniteSet(G!CrossZoneCharged)
<1>1. IsFiniteSet(G!CrossZoneCharged)
  <2>1. IsFiniteSet({"cross_az"} \cup {"cross_region"})
    BY FS_Singleton, FS_Union
  <2>2. G!CrossZoneCharged = {"cross_az"} \cup {"cross_region"}
    BY DEF G!CrossZoneCharged
  <2> QED BY <2>1, <2>2
<1>2. \A t \in G!CrossZoneCharged : TypeCosts(e)[t] = e.byType[t] /\ TypeCosts(e)[t] \in Nat
  BY DEF TypeCosts, G!TrafficType
<1>3. G!CrossZoneCost(e) = SumFunctionOnSet(TypeCosts(e), G!CrossZoneCharged)
  <2>1. /\ G!CrossZoneCost(e) = G!SumFunction(TypeCosts(e))
        /\ DOMAIN TypeCosts(e) = G!CrossZoneCharged
    BY DEF G!CrossZoneCost, TypeCosts
  <2> QED BY <2>1, GraphSum
<1> QED BY <1>1, <1>2, <1>3, SumNat

LEMMA EdgeCostFacts ==
    ASSUME NEW g, GraphOK(g), CostsOK(g)
    PROVE  /\ IsFiniteSet(DOMAIN g.edges)
           /\ \A k \in DOMAIN g.edges : /\ EdgeCosts(g)[k] = G!CrossZoneCost(g.edges[k])
                                        /\ EdgeCosts(g)[k] \in Nat /\ k[1] \in g.nodes
           /\ EdgeTotal(g) \in Nat
<1>1. IsFiniteSet(DOMAIN g.edges) /\ \A k \in DOMAIN g.edges : k[1] \in g.nodes
  BY DEF GraphOK
<1>2. \A k \in DOMAIN g.edges : /\ EdgeCosts(g)[k] = G!CrossZoneCost(g.edges[k])
                                /\ EdgeCosts(g)[k] \in Nat
  BY CrossZoneFacts DEF CostsOK, EdgeCosts
<1> QED BY <1>1, <1>2, SumNat DEF EdgeTotal

\* The iteration ends in some round, and no later one has less.
LEMMA ResponsibilityFacts ==
    ASSUME NEW g, GraphOK(g), NEW o
    PROVE  /\ G!Responsibility(g, o) \in Shares(g)
           /\ \A n \in g.nodes : G!Responsibility(g, o)[n] <= G!Rounds(g, o)[MaxIterations][n]
<1> DEFINE r == G!Rounds(g, o)
           Settled(i) == \A n \in g.nodes : r[i][n] - r[i - 1][n] \in (1 - Epsilon) .. (Epsilon - 1)
           ends == {i \in 1 .. MaxIterations : Settled(i)} \cup {MaxIterations}
<1>1. MaxIterations \in Nat /\ MaxIterations # 0
  BY CostsAssumption DEF G!ConstantsOK
<1>2. G!Responsibility(g, o) = r[G!Min(ends)]
  BY DEF G!Responsibility
<1>3. ends \in SUBSET Nat /\ ends # {} /\ ends \subseteq 0 .. MaxIterations
  BY <1>1
<1> HIDE DEF ends
<1>4. \E i \in ends : \A j \in ends : i <= j
  BY <1>3, LeastNat
<1>5. G!Min(ends) \in ends
  BY <1>4 DEF G!Min
<1>6. G!Min(ends) \in 0 .. MaxIterations
  BY <1>3, <1>5
<1> QED BY <1>2, <1>6, RoundsOrdered

\* What one origin is charged: its share of every edge's source.
Charges(g, o) ==
    [k \in DOMAIN g.edges |-> G!Responsibility(g, o)[k[1]] * G!CrossZoneCost(g.edges[k])]

LEMMA ChargeFacts ==
    ASSUME NEW g, GraphOK(g), CostsOK(g), NEW o
    PROVE  /\ \A k \in DOMAIN g.edges :
                 /\ Charges(g, o)[k] = G!Responsibility(g, o)[k[1]] * EdgeCosts(g)[k]
                 /\ Charges(g, o)[k] \in Nat
                 /\ G!Responsibility(g, o)[k[1]] \in Nat
           /\ G!AttributeFrom(g, o).total
                 = G!round2(SumFunctionOnSet(Charges(g, o), DOMAIN g.edges))
           /\ SumFunctionOnSet(Charges(g, o), DOMAIN g.edges) \in Nat
<1> DEFINE resp == G!Responsibility(g, o)
           E == DOMAIN g.edges
           X == G!Out(g, o)
           Over(T) == [k \in T |-> resp[k[1]] * G!CrossZoneCost(g.edges[k])]
           C == Charges(g, o)
<1>1. ASSUME NEW k \in E
      PROVE  C[k] = resp[k[1]] * EdgeCosts(g)[k] /\ C[k] \in Nat /\ resp[k[1]] \in Nat
  <2>1. EdgeCosts(g)[k] = G!CrossZoneCost(g.edges[k]) /\ EdgeCosts(g)[k] \in Nat /\ k[1] \in g.nodes
    BY EdgeCostFacts
  <2>2. resp[k[1]] \in 0 .. Scale
    BY <2>1, ResponsibilityFacts DEF Shares
  <2>3. resp[k[1]] \in Nat
    BY <2>2, GraphConstants
  <2>4. C[k] = resp[k[1]] * EdgeCosts(g)[k]
    BY <2>1 DEF Charges
  <2> HIDE DEF resp, C
  <2>5. resp[k[1]] * EdgeCosts(g)[k] \in Nat
    BY <2>1, <2>3, TimesMonotone
  <2> QED BY <2>3, <2>4, <2>5
<1>2. X \subseteq E /\ IsFiniteSet(E) /\ IsFiniteSet(X) /\ IsFiniteSet(E \ X)
  <2>1. X \subseteq E /\ IsFiniteSet(E)
    BY DEF G!Out, GraphOK
  <2> QED BY <2>1, FS_Subset
<1>3. ASSUME NEW T, T \subseteq E PROVE G!SumFunction(Over(T)) = SumFunctionOnSet(C, T)
  <2> DEFINE F == Over(T)
  <2>1. DOMAIN F = T
    OBVIOUS
  <2>2. \A k \in T : F[k] = C[k]
    BY <1>3 DEF Charges
  <2>3. IsFiniteSet(T)
    BY <1>2, <1>3, FS_Subset
  <2>4. \A k \in T : C[k] \in Int
    <3> HIDE DEF C
    <3> QED BY <1>1, <1>3
  <2> HIDE DEF F, C
  <2>5. Integral(F, T)
    BY <2>2, <2>4 DEF Integral
  <2>6. SumFunctionOnSet(F, T) = SumFunctionOnSet(C, T)
    BY <2>2, <2>3, <2>5, SumSame
  <2>7. G!SumFunction(F) = SumFunctionOnSet(F, T)
    BY <2>1, GraphSum
  <2> QED BY <2>6, <2>7 DEF F
<1>4. G!AttributeFrom(g, o).total
        = G!round2(G!SumFunction(Over(X)) + G!SumFunction(Over(E \ X)))
  BY DEF G!AttributeFrom
<1>5. G!SumFunction(Over(X)) = SumFunctionOnSet(C, X)
      /\ G!SumFunction(Over(E \ X)) = SumFunctionOnSet(C, E \ X)
  <2> HIDE DEF Over, C, X
  <2> QED BY <1>2, <1>3
<1>6. SumFunctionOnSet(C, E) = SumFunctionOnSet(C, X) + SumFunctionOnSet(C, E \ X)
  <2> HIDE DEF C, X
  <2>1. Integral(C, E)
    BY <1>1 DEF Integral
  <2> QED BY <1>2, <2>1, SumSplit
<1> HIDE DEF Over, C
<1>7. G!AttributeFrom(g, o).total = G!round2(SumFunctionOnSet(C, E))
  BY <1>4, <1>5, <1>6
<1>8. SumFunctionOnSet(C, E) \in Nat
  BY <1>1, <1>2, SumNat
<1> QED BY <1>1, <1>7, <1>8 DEF C

\* Rounding to the nearest cent adds at most half a cent.
LEMMA CentFacts == G!cent \in Nat \ {0}
<1>1. Cent \in Nat \ {0} /\ Scale \in Nat \ {0}
  BY CostsAssumption DEF G!ConstantsOK
<1>2. \A i, j \in Nat \ {0} : i * j \in Nat \ {0}
  OBVIOUS
<1> QED BY <1>1, <1>2 DEF G!cent

LEMMA RoundAddsHalf ==
    ASSUME NEW v \in Nat
    PROVE  G!round2(v) \in Nat /\ 2 * G!round2(v) <= 2 * v + G!cent
<1> DEFINE d == G!cent
           q == (2 * v + d) \div (2 * d)
<1>1. d \in Nat \ {0} /\ G!round2(v) = q * d
  BY CentFacts DEF G!round2
<1> HIDE DEF d
<1>2. q \in Nat /\ q * (2 * d) <= 2 * v + d
  <2>1. 2 * v + d \in Nat /\ 2 * d \in Nat \ {0}
    BY <1>1
  <2> QED BY <2>1, QuotientFacts
<1> HIDE DEF q
<1>3. q * d \in Nat /\ 2 * (q * d) = q * (2 * d)
  BY <1>1, <1>2
<1> QED BY <1>1, <1>2, <1>3 DEF d

\* The same amount for each member of a set.
LEMMA SumConstant ==
    ASSUME NEW Q, IsFiniteSet(Q), NEW d \in Nat
    PROVE  SumFunctionOnSet([o \in Q |-> d], Q) = Cardinality(Q) * d
<1> DEFINE One == [o \in Q |-> d]
           P == {T \in SUBSET Q : SumFunctionOnSet(One, T) = Cardinality(T) * d}
<1>1. {} \in P
  <2>1. Cardinality({}) = 0 /\ 0 * d = 0
    BY FS_EmptySet
  <2> QED BY <2>1, SumEmpty
<1>2. ASSUME NEW T \in SUBSET Q, T # {} PROVE \E e \in T : T \ {e} \in P => T \in P
  <2>1. PICK e \in T : TRUE
    BY <1>2
  <2>2. IsFiniteSet(T) /\ Integral(One, T) /\ One[e] = d
    BY FS_Subset DEF Integral
  <2>3. /\ Cardinality(T \ {e}) = Cardinality(T) - 1 /\ Cardinality(T) \in Nat
        /\ Cardinality(T) # 0
    BY <2>2, FS_RemoveElement, FS_CardinalityType, FS_EmptySet
  <2> HIDE DEF One
  <2>4. SumFunctionOnSet(One, T) = d + SumFunctionOnSet(One, T \ {e})
    BY <2>2, SumRemove
  <2>5. \A n \in Nat \ {0} : d + (n - 1) * d = n * d
    OBVIOUS
  <2>6. T \ {e} \in P => T \in P
    BY <2>3, <2>4, <2>5
  <2> QED BY <2>1, <2>6
<1> HIDE DEF P
<1>3. SUBSET Q \subseteq P
  BY <1>1, <1>2, SetInduction
<1> QED BY <1>3 DEF P

\* Sums of rounded amounts exceed the amounts' by half a cent for each.
LEMMA RoundedSum ==
    ASSUME NEW Q, IsFiniteSet(Q), NEW H, NEW B,
           \A o \in Q : H[o] \in Nat /\ B[o] = G!round2(H[o])
    PROVE  /\ 2 * SumFunctionOnSet(B, Q) <= 2 * SumFunctionOnSet(H, Q) + Cardinality(Q) * G!cent
           /\ SumFunctionOnSet(B, Q) \in Nat /\ SumFunctionOnSet(H, Q) \in Nat
<1> DEFINE d == G!cent
           One == [o \in Q |-> d]
           B2 == [o \in Q |-> 2 * B[o]]
           H2 == [o \in Q |-> 2 * H[o]]
           Y == [o \in Q |-> H2[o] + One[o]]
<1>1. d \in Nat /\ 2 \in Int
  BY CentFacts
<1>2. /\ \A o \in Q : B[o] \in Nat /\ H[o] \in Nat /\ 2 * B[o] <= 2 * H[o] + d
  BY RoundAddsHalf
<1> HIDE DEF d
<1>3. \A o \in Q : /\ One[o] = d /\ B2[o] = 2 * B[o] /\ H2[o] = 2 * H[o] /\ Y[o] = H2[o] + One[o]
  OBVIOUS
<1>4. SumFunctionOnSet(One, Q) = Cardinality(Q) * d
  BY <1>1, SumConstant
<1> HIDE DEF One, B2, H2, Y
<1>5. /\ Integral(B, Q) /\ Integral(H, Q) /\ Integral(One, Q)
      /\ Integral(B2, Q) /\ Integral(H2, Q) /\ Integral(Y, Q)
  BY <1>1, <1>2, <1>3 DEF Integral
<1>6. SumFunctionOnSet(B2, Q) = 2 * SumFunctionOnSet(B, Q)
  BY <1>1, <1>3, <1>5, SumTimes
<1>7. SumFunctionOnSet(H2, Q) = 2 * SumFunctionOnSet(H, Q)
  BY <1>1, <1>3, <1>5, SumTimes
<1>8. SumFunctionOnSet(Y, Q) = SumFunctionOnSet(H2, Q) + SumFunctionOnSet(One, Q)
  BY <1>3, <1>5, SumPlus
<1>9. \A o \in Q : B2[o] <= Y[o]
  BY <1>2, <1>3
<1>10. SumFunctionOnSet(B2, Q) <= SumFunctionOnSet(Y, Q)
  BY <1>5, <1>9, SumMonotone
<1>11. SumFunctionOnSet(B, Q) \in Nat /\ SumFunctionOnSet(H, Q) \in Nat
  BY <1>2, SumNat
<1> QED BY <1>4, <1>6, <1>7, <1>8, <1>10, <1>11 DEF d

\* Roots share the responsibility for every edge, so they share its cost.
LEMMA RootsCharged ==
    ASSUME NEW g, GraphOK(g), CostsOK(g), NEW Q, IsFiniteSet(Q),
           \A o \in Q : G!inBytes(g, o) = 0,
           NEW H, \A o \in Q : H[o] = SumFunctionOnSet(Charges(g, o), DOMAIN g.edges)
    PROVE  SumFunctionOnSet(H, Q) <= Scale * EdgeTotal(g)
<1> DEFINE E == DOMAIN g.edges
           F == [o \in Q |-> Charges(g, o)]
           C == [k \in E |-> [o \in Q |-> F[o][k]]]
           K == [k \in E |-> SumFunctionOnSet(C[k], Q)]
           V == EdgeCosts(g)
           W == [k \in E |-> Scale * V[k]]
<1>1. IsFiniteSet(E) /\ Scale \in Nat /\ MaxIterations \in 0 .. MaxIterations
      /\ \A k \in E : V[k] \in Nat /\ k[1] \in g.nodes
  BY EdgeCostFacts, GraphConstants
<1>2. ASSUME NEW o \in Q, NEW k \in E
      PROVE  /\ F[o] = Charges(g, o) /\ F[o][k] = G!Responsibility(g, o)[k[1]] * V[k]
             /\ F[o][k] \in Nat /\ G!Responsibility(g, o)[k[1]] \in Nat
  BY ChargeFacts
<1>3. Matrix(F, C, H, K, Q, E)
  <2>1. \A o \in Q : Integral(F[o], E) /\ H[o] = SumFunctionOnSet(F[o], E)
    <3>1. \A o \in Q : F[o] = Charges(g, o)
      OBVIOUS
    <3> HIDE DEF F
    <3> QED BY <1>2, <3>1 DEF Integral
  <2>2. /\ \A k \in E : K[k] = SumFunctionOnSet(C[k], Q)
        /\ \A o \in Q, k \in E : C[k][o] = F[o][k]
    <3> HIDE DEF F
    <3> QED OBVIOUS
  <2> HIDE DEF F, C, K
  <2> QED BY <2>1, <2>2 DEF Matrix
<1>4. SumFunctionOnSet(H, Q) = SumFunctionOnSet(K, E)
  <2> HIDE DEF F, C, K, E
  <2> QED BY <1>1, <1>3, SumExchange
<1>5. ASSUME NEW k \in E PROVE K[k] <= W[k] /\ K[k] \in Nat /\ W[k] \in Nat
  <2> DEFINE A == C[k]
             Y == [o \in Q |-> G!Responsibility(g, o)[k[1]]]
             Z == Held(Q, g, MaxIterations, k[1])
  <2>1. K[k] = SumFunctionOnSet(A, Q) /\ W[k] = Scale * V[k]
    OBVIOUS
  <2>2. \A o \in Q : A[o] = V[k] * Y[o] /\ A[o] \in Nat /\ Y[o] \in Nat
    <3>1. \A o \in Q : A[o] = F[o][k] /\ Y[o] = G!Responsibility(g, o)[k[1]]
      <4> HIDE DEF F
      <4> QED OBVIOUS
    <3> HIDE DEF A, Y, F, V
    <3> QED BY <1>1, <1>2, <3>1
  <2>3. \A o \in Q : Y[o] <= Z[o] /\ Z[o] \in Nat
    <3>1. \A o \in Q : G!Responsibility(g, o)[k[1]] <= G!Rounds(g, o)[MaxIterations][k[1]]
      BY <1>1, ResponsibilityFacts
    <3>2. \A o \in Q : G!Rounds(g, o)[MaxIterations] \in Shares(g)
      BY <1>1, RoundsOrdered
    <3>3. \A o \in Q : Z[o] = G!Rounds(g, o)[MaxIterations][k[1]]
      BY DEF Held
    <3>4. \A o \in Q : G!Rounds(g, o)[MaxIterations][k[1]] \in 0 .. Scale
      BY <1>1, <3>2 DEF Shares
    <3> HIDE DEF Z
    <3> QED BY <1>1, <3>1, <3>3, <3>4
  <2>4. SumFunctionOnSet(Z, Q) <= Scale
    BY <1>1, RootsShare
  <2> HIDE DEF A, Y, Z, F, C, K, W, V, E
  <2>5. Integral(Y, Q) /\ Integral(Z, Q)
    BY <2>2, <2>3 DEF Integral
  <2>6. SumFunctionOnSet(A, Q) = V[k] * SumFunctionOnSet(Y, Q)
    BY <1>1, <2>2, <2>5, SumTimes
  <2>7. SumFunctionOnSet(Y, Q) <= SumFunctionOnSet(Z, Q)
    BY <2>3, <2>5, SumMonotone
  <2>8. SumFunctionOnSet(Y, Q) \in Nat /\ SumFunctionOnSet(Z, Q) \in Nat
    BY <2>2, <2>3, SumNat
  <2>9. /\ V[k] * SumFunctionOnSet(Y, Q) <= V[k] * Scale
        /\ V[k] * SumFunctionOnSet(Y, Q) \in Nat /\ V[k] * Scale \in Nat
    <3>1. SumFunctionOnSet(Y, Q) <= Scale
      BY <1>1, <2>4, <2>7, <2>8
    <3> QED BY <1>1, <2>8, <3>1, TimesMonotone
  <2>10. V[k] * Scale = Scale * V[k]
    BY <1>1
  <2> QED BY <2>1, <2>6, <2>9, <2>10
<1>6. \A k \in E : W[k] = Scale * V[k]
  OBVIOUS
<1> HIDE DEF F, C, K, V, W, E
<1>7. Integral(K, E) /\ Integral(W, E) /\ Integral(V, E)
  BY <1>1, <1>5 DEF Integral
<1>8. SumFunctionOnSet(K, E) <= SumFunctionOnSet(W, E)
  BY <1>1, <1>5, <1>7, SumMonotone
<1>9. SumFunctionOnSet(W, E) = Scale * SumFunctionOnSet(V, E)
  BY <1>1, <1>6, <1>7, SumTimes
<1> QED BY <1>4, <1>8, <1>9 DEF V, E, EdgeTotal

-----------------------------------------------------------------------------
(* Build: the edges cost what the rows added so far cost.                   *)

RowCosts(done) == [r \in G!CrossZoneRows(done) |-> r.cost]
RowTotal(done) == SumFunctionOnSet(RowCosts(done), G!CrossZoneRows(done))
RowCharge(r) == IF r.type \in G!CrossZoneCharged THEN r.cost ELSE 0

Priced(g, done) ==
    /\ GraphOK(g) /\ CostsOK(g)
    /\ done \subseteq Row /\ IsFiniteSet(done)
    /\ EdgeTotal(g) = RowTotal(done)

LEMMA RowConstants ==
    \A r \in Row : r.cost \in Nat /\ r.type \in G!TrafficType /\ r.bytes \in Nat /\ RowCharge(r) \in Nat
BY CostsAssumption DEF G!ConstantsOK, RowCharge

LEMMA RowTotalAdded ==
    ASSUME NEW done, done \subseteq Row, IsFiniteSet(done), NEW r \in Row, r \notin done
    PROVE  RowTotal(done \cup {r}) = RowTotal(done) + RowCharge(r)
<1> DEFINE X == G!CrossZoneRows(done)
           Y == G!CrossZoneRows(done \cup {r})
           F == RowCosts(done)
           H == RowCosts(done \cup {r})
<1>1. IsFiniteSet(X) /\ X \subseteq Row /\ r \notin X
  <2>1. X \subseteq done
    BY DEF G!CrossZoneRows
  <2> QED BY <2>1, FS_Subset
<1>2. Y = IF r.type \in G!CrossZoneCharged THEN X \cup {r} ELSE X
  BY DEF G!CrossZoneRows
<1>3. (\A s \in X : F[s] = s.cost) /\ (\A s \in Y : H[s] = s.cost)
  BY DEF RowCosts
<1>4. RowTotal(done) = SumFunctionOnSet(F, X) /\ RowTotal(done \cup {r}) = SumFunctionOnSet(H, Y)
  BY DEF RowTotal
<1> HIDE DEF X, Y, F, H
<1>5. /\ \A s \in X : F[s] = H[s] /\ F[s] \in Nat /\ H[s] \in Nat
      /\ r.cost \in Nat
  BY <1>1, <1>2, <1>3, RowConstants
<1>6. Integral(F, X) /\ Integral(H, X)
  BY <1>5 DEF Integral
<1>7. SumFunctionOnSet(F, X) = SumFunctionOnSet(H, X) /\ SumFunctionOnSet(F, X) \in Int
  BY <1>1, <1>5, <1>6, SumSame, SumInt
<1>8. CASE r.type \in G!CrossZoneCharged
  <2>1. Y = X \cup {r} /\ H[r] = r.cost
    BY <1>2, <1>3, <1>8
  <2>2. Integral(H, X \cup {r})
    BY <1>5, <2>1 DEF Integral
  <2>3. SumFunctionOnSet(H, X \cup {r}) = H[r] + SumFunctionOnSet(H, X)
    BY <1>1, <2>2, SumAdd
  <2> QED BY <1>4, <1>5, <1>7, <1>8, <2>1, <2>3 DEF RowCharge
<1>9. CASE r.type \notin G!CrossZoneCharged
  <2>1. Y = X /\ RowCharge(r) = 0
    BY <1>2, <1>9 DEF RowCharge
  <2> QED BY <1>4, <1>7, <2>1
<1> QED BY <1>8, <1>9

\* An edge with the row's cost added to its type.
LEMMA EdgeCharged ==
    ASSUME NEW e, e.byType \in [G!TrafficType -> Nat], NEW r \in Row, NEW f,
           f.byType = [e.byType EXCEPT ![r.type] = @ + r.cost]
    PROVE  /\ f.byType \in [G!TrafficType -> Nat]
           /\ G!CrossZoneCost(f) = G!CrossZoneCost(e) + RowCharge(r)
<1> DEFINE T == G!CrossZoneCharged
           F == TypeCosts(e)
           H == TypeCosts(f)
<1>1. r.type \in G!TrafficType /\ r.cost \in Nat
  BY RowConstants
<1>2. f.byType \in [G!TrafficType -> Nat]
      /\ \A t \in G!TrafficType : f.byType[t] = IF t = r.type THEN e.byType[t] + r.cost ELSE e.byType[t]
  BY <1>1
<1>3. /\ \A t \in T : F[t] = e.byType[t] /\ F[t] \in Nat
      /\ G!CrossZoneCost(e) = SumFunctionOnSet(F, T) /\ IsFiniteSet(T) /\ G!CrossZoneCost(e) \in Nat
  BY CrossZoneFacts
<1>4. /\ \A t \in T : H[t] = f.byType[t] /\ H[t] \in Nat
      /\ G!CrossZoneCost(f) = SumFunctionOnSet(H, T)
  BY <1>2, CrossZoneFacts
<1>5. T \subseteq G!TrafficType
  BY DEF G!TrafficType
<1> HIDE DEF T, F, H
<1>6. \A t \in T : H[t] = IF t = r.type THEN F[t] + r.cost ELSE F[t]
  BY <1>2, <1>3, <1>4, <1>5
<1>7. Integral(F, T) /\ Integral(H, T)
  BY <1>3, <1>4 DEF Integral
<1>8. CASE r.type \in T
  <2>1. \A t \in T \ {r.type} : F[t] = H[t]
    BY <1>6
  <2>2. SumFunctionOnSet(H, T) = SumFunctionOnSet(F, T) - F[r.type] + H[r.type]
    BY <1>3, <1>7, <1>8, <2>1, SumChange
  <2>3. F[r.type] \in Nat /\ H[r.type] = F[r.type] + r.cost
    BY <1>3, <1>6, <1>8
  <2>4. RowCharge(r) = r.cost
    BY <1>8 DEF RowCharge, T
  <2> QED BY <1>1, <1>2, <1>3, <1>4, <2>2, <2>3, <2>4
<1>9. CASE r.type \notin T
  <2>1. \A t \in T : F[t] = H[t]
    BY <1>6, <1>9
  <2>2. SumFunctionOnSet(F, T) = SumFunctionOnSet(H, T)
    BY <1>3, <1>7, <2>1, SumSame
  <2>3. RowCharge(r) = 0
    BY <1>9 DEF RowCharge, T
  <2> QED BY <1>2, <1>3, <1>4, <2>2, <2>3
<1> QED BY <1>8, <1>9

LEMMA NoEdgeCosts == G!NoEdge.byType \in [G!TrafficType -> Nat] /\ G!CrossZoneCost(G!NoEdge) = 0
<1>1. G!NoEdge.byType \in [G!TrafficType -> Nat]
  BY DEF G!NoEdge
<1>2. \A t \in G!CrossZoneCharged : TypeCosts(G!NoEdge)[t] = 0
  BY DEF TypeCosts, G!NoEdge, G!TrafficType
<1>3. IsFiniteSet(G!CrossZoneCharged)
      /\ G!CrossZoneCost(G!NoEdge) = SumFunctionOnSet(TypeCosts(G!NoEdge), G!CrossZoneCharged)
  BY <1>1, CrossZoneFacts
<1> QED BY <1>1, <1>2, <1>3, SumZero

LEMMA RowPriced ==
    ASSUME NEW g, Built(g), NEW done, Priced(g, done), NEW r \in Row, r \notin done
    PROVE  Priced(G!AddEdgeRow(g, r), done \cup {r}) /\ G!AddEdgeRow(g, r).of = g.of
<1> DEFINE k == <<r.src, G!dstNode(r)>>
           e == IF k \in DOMAIN g.edges THEN g.edges[k] ELSE G!NoEdge
           more == [bytes |-> e.bytes + r.bytes,
                    byType |-> [e.byType EXCEPT ![r.type] = @ + r.cost]]
           E == DOMAIN g.edges
           edges == [l \in E \cup {k} |-> IF l = k THEN more ELSE g.edges[l]]
           nodes == g.nodes \cup {k[1], k[2]}
           h == G!AddEdgeRow(g, r)
           F == EdgeCosts(g)
           H == EdgeCosts(h)
<1>1. \E n, f, result : g = [nodes |-> n, edges |-> f, of |-> result]
  BY DEF Built
<1>2. h = [g EXCEPT !.nodes = nodes, !.edges = edges]
  BY DEF G!AddEdgeRow
<1>3. e.byType \in [G!TrafficType -> Nat]
  BY NoEdgeCosts DEF Priced, CostsOK
<1>4. more.byType = [e.byType EXCEPT ![r.type] = @ + r.cost]
  OBVIOUS
<1>5. k \notin E => e = G!NoEdge
  OBVIOUS
<1>6. k \in E => e = g.edges[k]
  OBVIOUS
<1> HIDE DEF k, e, more
<1>7. /\ more.byType \in [G!TrafficType -> Nat]
      /\ G!CrossZoneCost(more) = G!CrossZoneCost(e) + RowCharge(r)
  BY <1>3, <1>4, EdgeCharged
<1>8. /\ DOMAIN edges = E \cup {k}
      /\ \A l \in E \cup {k} : edges[l] = IF l = k THEN more ELSE g.edges[l]
  OBVIOUS
<1> HIDE DEF edges, nodes
<1>9. h.edges = edges /\ h.of = g.of
  BY <1>1, <1>2
<1>10. GraphOK(h)
  BY RowAdded DEF Built
<1>11. CostsOK(h)
  BY <1>7, <1>8, <1>9 DEF Priced, CostsOK
<1>12. done \cup {r} \subseteq Row /\ IsFiniteSet(done \cup {r})
  BY FS_AddElement DEF Priced
<1>13. RowTotal(done \cup {r}) = RowTotal(done) + RowCharge(r)
  BY RowTotalAdded DEF Priced
<1>14. /\ IsFiniteSet(E) /\ \A l \in E : F[l] = G!CrossZoneCost(g.edges[l]) /\ F[l] \in Nat
       /\ EdgeTotal(g) = SumFunctionOnSet(F, E) /\ EdgeTotal(g) \in Nat
  BY EdgeCostFacts DEF Priced, EdgeTotal
<1>15. /\ DOMAIN h.edges = E \cup {k}
       /\ \A l \in E \cup {k} : H[l] = G!CrossZoneCost(edges[l]) /\ H[l] \in Nat
       /\ EdgeTotal(h) = SumFunctionOnSet(H, E \cup {k})
  <2>1. DOMAIN h.edges = E \cup {k}
    BY <1>8, <1>9
  <2> HIDE DEF h
  <2> QED BY <1>9, <1>10, <1>11, <2>1, EdgeCostFacts DEF EdgeTotal
<1>16. RowCharge(r) \in Nat
  BY RowConstants
<1> HIDE DEF E, h, F, H
<1>17. \A l \in E : l # k => H[l] = F[l]
  BY <1>8, <1>14, <1>15
<1>18. H[k] = G!CrossZoneCost(e) + RowCharge(r)
  BY <1>7, <1>8, <1>15
<1>19. EdgeTotal(h) = EdgeTotal(g) + RowCharge(r)
  <2>1. CASE k \in E
    <3>1. E \cup {k} = E /\ H[k] = F[k] + RowCharge(r) /\ F[k] \in Nat
      BY <1>6, <1>14, <1>18, <2>1
    <3>2. Integral(F, E) /\ Integral(H, E)
      BY <1>14, <1>15 DEF Integral
    <3>3. \A l \in E \ {k} : F[l] = H[l]
      BY <1>17
    <3>4. SumFunctionOnSet(H, E) = SumFunctionOnSet(F, E) - F[k] + H[k]
      BY <1>14, <2>1, <3>2, <3>3, SumChange
    <3>5. EdgeTotal(h) = SumFunctionOnSet(H, E)
      <4>1. EdgeTotal(h) = SumFunctionOnSet(H, E \cup {k}) /\ E \cup {k} = E
        BY <1>15, <3>1
      <4> QED BY <4>1
    <3>6. EdgeTotal(g) = SumFunctionOnSet(F, E) /\ EdgeTotal(g) \in Nat
      BY <1>14
    <3> QED BY <1>16, <3>1, <3>4, <3>5, <3>6
  <2>2. CASE k \notin E
    <3>1. H[k] = RowCharge(r)
      BY <1>5, <1>16, <1>18, <2>2, NoEdgeCosts
    <3>2. \A l \in E : F[l] = H[l]
      BY <1>17, <2>2
    <3>3. Integral(F, E) /\ Integral(H, E \cup {k})
      BY <1>14, <1>15 DEF Integral
    <3>4. SumFunctionOnSet(H, E \cup {k}) = H[k] + SumFunctionOnSet(H, E)
      BY <1>14, <2>2, <3>3, SumAdd
    <3>5. SumFunctionOnSet(F, E) = SumFunctionOnSet(H, E)
      BY <1>14, <3>2, <3>3, SumSame
    <3> QED BY <1>14, <1>15, <1>16, <3>1, <3>4, <3>5
  <2> QED BY <2>1, <2>2
<1>20. EdgeTotal(h) = RowTotal(done \cup {r})
  BY <1>13, <1>19 DEF Priced
<1> QED BY <1>9, <1>10, <1>11, <1>12, <1>20 DEF Priced, h

-----------------------------------------------------------------------------
(* The graph a reader holds has the cost of all rows of one answer, and     *)
(* what is on the bill was attributed on that graph.                        *)

BillInv ==
    /\ GraphInv
    /\ IsFiniteSet(table) /\ IsFiniteSet(rows)
    /\ phase = "building" => /\ rows \subseteq building.of /\ building.of \subseteq Row
                             /\ IsFiniteSet(building.of)
                             /\ Priced(building, building.of \ rows)
    /\ current # None => Priced(current, current.of)
    /\ reader # G!Idle =>
          /\ Priced(reader.graph, reader.graph.of)
          /\ IsFiniteSet(DOMAIN reader.bill)
          /\ \A o \in DOMAIN reader.bill : reader.bill[o] = G!AttributeFrom(reader.graph, o)

LEMMA NewPriced ==
    ASSUME NEW result, result \subseteq Row, IsFiniteSet(result)
    PROVE  G!New(result).of = result /\ Priced(G!New(result), result \ result)
<1> DEFINE g == G!New(result)
<1>1. g.of = result /\ DOMAIN g.edges = {}
  BY DEF G!New
<1>2. IsFiniteSet({})
  BY FS_EmptySet
<1>3. GraphOK(g) /\ CostsOK(g) /\ EdgeTotal(g) = 0
  BY <1>1, <1>2, SumEmpty DEF GraphOK, CostsOK, EdgeTotal
<1>4. result \ result = {} /\ G!CrossZoneRows({}) = {}
  BY DEF G!CrossZoneRows
<1>5. RowTotal({}) = 0
  BY <1>4, SumEmpty DEF RowTotal
<1> QED BY <1>1, <1>2, <1>3, <1>4, <1>5 DEF Priced

LEMMA StepKeepsBillInv ==
    ASSUME BillInv, G!Next \/ UNCHANGED graphVars PROVE BillInv'
<1>0. GraphInv /\ GraphInv'
  BY StepKeepsGraphInv DEF BillInv
<1> USE DEF BillInv
<1>1. CASE UNCHANGED graphVars
  BY <1>0, <1>1 DEF graphVars
<1>2. CASE G!TableChanges
  <2>1. PICK r \in Row : table' = G!SymDiff(table, {r})
    BY <1>2 DEF G!TableChanges
  <2>2. table' \subseteq table \cup {r}
    BY <2>1 DEF G!SymDiff
  <2>3. IsFiniteSet(table')
    BY <2>2, FS_AddElement, FS_Subset
  <2>4. UNCHANGED <<phase, rows, building, current, reader>>
    BY <1>2 DEF G!TableChanges
  <2> QED BY <1>0, <2>3, <2>4
<1>3. CASE G!Query
  BY <1>0, <1>3 DEF G!Query
<1>4. CASE G!QueryFails
  BY <1>0, <1>4, FS_EmptySet DEF G!QueryFails
<1>5. CASE G!QueryOk
  <2>1. rows \subseteq Row /\ IsFiniteSet(rows)
    BY DEF GraphInv
  <2>2. building' = G!New(rows) /\ UNCHANGED <<table, rows, current, reader>>
    BY <1>5 DEF G!QueryOk
  <2>3. building'.of = rows /\ Priced(building', rows \ rows)
    BY <2>1, <2>2, NewPriced
  <2> QED BY <1>0, <2>1, <2>2, <2>3
<1>6. CASE G!BuildRow
  <2>1. PICK r \in rows : rows' = rows \ {r} /\ building' = G!AddEdgeRow(building, r)
    BY <1>6 DEF G!BuildRow
  <2>2. phase = "building" /\ UNCHANGED <<table, phase, current, reader>>
    BY <1>6 DEF G!BuildRow
  <2>3. Built(building) /\ r \in Row /\ Priced(building, building.of \ rows) /\ r \notin building.of \ rows
    BY <2>2 DEF GraphInv
  <2>4. /\ Priced(building', (building.of \ rows) \cup {r}) /\ building'.of = building.of
    BY <2>1, <2>3, RowPriced
  <2>5. (building.of \ rows) \cup {r} = building'.of \ rows'
    BY <2>1, <2>2, <2>4
  <2>6. IsFiniteSet(rows')
    BY <2>1, FS_Subset
  <2>7. Priced(building', building'.of \ rows')
    BY <2>4, <2>5
  <2>8. rows' \subseteq building'.of /\ building'.of \subseteq Row /\ IsFiniteSet(building'.of)
    BY <2>1, <2>2, <2>4
  <2> QED BY <1>0, <2>2, <2>6, <2>7, <2>8
<1>7. CASE G!Store
  <2>1. /\ phase = "building" /\ rows = {} /\ current' = building /\ phase' = "idle"
        /\ UNCHANGED <<table, rows, reader>>
    BY <1>7 DEF G!Store
  <2>2. building.of \ rows = building.of
    BY <2>1
  <2>3. Priced(current', current'.of)
    BY <2>1, <2>2
  <2> QED BY <1>0, <2>1, <2>3
<1>8. CASE G!LoadGraph
  <2>1. /\ current # None /\ reader' = [graph |-> current, todo |-> G!Origins(current), bill |-> <<>>]
        /\ UNCHANGED <<table, phase, rows, building, current>>
    BY <1>8 DEF G!LoadGraph
  <2>2. reader'.graph = current /\ DOMAIN reader'.bill = {}
    BY <2>1
  <2>3. IsFiniteSet(DOMAIN reader'.bill)
    BY <2>2, FS_EmptySet
  <2> QED BY <1>0, <2>1, <2>2, <2>3
<1>9. CASE G!AttributeNext
  <2>1. reader # G!Idle /\ UNCHANGED <<table, phase, rows, building, current>>
    BY <1>9 DEF G!AttributeNext
  <2>2. PICK g, todo, bill : reader = [graph |-> g, todo |-> todo, bill |-> bill]
    BY <2>1 DEF GraphInv
  <2>3. PICK o : reader' =
          [reader EXCEPT !.todo = @ \ {o},
             !.bill = IF G!AttributeFrom(reader.graph, o).total = 0 THEN @
                      ELSE [n \in DOMAIN reader.bill \cup {o} |->
                              IF n = o THEN G!AttributeFrom(reader.graph, o) ELSE @[n]]]
    BY <1>9 DEF G!AttributeNext
  <2> DEFINE more == [n \in DOMAIN reader.bill \cup {o} |->
                        IF n = o THEN G!AttributeFrom(reader.graph, o) ELSE reader.bill[n]]
             new == IF G!AttributeFrom(reader.graph, o).total = 0 THEN reader.bill ELSE more
  <2>4. reader' = [reader EXCEPT !.todo = todo \ {o}, !.bill = new]
    BY <2>2, <2>3
  <2>5. /\ DOMAIN more = DOMAIN reader.bill \cup {o}
        /\ \A n \in DOMAIN more : more[n] = G!AttributeFrom(reader.graph, n)
    BY <2>1
  <2> HIDE DEF more
  <2>6. IsFiniteSet(DOMAIN more)
    BY <2>1, <2>5, FS_AddElement
  <2>7. /\ IsFiniteSet(DOMAIN new)
        /\ \A n \in DOMAIN new : new[n] = G!AttributeFrom(reader.graph, n)
    BY <2>1, <2>5, <2>6
  <2> HIDE DEF new
  <2>8. reader'.graph = reader.graph /\ reader'.bill = new
    BY <2>2, <2>4
  <2> QED BY <1>0, <2>1, <2>7, <2>8
<1>10. CASE G!Answered
  BY <1>0, <1>10 DEF G!Answered
<1> QED BY <1>1, <1>2, <1>3, <1>4, <1>5, <1>6, <1>7, <1>8, <1>9, <1>10 DEF G!Next

\* AttributeAll: on every graph the snapshotter can build, cyclic or not, at any
\* point of the loop and however refreshes, failing queries and the order of the
\* rows interleave with it, the roots together are charged at most what the zone
\* crossings of one answer cost and half a cent of rounding for each of them.
THEOREM ChargebackNeverOverpaid == CostsSpec => []RootsNeverOverpay
<1>1. CostsInit => BillInv
  <2> SUFFICES ASSUME G!Init PROVE BillInv
    BY DEF CostsInit
  <2>1. /\ rows = {} /\ phase = "idle" /\ current = None /\ reader = G!Idle
        /\ G!IsFiniteSet(table)
    BY DEF G!Init
  <2>2. table \subseteq Row
    BY DEF G!Init, G!kSubset
  <2>3. IsFiniteSet(table) /\ IsFiniteSet(rows)
    BY <2>1, FS_EmptySet DEF G!IsFiniteSet, IsFiniteSet
  <2> QED BY <2>1, <2>2, <2>3 DEF BillInv, GraphInv
<1>2. BillInv /\ [CostsNext]_allVars => BillInv'
  <2> SUFFICES ASSUME BillInv, [CostsNext]_allVars PROVE BillInv'
    OBVIOUS
  <2>1. G!Next \/ UNCHANGED graphVars
    BY DEF CostsNext, allVars
  <2> QED BY <2>1, StepKeepsBillInv
<1>3. BillInv => RootsNeverOverpay
  <2> SUFFICES ASSUME BillInv, reader # G!Idle
               PROVE  G!NotAbove(G!Roots(reader.graph))
    BY DEF RootsNeverOverpay, G!RootsNeverOverpay
  <2> DEFINE g == reader.graph
             Q == G!Roots(g) \cap DOMAIN reader.bill
             B == [o \in Q |-> reader.bill[o].total]
             H == [o \in Q |-> SumFunctionOnSet(Charges(g, o), DOMAIN g.edges)]
  <2>1. /\ Priced(g, g.of) /\ IsFiniteSet(DOMAIN reader.bill)
        /\ \A o \in Q : reader.bill[o] = G!AttributeFrom(g, o)
    BY DEF BillInv
  <2>2. GraphOK(g) /\ CostsOK(g) /\ EdgeTotal(g) = RowTotal(g.of)
    BY <2>1 DEF Priced
  <2>3. IsFiniteSet(Q) /\ \A o \in Q : G!inBytes(g, o) = 0
    BY <2>1, FS_Subset DEF G!Roots
  <2>4. \A o \in Q : /\ H[o] = SumFunctionOnSet(Charges(g, o), DOMAIN g.edges)
                     /\ H[o] \in Nat /\ B[o] = G!round2(H[o])
    BY <2>1, <2>2, ChargeFacts
  <2>5. G!Billed(G!Roots(g)) = SumFunctionOnSet(B, Q)
    <3>1. G!Billed(G!Roots(g)) = G!SumFunction(B) /\ DOMAIN B = Q
      BY DEF G!Billed
    <3> HIDE DEF B, Q
    <3> QED BY <3>1, GraphSum
  <2>6. G!Incurred = RowTotal(g.of)
    <3>1. G!Incurred = G!SumFunction(RowCosts(g.of)) /\ DOMAIN RowCosts(g.of) = G!CrossZoneRows(g.of)
      BY DEF G!Incurred, RowCosts
    <3> QED BY <3>1, GraphSum DEF RowTotal
  <2>7. G!Cardinality(Q) = Cardinality(Q)
    BY DEF G!Cardinality, Cardinality
  <2>8. G!NotAbove(G!Roots(g))
        <=> 2 * G!Billed(G!Roots(g)) <= 2 * (Scale * G!Incurred) + G!Cardinality(Q) * G!cent
    BY DEF G!NotAbove
  <2> HIDE DEF B, H, Q, g
  <2>9. SumFunctionOnSet(H, Q) <= Scale * EdgeTotal(g)
    BY <2>2, <2>3, <2>4, RootsCharged
  <2>10. /\ 2 * SumFunctionOnSet(B, Q) <= 2 * SumFunctionOnSet(H, Q) + Cardinality(Q) * G!cent
         /\ SumFunctionOnSet(B, Q) \in Nat /\ SumFunctionOnSet(H, Q) \in Nat
    BY <2>3, <2>4, RoundedSum
  <2>11. Cardinality(Q) * G!cent \in Nat /\ Scale * EdgeTotal(g) \in Nat
    <3>1. Cardinality(Q) \in Nat /\ G!cent \in Nat
      BY <2>3, CentFacts, FS_CardinalityType
    <3>2. EdgeTotal(g) \in Nat /\ Scale \in Nat
      BY <2>2, EdgeCostFacts, GraphConstants
    <3>3. \A i, j \in Nat : i * j \in Nat
      OBVIOUS
    <3> QED BY <3>1, <3>2, <3>3
  <2>12. 2 * G!Billed(G!Roots(g)) <= 2 * (Scale * G!Incurred) + G!Cardinality(Q) * G!cent
    <3> DEFINE cents == Cardinality(Q) * G!cent
               most == Scale * EdgeTotal(g)
    <3>1. cents \in Nat /\ most \in Nat /\ most = Scale * G!Incurred
      BY <2>2, <2>6, <2>11
    <3> HIDE DEF cents, most
    <3>2. 2 * SumFunctionOnSet(B, Q) <= 2 * most + cents
      BY <2>9, <2>10, <3>1 DEF cents, most
    <3> QED BY <2>5, <2>7, <3>1, <3>2 DEF cents
  <2> QED BY <2>8, <2>12 DEF g
<1> QED
  BY <1>1, <1>2, <1>3, PTL DEF CostsSpec
================================================================================
