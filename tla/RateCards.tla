------------------------------- MODULE RateCards -------------------------------
(***************************************************************************)
(* How the agent's rate card is kept current: initCostEngine stores the    *)
(* dated defaults, the RateCardRefresher asks the AWS provider at start    *)
(* and on every tick, and the provider caches live cards.  Instants are    *)
(* counted down and up (never absolute), so time is unbounded.  A fetch    *)
(* ends within one instant of its start (the 30 s timeout).                *)
(***************************************************************************)
EXTENDS Naturals

CONSTANTS Interval,     \* RateCardRefresher.interval
          CacheFor,     \* rateExpiry of a live card
          MaxAge        \* bound: ages above it are not told apart

\* What the constants must satisfy; the composing module assumes it.
ConstantsOK ==
    Interval \in Nat \ {0} /\ CacheFor \in Nat \ {0} /\ MaxAge \in Nat

VARIABLES
    started,    \* the refresher runs (a cloud provider was available)
    pricing,    \* the provider has a pricing client
    listed,     \* regionToLocation knows the agent's region
    api,        \* external: the Price List API answers
    store,      \* the card in RateCardStore
    cached,     \* the provider's rateCache entry, a card or NoCard
    cacheAge,   \* instants since it was cached
    cardAge,    \* instants since the store's card was fetched
    ticking,    \* the ticker exists: Start's own refresh has ended
    toTick,     \* instants to the next refresh
    fetch       \* "no", "started", "waited"

vars == <<started, pricing, listed, api, store, cached, cacheAge, cardAge, ticking, toTick, fetch>>

\* transfer, nat: where the prices come from; live: labelled and dated as live.
Card == [transfer : {"default", "live"}, nat : {"default", "live"},
         live : BOOLEAN, fallback : BOOLEAN]
DefaultCard == [transfer |-> "default", nat |-> "default", live |-> FALSE, fallback |-> FALSE]
NoCard == [transfer |-> "none"]

\* Types; the cache never holds a default card.
TypeOK ==
    /\ started \in BOOLEAN /\ pricing \in BOOLEAN /\ listed \in BOOLEAN
    /\ api \in {"up", "no nat", "down"}
    /\ store \in Card
    /\ cached \in {c \in Card : c.live} \cup {NoCard}
    /\ cacheAge \in 0 .. CacheFor /\ cardAge \in 0 .. MaxAge
    /\ ticking \in BOOLEAN /\ toTick \in 0 .. Interval
    /\ fetch \in {"no", "started", "waited"}

Init ==
    /\ started \in BOOLEAN /\ pricing \in BOOLEAN /\ listed \in BOOLEAN
    /\ api \in {"up", "no nat", "down"}
    /\ store = DefaultCard
    /\ cached = NoCard /\ cacheAge = CacheFor
    /\ cardAge = 0 /\ ticking = FALSE /\ toTick = 0 /\ fetch = "no"

-----------------------------------------------------------------------------
Upto(n, bound) == IF n > bound THEN bound ELSE n

\* Time passes; the ticker is not late and a fetch does not last longer.
Tick ==
    /\ (started => toTick > 0) /\ fetch # "waited"
    /\ toTick' = IF ticking THEN toTick - 1 ELSE toTick
    /\ cacheAge' = Upto(cacheAge + 1, CacheFor)
    /\ cardAge' = Upto(cardAge + 1, MaxAge)
    /\ fetch' = IF fetch = "started" THEN "waited" ELSE fetch
    /\ UNCHANGED <<started, pricing, listed, api, store, cached, ticking>>

ApiChanges ==
    /\ api' \in {"up", "no nat", "down"} \ {api}
    /\ UNCHANGED <<started, pricing, listed, store, cached, cacheAge, cardAge>>
    /\ UNCHANGED <<ticking, toTick, fetch>>

\* Mutant: a cached card never expires.
CacheHitForever == cached # NoCard

CacheHit == cached # NoCard /\ cacheAge < CacheFor

\* Mutant: once the store holds a fallback card, ticks do nothing.
RefreshGivesUp ==
    /\ started /\ toTick = 0 /\ fetch = "no"
    /\ toTick' = Interval
    /\ ticking' = TRUE
    /\ fetch' = IF store.fallback \/ ~pricing THEN "no" ELSE "started"
    /\ UNCHANGED <<started, pricing, listed, api, store, cached, cacheAge, cardAge>>

\* refresh, up to the point where GetRateCard returns or calls the API.
Refresh ==
    /\ started /\ toTick = 0 /\ fetch = "no"
    /\ toTick' = Interval
    /\ \/ /\ CacheHit
          /\ store' = cached /\ ticking' = TRUE /\ UNCHANGED fetch
       \/ /\ ~CacheHit /\ ~pricing
          /\ store' = [DefaultCard EXCEPT !.fallback = TRUE]
          /\ ticking' = TRUE /\ UNCHANGED fetch
       \/ /\ ~CacheHit /\ pricing
          /\ fetch' = "started" /\ UNCHANGED <<store, ticking>>
    /\ UNCHANGED <<started, pricing, listed, api, cached, cacheAge, cardAge>>

\* FetchRateCard: without NAT prices the card is labelled live all the same.
FetchOk ==
    /\ fetch # "no" /\ listed /\ api # "down"
    /\ LET card == [transfer |-> "live", nat |-> IF api = "up" THEN "live" ELSE "default",
                    live |-> TRUE, fallback |-> FALSE]
       IN  store' = card /\ cached' = card
    /\ cacheAge' = 0 /\ cardAge' = 0
    /\ ticking' = TRUE /\ fetch' = "no"
    /\ UNCHANGED <<started, pricing, listed, api, toTick>>

\* A failed fetch, for want of a location to ask for or of an answer: the
\* defaults, marked, replace what the store had.
FetchFail ==
    /\ fetch # "no" /\ (~listed \/ api = "down")
    /\ store' = [DefaultCard EXCEPT !.fallback = TRUE]
    /\ ticking' = TRUE /\ fetch' = "no"
    /\ UNCHANGED <<started, pricing, listed, api, cached, cacheAge, cardAge, toTick>>

Next == Tick \/ ApiChanges \/ Refresh \/ FetchOk \/ FetchFail

\* The clock runs and the refresher's goroutine does.
Spec == Init /\ [][Next]_vars /\ WF_vars(Tick) /\ WF_vars(Refresh)
             /\ WF_vars(FetchOk \/ FetchFail)

-----------------------------------------------------------------------------
\* Refresher and provider cache together: a card labelled live was fetched at
\* most one expiry and one interval ago, however the API behaved since.
LiveIsRecent == store.live => cardAge <= CacheFor + Interval

\* Fallback cards are not cached: in a region the price list names, once the API
\* stays reachable, the store ends up with live rates and keeps them; in any
\* other it ends up with the defaults, marked as a fallback, for good.
EventuallyLive ==
    /\ (<>[](started /\ pricing /\ listed /\ api = "up")) => <>[](store.live)
    /\ (<>[](started /\ ~listed)) => <>[](store.fallback /\ ~store.live)

-----------------------------------------------------------------------------
(* What the comments of the code say.                                       *)

\* agent.go: "fetches real rates every 6 hours".
EveryInterval == store.live => cardAge <= Interval + 1

\* pricing.go: "every rate is dated and sourced": a card labelled live holds
\* live prices.
SourceHonest == store.live => store.transfer = "live" /\ store.nat = "live"

\* ratecard.go: Fallback "is true when these rates substitute for a live pricing
\* fetch that failed or was never configured".
FallbackFlagged == ~store.live /\ (~started \/ ~pricing) => store.fallback
=============================================================================
