# Tollwing: a TLA+ verification project

Tollwing is a Go agent that measures cloud network cost. eBPF programs count
the bytes of every connection per flow; the agent drains the counters every few
seconds, joins the flows with what it knows about processes, pods, DNS names and
dialed services, classifies and prices them, and hands them to a Prometheus
endpoint and a NATS work queue. The rules the project sets itself
(`CONSTITUTION.md`) are that a byte is counted once, that data is never dropped
silently, that state is bounded, and that what is not known is not guessed.
This project states those rules for the parts that carry them and checks them.

1. Inventory
2. Modules and the code they model
3. Runs: what is checked, on which bounds, under which fairness
4. Proofs
5. Where the code and its comments disagree
6. What is not modelled
7. Plan

---------------------------------------------------------------------------

## 1. Inventory

Paths are under `src/`. `PROJECT.json` lists all 27 components with their
sources and the hazards with their lines.

| Component | State it keeps | Operations | What makes it correct |
|---|---|---|---|
| BPF data plane (`pkg/ebpf/bpf/*.bpf.c`, `maps.h`) | `cookie_to_original_dst`, `connections` (LRU), `flow_aggregates` and `quic_flows` (per-CPU, bounded), `drop_counters`, the `events` ring buffer, `agent_config` | connect4/6, sockops established and close, sock_release, the TCP/UDP send, receive and retransmit programs, TC egress for QUIC | every byte in at most one counter; what cannot be recorded is counted as dropped; a byte is under its own socket's key |
| Loader (`pkg/ebpf/loader.go`) | the collection, links, readers, pushed configuration | Start, Close, SetEnabled | never two programs counting one function; a running agent measures; Start ends |
| Poller and shutdown (`pkg/poller`, `pkg/agent/shutdown.go`) | the flows of the current poll | poll by batch, by lookup-and-delete, or by lookup then delete; pollQuic; OnDrops; Stop with its final flush | nothing read twice unless a delete fails, nothing lost outside a named window, everything recorded is eventually handed over, shutdown loses nothing |
| Intent cache (`pkg/intent`) | two generations of a bounded map | Put, Get, Delete | bounded; forgets by age only; never answers with something not put |
| Agent handlers (`pkg/agent/agent.go`) | the intent join, wiring of all other parts | handleConnect, handleEstablish, handleClose, the poll handler | a flow is joined with what *its* connection dialed |
| DNS tracker (`pkg/dns/tracker.go`) | address cache with an eviction ring, per-domain counters | cacheInsert, Lookup, recordQuery, reset | bounded; no stale answer |
| Enricher, sidecar detector (`pkg/enricher`) | PID caches | Lookup, EnrichComm, Evict; IsSidecarProcess, InvalidatePID | an answer about a PID is about a process that had that PID |
| Kubernetes informer (`pkg/k8s/informer.go`) | pod, container, address, node, service and endpoint indexes | pod, node, endpoint-slice and service handlers | the indexes equal what the objects say, whatever the order of events |
| Zone resolver (`pkg/classifier/zone.go`) | address to zone, CIDR to zone | SetIPZone, SetCIDRZones, Resolve | the zone of the pod that has the address, or of the subnet it is in |
| Traffic classifier (`pkg/classifier`) | peering, transit and endpoint ranges with the prefix list built from them, cluster CIDRs, NAT addresses, the default route | one setter per table, Classify | longest match; one decision order, and an answer some moment of the call explains although tables are swapped meanwhile |
| Topology refresher (`pkg/cloud/topology.go`) | the step it is at | refresh: five calls, five tables | local ranges are never priced as peerings; the tables come to show the account whichever calls failed |
| AWS provider (`pkg/cloud/aws`) | rate card cache | the five topology calls, GetRateCard, FetchRateCard | rates are dated, sourced and recent; answers are about this VPC |
| Cost engine (`pkg/cost`) | one tier meter per region, start of the billing period | flow cost by single or marginal meter, reset | the bill is exact, whoever calls and whenever the month ends |
| Prometheus exporter (`pkg/exporter`) | atomics, per-pod counters with a ring, podMu | UpdateFromPoll, handleMetrics | bounded, each byte in one counter, polls finish |
| NATS publisher and subscriber (`pkg/nats`) | JetStream work queue, durable consumer, delivery counts | Publish, processMsg, the durable upgrade ladder | a batch is handled or its loss is logged; no poison batch for ever |
| Service graph (`pkg/servicegraph`) | the current snapshot, swapped whole | Refresh (query, build, swap), AttributeFrom, AttributeAll | a chargeback is about one complete answer of the table; on an acyclic graph the roots pay what was incurred, up to rounding; shares stay in [0, 1] |
| Reconciliation, offline scan, Terraform estimator, OpenCost plugin, DNS service mapper, simulator, governance tools | little or none | reports and adapters | see section 6 |

**Interactions.** Kernel programs and the agent share the maps and nothing else:
no lock covers a program's lookup and its write, and the poller's deletes fall
in between. The ring buffer carries connect, establish and close events to the
event reader; the poller's snapshots take another road, so the two arrive in any
order. The poll handler calls the intent cache, enricher, sidecar detector, DNS
tracker, informer indexes, classifier, cost engine, exporter and publisher in
that order, in the poll loop's goroutine; the event reader, informer callbacks,
the topology and rate refreshers and HTTP scrapes run in goroutines of their own.
The service graph is read back from the table the published flows end up in.

**What is hard.** Deletes racing writes in per-CPU maps; two hooks that see the
same datagram; maps, rings and caches at their limits; tuples, addresses, PIDs and
pod names that are reused before late events about the earlier holder arrive; map
calls that fail one by one; lost acknowledgements and crashes around the delivery
cap; a lock held while a client reads; a ticker and a cache that expire at the
same interval; billing periods that end between two steps of a calculation; tables
swapped between the four reads of one classification; refreshes of which some
calls fail.

---------------------------------------------------------------------------

## 2. Modules and the code they model

`PROJECT.json` maps every definition to its lines. One action is one handler, or
one step of it where another actor can run in between.

### The byte path

**DataPlane** — the eBPF programs. A send, receive or retransmit is a `Call`,
made once; a byte counter is modelled by the *set of calls* added to it, so
"each byte once" becomes "each call in one place", and bytes of several sizes
need no arithmetic. `slot[e][c]` is CPU `c`'s copy of map element `e`, `owner[e]`
the key it is linked under. A counting program has two steps:
`SocketHookEnter`/`QuicHookEnter` (the early returns and the map lookup) and
`HookExit` (add through the pointer, insert with `BPF_NOEXIST`, fail and count a
drop, or skip). Elements are preallocated and reused without a grace period, as
the kernel's are: an addition through a stale pointer is void, or lands in the
element's next life. `Connect`, `EstablishActive`, `EstablishPassive`,
`StateClose` and `SockRelease` are the cgroup and sockops programs, LRU eviction
picks any victim, and `UdpSocketTx` is the flag by which the loader decides
which hook owns UDP sends. The socket's life (`sk`, `TupleFree`) is the
kernel's and is marked external.

**FlowDrain** — extends DataPlane with `poll()` and the ordered shutdown. Four
constants say what the kernel offers and what may go wrong: `Batch` and
`AtomicDelete` (batch calls from 5.6, LookupAndDelete on hash maps from 5.14),
`DrainErrors` (iteration and batch calls fail) and `CallErrors` (a single
LookupAndDelete, Lookup or Delete fails). `PollBegin` collects the keys; `DrainKey`
is an element of a batch or one LookupAndDelete. Where that call fails the code
falls back, key by key, to a Lookup (`LossyRead`, `LossyReadFails`) and then, either
way, a Delete (`LossyDelete`, `LossyDeleteFails`, whose error is ignored); pollQuic
does the same and never uses batches. `BatchError`, `PollQuic`, `PollEnd` (drop
counters to OnDrops) and `Deliver` follow. Shutdown is `StopRequested`, `LoopExit`,
the final poll, `ClosePublisher`, `CloseLoader`. Four history variables name what the
properties except: `overlapped`, the calls whose write raced a delete; `unseen`,
those in an element that was deleted after its Lookup failed; `kept`, those that were
read from an element whose Delete failed; and `due`, what was recorded when the loop
exited. `ReadEvent` stands for the event reader where IntentJoin is not composed in.

**IntentCache, IntentStore, IntentRecency** — the two-generation cache; the
abstract map that may forget but never lies, which it implements; the same cache
with history variables that say how old each key is.

**IntentJoin** — composes FlowDrain and IntentCache: the event reader's
`HandleConnect`, `HandleEstablish`, `HandleClose` and the poll handler's join of
each delivered flow with the dialed destination. `since` is history: how many
connections were recorded after a given one.

**Loader** — `Start` as one action per step, every one of which may fail:
`CheckRequired`, pruning by kernel features, `LoadAccepted`/`LoadRejected` around
the verifier (at most `MaxRemovals` programs removed), required and optional
attachments, the fentry/kprobe decision, DNS capture, configuration, readers;
`Close` undoes.

### What flows are joined against

**Enricher** and **Sidecar** — PID caches; each read of `/proc` is a step of its
own during which processes fork, exit and reuse the PID (`ForkExit`, external).
The two threads are the event reader and the poller. `comm` and cgroup are read
separately, as in the code.

**DnsTracker** — the address cache, its ring, TTL clamping and counters. Time is
the remaining lifetime of each entry.

**PodIndex** and **ServiceIndex** — the informer's handlers. A watch
may deliver any update, resync or deletion next, skip intermediate states, and
report a pod that was deleted and created again under its name as an update; the
CNI gives an address to one running pod at a time (external, `Deliverable`);
pods on the host network, which share their node's address, are left out.
`onNode` is two steps because the code releases the lock between recording a node
and feeding the resolver. `contended` is history: the addresses two pods were
seen to hold at once and for which no event of the present holder came since.
Endpoint slices keep order and multiplicity, because removal takes the first
match. Which of several services at an address is listed first depends on the
order of a resync, so no property speaks about it.

### How flows are classified

**Classifier** — the tables and their setters, each atomic under its lock, and
`Classify` as one step per critical section: the cluster CIDRs, then the prefix
list with the NAT tables, then the source's zone, then the destination's. An
address is its `Width` bits, a prefix its first address (host bits zero) and its
length; `Build` is the insertion sort of the code and `Lookup` its first hit,
against `MostSpecific`, the definition of longest match. `Answer` is Classify read
at one moment; `call.seen` collects it over the moments of a call (history).
`defaultRouteNAT` and the NAT addresses are consulted where the code consults
them, for public and for private destinations.

**Topology** — extends Classifier with the refresher and the provider: `Tick`, and
per step of `refresh` a call that returns (`Fetch`), fails (`FetchFails`) and is
applied (`Apply`, or `ApplyUnguarded` when LocalVPCCIDRs fails). The account
(external) changes between any two of these. The API lists what the caller may
see, other VPCs included; route tables, peerings and subnets are selected from it
as the provider's code does. The provider may be without an EC2 client (`ec2`,
chosen when the agent starts): its calls then return nothing and no error, which
empties the tables, except for the route query, which fails. `OthersSet` are the
informer's pod CIDRs and pod zones and an operator's endpoint ranges.

### What flows turn into

**RateCards** — refresher ticks, the provider's cache, the two price requests
and an API that comes and goes. In a region that `regionToLocation` does not list
(`listed`) every fetch fails, whatever the API does. **Metering** — tiered pricing in
whole gigabytes and cents: `BeginFlow` takes the tier position under the lock,
`PriceFlow` prices it afterwards by the loop of `tieredCost` with its early end;
`MarginalFlow` is the stateless mode; months end and resets happen at any step.
`FlatFlow` stands for every type priced per gigabyte alone: single-tier rates, the
transit gateway, and types or cards without a rate, which cost nothing. The tier table
stays the same within a behaviour, although the refresher may replace the card in the
middle of a period: a bill over two tables has no reference to compare with.
**Exporter** — `UpdateFromPoll` as one step per flow, scrapes as two steps around
podMu, and clients that need not read. **Delivery** — the work queue (external,
including lost verdicts, ack timeouts and the server-side delivery cap), `processMsg`
with its backoff, crashes, and the ladder subscribe with the cap → set the durable's
cap in place and retry → subscribe without it. The durable's cap is a number, or it has
none, and need not be the configured one; a durable that the code creates gets only
what is published later (`nats.DeliverNew()`), and `missed` has the batches that were in
the stream then. `warned` has the caps with which the last rung bound, each of which is
logged as an error. Duplicate deliveries reach the handler by design; the handler is
downstream of this repository. **ServiceGraph** — the snapshotter's query, build row by
row and swap, and a reader that loads the pointer once and attributes origin by origin
while the next snapshot is built. Responsibilities are integers: 1 is `Scale`. In the
run `Scale` is such that each quotient of each round is exact; for any other `Scale`
quotients are rounded down. Direct, induced and total amounts are rounded to cents
(`round2`, with `Cent` the cent in the unit of the rows), and an origin whose total
rounds to nothing is left out of the chargeback.

### Modules for TLC

`MCFlowScenarios`, `MCFlowDrain`, `MCCaches`, `MCDnsTracker`, `MCDestinations`,
`MCAgentIO`, `MCTopology`, `MCCosts` give the function-valued constants and
symmetry sets. Five of them check independent things in one state graph:

* `MCFlowScenarios` chooses in the initial state which sockets are used, one of
  three traffic mixes; the others are closed from the start and make no calls.
  The mixes are checked beside each other in one run, not together.
* `MCCaches` chooses which of the three caches moves (`subject`). The caches
  share no variable, so an invariant of one holds of their interleaving exactly
  if it holds when the others stand still.
* `MCDestinations` (intent join, pod index, service index), `MCAgentIO` (loader,
  exporter, delivery) and `MCCosts` (meters, rate cards, service graph) do the
  same; the fairness of each part is restated for its part.

The modules named `...Proofs` hold theorems only (section 4): FlowDrainProofs,
DnsTrackerProofs and TopologyProofs extend their component, AgentIOProofs,
CachesProofs, DestinationsProofs and CostsProofs the module above that composes
several. FoldProofs belongs to no component: it has induction in the form the
provers can use, and what the folds and sums of the community modules compute.

The component modules have a `TypeOK`. FlowDrain's is an invariant of a run and a
theorem; the others hold on the instances of the runs and are left out of them,
since the properties listed say more.

---------------------------------------------------------------------------

## 3. Runs

Each `.cfg` is one question. Every property of a passing run has a mutant in
`PROJECT.json`, a definition next to the one it replaces, marked "Mutant:" in
the module, that breaks the property.

| Run | Question | Properties |
|---|---|---|
| FlowDrain | programs on two CPUs, the key-by-key poller with every call of it failing, and shutdown: does every byte end up where it belongs? | NoDoubleCount, Conservation, Attribution, FinalFlushComplete |
| FlowDrainLive | is every admitted call eventually reported, while the kill switch flips, connections are sampled and batch calls fail? | TypeOK, EventuallyReported |
| FlowDrainRace | do increments survive a drain, as the poller's comment says? **No** | IncrementsSurvive (violated) |
| Caches | what may the intent cache and the enricher answer? (The sidecar detector moves beside them; what it should promise is false, section 5.) | Bounded, RecentKnown, ImplementsStore, AnswersRecent |
| DnsTracker | how far does the cache outgrow its ring, what does Lookup answer as time passes? | CacheBound, FreshAnswers, CountersBounded |
| Destinations | what is a flow's far end taken to be? Reused tuples around an intent cache that rotates, and events dropped at a full ring; pod, node, slice and service events in any order, reused addresses, recreated pods, late labels, overlapping slices | OpenKnown, InstanceTypeFilled, ZoneFollowsPod, SettledAddressKnown, EndpointsExact, ClusterIPKnown |
| AgentIO | every way Start can go; polls and a scrape interleaved, clients that stall; lost verdicts, timeouts, failures, crashes, a durable with any cap or none | OneCounterPerByte, RunningMeasures, StartEnds; RingMatchesPods, EachByteOneCounter, PollCompletes; LossExplained, LadderBinds, BatchesSettled |
| DeliverySilent | is every dropped batch logged, as the subscriber's comment says? **No** | NeverSilent (violated) |
| Topology | a changing account, a failing API, a provider without a client, other writers, and flows classified throughout | LongestMatch, AnswerOfOneMoment, LocalNotPeered, EventuallyCurrent |
| TopologyZones | does an address of a local subnet resolve to that subnet's zone? **No** | ZoneIsOwn (violated) |
| Costs | concurrent callers and month ends against a per-GB bill; refresher against cache and API, in a listed region or not; chargebacks, in cents, against a table that changes and queries that fail | BillExact, MarginalIsCeiling; LiveIsRecent, EventuallyLive; RootsPayAll, SharesGrow |
| CostsConserved | does attribution conserve dollars, as its comment says? **No** | DollarsConserved (violated) |

What some of them say, since it is easy to misread:

* **AnswerOfOneMoment**: if the tables changed at most once during a call, and
  not the source's own zone, the answer is one that reading everything at some
  moment of the call would have given. Nothing is claimed for two changes: a call
  that reads the cluster CIDRs before the first and the tables after the second
  may mix them, and so may one whose source zone is replaced between its reads.
* **EventuallyCurrent**: if the provider has its EC2 client, every table comes to
  show the account and stays so once the account settles and calls stop failing.
  (Without one the tables stay empty, and the other properties are checked of that
  too.) It holds of the zone table because the node's own subnet is always listed:
  an *empty* mapping is ignored by refreshSubnetZones and would leave the old one
  for ever.
* **LocalNotPeered** holds because GetVPCPeerings itself leaves out the local
  side; the guard in refreshVPCPeerings is a second line, and the property says
  that its own call failing does no harm.
* **SettledAddressKnown** excepts contended addresses, for which the index is
  really wrong (`PodIPKnown`, section 5).
* **RootsPayAll** sums over the services nobody calls. On any graph, at any point
  of the loop over the origins, they are not charged more than was incurred
  (RootsNeverOverpay, its first half); when the chargeback of a graph without a
  cycle is finished they are not charged less. Both up to half a cent for each root,
  which is what rounding each total may add or take; leaving out a total that rounds
  to nothing takes no more than that. `of`, the table's rows when the query ran, is
  history. On cyclic graphs the iteration cap may cut a share short, and nobody may be
  a root.
* **OpenKnown**: the cache answers what an open connection dialed, or nothing, never
  what another one dialed. It has the answer while at most `Max` later connections
  have been recorded; after that two rotations may have forgotten it, however long the
  connection lives.
* **LossExplained** allows four reasons for a batch that is never handled: a log line
  of its own; it was in the stream before the consumer was created; an attempt whose
  verdict never arrived; or a consumer that stops before the configured number of
  deliveries, and then the ladder has logged that it bound without the cap. The last is
  a line about the consumer and not about the batch, and says something else
  (`BoundOnlyByClient`, section 5).
* **PollCompletes** excepts a poll behind a client that stops reading for good while
  its scrape holds podMu. The server has no write timeout, so nothing bounds that wait.
* **EventuallyLive** has two halves: live rates come and stay in a region the price list
  names, once the API stays reachable; in any other the store ends up with the defaults,
  marked as a fallback.

### Bounds, and why they are enough

* **FlowDrain**: two CPUs, because every race here is between two programs or a
  program and the poller; one element of each map, so that a full map, a recycled
  element and two keys competing for it all happen; two live connections in an LRU
  map of two, one record of `cookie_to_original_dst`, a ring buffer with no room
  (FlowDrainLive and Destinations have room). The mixes: an outgoing and an
  accepted TCP connection; an outgoing one beside a sidecar's, which also
  retransmits; two QUIC datagrams and a reply on a UDP socket. LookupAndDelete
  exists and may fail at any key, so the atomic drain and the two-call fallback
  are both explored, with each of the fallback's calls failing. Batch drains and
  their errors are checked by FlowDrainLive, and all modes, any number of
  everything and every combination of flags by the theorems of section 4
  (FinalFlushComplete under the condition given there).
* **Conservation and Attribution** except calls in `overlapped`, `unseen` or `skipped`:
  the three windows in which the code really loses bytes. FlowDrainRace shows that the
  first is real; the second opens when the fallback's Lookup fails, and the Delete that
  follows takes the bytes along, with no log line and no counter; the third is
  `GapsAreCounted` (section 5). The properties say that nothing else is lost.
  **NoDoubleCount** excepts `kept`: a read element whose Delete failed is read once more
  at the next poll (`ReadOnce`, section 5).
* **Caches**: four keys against generations of two, ages counted to four, that
  is two full rotations; two PIDs against a cache of one and two readings of the
  clock. One container and one host process suffice for the enricher: it stores
  and returns a container without looking at it.
* **DnsTracker**: four addresses and a ring of two; the bound 2·2−1 = 3 is reached.
  TTLs below, at and above the clamp.
* **Destinations**: two sockets that share a tuple and a third with its own, on
  generations of one entry, so that every record rotates; a ring buffer of two, which
  overflows; two pods, nodes, zones and slices
  with one shared address and one restart each; two services and one ClusterIP
  that can change hands. Pods and zones are interchangeable (symmetry).
* **Loader**: `MaxRemovals = 5` as in the code, against twelve optional programs.
* **Views and constraints**: FlowDrain and Destinations have a VIEW that leaves
  out variables which no guard, no other assignment and no property of that run
  reads (the last reported drop counters; in Destinations the join's accounts of
  bytes and drops), so merging states that differ in them alone loses nothing.
  Destinations explores up to SIGTERM (`BeforeShutdown`): shutdown touches neither
  the cache nor the indexes.
* **Delivery**: an older consumer without a cap, with half the configured one, the same
  and one more; four attempts, so first, middle, last capped and last backoff
  differ; one poison batch; three faults, enough for every attempt of the ladder
  to fail.
* **Costs**: a tier table whose free tier, first price and open tier are all
  crossed within five gigabytes, with flows of up to two; one month end.
  `Interval = CacheFor`, as in the code.
* **ServiceGraph**: up to `MaxRows = 4` of seven rows that make chains, a diamond,
  a cycle, an idle edge and an edge with two traffic types, one change of the
  table (`MaxChanges`); five rounds, one more than the longest path needs, and
  `Scale` = 6^5 = 7776: each round divides by an inbound total of 1, 2 or 3. `Cent`
  = 2, so that an odd cost, and a half or a third of any, is rounded, up or down or to
  nothing.
* **Topology**: three-bit addresses, of which 0-3 are private and 7 loopback; a
  local VPC of two subnets, a peer, and a third VPC that reuses the local
  addresses; endpoint ranges inside the peer's; route tables in which the first
  match, the main table and another VPC's table differ. One change of the account
  (`MaxChanges`), one write by others (`MaxWrites`), one failing call
  (`MaxFailures`): each may fall between any two steps, and any two of them
  within one refresh and one classification. Two more changes add interleavings
  for which AnswerOfOneMoment claims nothing.
* **Exporter**: three pods in a ring of two; polls of up to two flows, four in all.

### Fairness, and why the code justifies it

* FlowDrainLive: weak fairness of the poll loop (a goroutine with a ticker; a
  poll step never blocks) and of a running BPF program's return (the verifier
  admits terminating programs only), and strong fairness of each key's drain:
  batch calls may fail at any poll, but not at every poll before the same flow
  (`PassingErrors`). The code retries at every tick and does nothing else about an
  error, so a batch call that always fails at one place would starve the flows
  behind it. Nothing is assumed about traffic, sockets,
  the kill switch or signals. Reporting is promised while the agent runs; what
  shutdown owes is FinalFlushComplete.
* Loader: weak fairness of Start, which is sequential code without waits.
* Delivery: the server redelivers, ack timers fire, the subscriber's goroutine
  runs and a supervisor restarts it. Faults are bounded (`MaxFaults`), so the
  verdicts of a subscriber that is left alone arrive.
* Exporter: weak fairness of the poll's own steps, strong fairness of taking
  podMu (Go mutexes do not starve a waiter). Nothing is assumed of scrape clients;
  PollCompletes excepts the poll behind one that never reads on.
* Costs: the clock advances, the refresher's goroutine runs, requests return.
* Topology: the ticker fires, the refresher's goroutine runs and calls return.
  The last is an assumption: metadata requests have a deadline of two seconds, EC2
  requests none of their own. That calls stop failing and the account settles is
  in the bounds. Nothing is assumed about flows or other writers.

CHECK_DEADLOCK is FALSE where behaviours end at a bound or where the system may
come to rest: AgentIO and DeliverySilent (all batches settled, all flows folded,
Start ended), Topology, Costs.

---------------------------------------------------------------------------

## 4. Proofs

TLAPS checks these for every value of the constants the assumptions allow. The
theorems of a component that runs beside others are about the specification the
run checks (`AgentIOSpec`, `CachesSpec`, `DestinationsSpec`, `CostsSpec`), in
which the other parts move too. Every safety invariant and every refinement that
a passing run checks has its theorem; RootsPayAll has one for its first half.

| Theorem | Module | Says |
|---|---|---|
| FlowDrainTypeOK | FlowDrainProofs | Spec => []TypeOK for data plane and poller |
| EachByteAtMostOnce | FlowDrainProofs | no call is ever counted twice, unless a Delete failed after the read (NoDoubleCount) |
| BytesConserved | FlowDrainProofs | an admitted call is somewhere, counted as dropped, or in one of the three windows (Conservation) |
| BytesAttributed | FlowDrainProofs | what is delivered under a key was sent on it (Attribution) |
| ShutdownLosesNothing | FlowDrainProofs | if `~DrainErrors`: what was recorded when the loop exited is delivered before the loader closes (FinalFlushComplete) |
| JoinImplementsDrain | DestinationsProofs | the composition with event reader, join and informer implements FlowDrain |
| OpenConnectionKnown | DestinationsProofs | for an open connection the cache answers what it dialed or nothing, and answers while at most `Max` later ones were recorded (OpenKnown) |
| CacheBounded | CachesProofs | the two generations never exceed twice the limit |
| CacheImplementsStore | CachesProofs | the cache implements the abstract lossy map |
| CacheRecency | CachesProofs | a key put less than a generation ago is answered |
| DnsCacheBound | DnsTrackerProofs | the DNS cache holds at most 2·RingLen−1 entries |
| DnsCountersBounded | DnsTrackerProofs | at most MaxQueryCounters domains are counted (CountersBounded) |
| DnsFreshAnswers | DnsTrackerProofs | an address is named by its latest resolution, between MinTTL and MaxTTL (FreshAnswers) |
| InformerClusterIPKnown | DestinationsProofs | a service's ClusterIP names that service (ClusterIPKnown) |
| InformerInstanceTypeFilled | DestinationsProofs | every index has the instance type of the pod's node, in any order of events |
| InformerZoneFollowsPod | DestinationsProofs | an address is priced with the zone of its pod's node |
| InformerSettledAddressKnown | DestinationsProofs | an uncontended address names the pod that has it |
| InformerEndpointsExact | DestinationsProofs | an address is listed for a service as often as the delivered slices say (EndpointsExact) |
| EnricherAnswersRecent | CachesProofs | Lookup names a container the PID was in less than TTL ago (AnswersRecent) |
| LoaderOneCounter | AgentIOProofs | no function has two recording programs (OneCounterPerByte) |
| LoaderRunningMeasures | AgentIOProofs | a running agent has its connection hooks and both TCP directions (RunningMeasures) |
| ExporterRingMatchesPods | AgentIOProofs | the tracked pods are those in the ring, one slot each (RingMatchesPods) |
| ExporterEachByteOnce | AgentIOProofs | a byte handed over is counted once, and pods get no more (EachByteOneCounter) |
| SubscriberLadderBinds | AgentIOProofs | the ladder fails only after two failing requests (LadderBinds) |
| SubscriberLossExplained | AgentIOProofs | whatever cap the durable has, a batch that is never handled has one of four reasons (LossExplained) |
| LiveCardsRecent | CostsProofs | a live card is at most one expiry and one interval old (LiveIsRecent) |
| SingleMeterExact | CostsProofs | what flows were charged is the bill of the whole volume (BillExact) |
| MarginalModeCovers | CostsProofs | marginal mode charges the bill or more (MarginalIsCeiling) |
| AttributionSharesGrow | CostsProofs | on any graph shares stay in [0, 1] and never fall (SharesGrow) |
| ChargebackNeverOverpaid | CostsProofs | on any graph the roots are charged at most what was incurred and half a cent each (RootsNeverOverpay) |
| TreeFindsLongest | TopologyProofs | the sorted list answers with a most specific range (LongestMatch) |
| LocalNeverPeered | TopologyProofs | no local range is in the peering table (LocalNotPeered) |
| OneSwapOneMoment | TopologyProofs | a call that meets one swap answers as at one of its moments (AnswerOfOneMoment) |

**Assumptions.** `DataPlaneAssumption` (keys, elements and null values are
distinct; tuples, calls and flags have their types; capacities are positive, the
ring buffer's may be zero), `FlowDrainAssumption` (its four constants are
Boolean), `IntentCacheAssumption`, `IntentJoinAssumption`, `RecencyAssumption`,
`DnsAssumption`, `DeliveryAssumption`, and of the components that are instantiated
`AgentIOAssumption`, `CachesAssumption`, `InformerAssumption`, `CostsAssumption`,
each the conjunction of their `ConstantsOK`: limits and periods are positive
naturals, and the null value is none of the values it stands beside. TLC
evaluates each in a run. The DNS and recency arguments count elements and also
use that the address or key sets are finite.

Further: `TopologyAssumption` (AWS refuses to peer VPCs that overlap; a subnet
lies in its VPC), `TierTablesAssumption` (thresholds ascend, none occurs twice,
and the last tier has no end: what `pkg/cost/ratecard.go` says of TieredRate, and
what every default table does; for live tables see section 6), `FallingPrices`
(paid tiers get cheaper, which every default card does and only MarginalModeCovers
needs), and where sums occur that what is summed over is finite: callers, traffic
types, peerings, endpoint ranges, slices, and the rows of the service graph's
table. `Scale` is any positive number: the two theorems about chargebacks do not
need exact quotients.

One theorem has a hypothesis of its own, because the property is false without it:
ShutdownLosesNothing assumes `~DrainErrors`. A failing iteration or batch call leaves
flows for the next tick, and after the final poll there is none. Batch, atomic and lossy
drains and the failures of single calls are all covered.

**The ledger argument.** NoDoubleCount is not inductive: it says where a call
is, not why a program that is about to write cannot write it a second time.
`LedgerInv` adds

* `LinkInv`: a key has one element and a free element is empty — so a drain that
  unlinks an element takes all of its calls, and a recycled one starts clean;
* `HookInv`: a running program's call is at that program's stage, is admitted and
  runs nowhere else; its key is its own socket's; the element it holds is still
  linked under that key unless a delete overtook it;
* `StageInv`: a call that a program may still record is not recorded anywhere.
  This is where UDP ownership enters: a datagram goes from the socket hook to the
  TC hook, and if the first has recorded it, `UdpSocketTx` keeps the second out;
* `PollInv`: outside a poll nothing is collected, and the publisher closes only when
  no poll is under way;
* `HalfInv`: of what the flows and the element of a half-drained key share, all was read
  by that key's own Lookup — so a Delete takes only what was read, what is `unseen`, and
  what raced it;
* `SlotInv`: a call is in one per-CPU copy of one element, read or unread.
  (NoDoubleCount alone excepts the element the lossy drain has read and not yet
  deleted.)

Each action preserves each conjunct; the proofs have one step per action and
conjunct that it can disturb. The types are proved first, and
everything else cites them.

**Shutdown.** `FlushInv` follows a due call through the final poll: it is
delivered, overtaken or `unseen` (`Flushed`), in the snapshot, or in an element
whose key the poll has still to visit (`AwaitsFlush`). The kernel's programs,
which keep running, only add to linked elements (`KernelKeepsElements`), so a due
call leaves an element by the poller's hand alone. When the poll ends there is
nothing left to visit and the snapshot is delivered.

**The intent join.** First, every step of the composition is a step of FlowDrain
or leaves its variables alone, which is JoinImplementsDrain; types and the ledger
theorems therefore hold of the composition. Then the reuse of a tuple. Two
sockets are rivals if they share a key; of two rivals one is closed before the
other opens. `OrderInv` says that the ring keeps that order: a rival's events
come before an open connection's establish event, and once that one has been
handled, no event of a rival is left to overwrite or delete the entry. A full ring
drops events but does not reorder them. The cache may forget an entry but not put
another in its place, which is the first half of OpenKnown. The second is about age:
`since` counts the records made after a connection's own, and a generation takes `Max`
of them before it rotates, so the entry is in one of the two generations until there
were more than `Max` (`OpenPlaced`).

**The informer.** The three pod properties are proved together, as one invariant
`PodInv`: onPod fills an index from the node tables and onNode back-fills the
indexes, so each is the other's hypothesis. It adds that the name index is what
the watch delivered last (`NameIndexed`), that an address two pods hold is
contended, and that onNode between its critical sections carries the zone it has
recorded.

**PID caches.** What the enricher has cached, or is about to store, was seen
after the instant `cachedAt` (`CacheOK`, `CallOK`): resolve takes the time before
it reads `/proc`, and an entry that a late store brings back after an Evict is
no older than it says. The expiry test turns that into the bound on the answer.

**Loader, exporter, delivery, rate cards.** `LoaderInv`: only what is in the
collection is attached, and the collection has lost one of the two halves, fentry
or kprobe, before anything is attached; this is why falling from a half-attached
fentry pair to the kprobes never counts twice. `RingInv`: the ring is full, or
filled up to the position written next, so comparing the number of pods with the
limit tells an empty slot from the oldest pod. `LadderInv` counts the failures
behind each rung. `SettleInv`: while no attempt of a batch was cut short, its
delivery in the callback's queue is the only one and the latest, so a cap that is
not below the configured one is reached in processMsg, which logs. `CapInv`: a
bound consumer with a lower cap was bound by the last rung, which logs too.
`RecentInv`: between refreshes a live card's age and the time to the next tick
share one budget, `CacheFor + Interval`.

**The cache arguments.** Bounded is inductive once types are known, because a
full generation rotates before an insertion. The recency invariant relates a
key's age to how full the current generation is. The DNS bound needs
`OrphanBound`: entries whose slot has been overwritten number at most RingLen−1,
because an insertion that orphans one also uses up a slot. The step case counts
with the finite-set theorems of the library. `FreshInv` relates each entry's
remaining lifetime to the age of the resolution it is from (`EntryFresh`).

**Induction over data.** The library's induction theorems take an operator as a
parameter, which the provers here cannot instantiate. FoldProofs gets around it:
from the well-foundedness of the naturals, stated of a relation and hence a
first-order fact, it derives that a *set* of naturals with 0 and all successors
is Nat (`Induction`), and from that induction over finite sets (`SetInduction`)
and that the recursive functions behind MapThenFoldSet and FoldLeft exist
(`FoldExists`, `FoldLeftExists`). The rest is what sums obey: adding, removing or
changing one term, comparing and adding two sums, scaling one, splitting the
index set, exchanging two sums (`SumExchange`), and how often a value occurs in a
sequence after Append, concatenation and RemoveFirst. A property of all n is then
proved as "the set of the n that have it is Nat".

**Endpoint slices.** `SliceInv`: `endpointsBySlice` has, per slice, the entries of
the object delivered last, and the index has each endpoint as often as those lists
together. Removing a slice therefore takes exactly its own entries, although
removal takes the first match and another slice may have put that one there: the
entries are equal, so only multiplicities matter (`AllRemoved`, `AllAdded`).

**The exporter's bytes.** `CountInv`: types and skipped add up to what was handed
over less what waits in the batch, and the pods to no more than the types.
Evicting a pod removes a term of the second sum, admitting one adds a zero;
`RingInv` says which.

**The meter.** `MeterInv`: what was charged plus what the callers between unlock
and price still have to charge is the bill, as a sum over tiers. A stretch splits
where the next one begins (`TierSplit`), so it does not matter in which order
callers price; a reset makes the stretches that are still held outdated. The loop of
tieredCost ends when nothing of the volume remains; by then every later tier's part is
empty, so it computes the sum over all tiers (`LoopIsSum`, from `TiersBelow`: the parts
of the first tiers add up to the volume below their end). That a
sum over tiers is the bill gigabyte by gigabyte is `EgressIsTiered`. In marginal
mode every gigabyte costs what the first paid tier asks; free tiers before it and
cheaper ones after it only lower the bill.

**Classification.** `TableInv`: the insertion sort yields a list in descending
order of length with exactly the entries of the three sets (`BuildSorts`,
`TreeBuilt`), hence its first hit is a most specific one (`FirstHit`); and the
peering table holds far sides of peerings with the local VPC only. Two prefixes
overlap if they agree on the bits of the shorter, so a far side that overlapped a
local subnet would overlap the local VPC, which AWS refuses. `CallInv` follows a call of
Classify: until the first swap the branches taken are those the tables still show
(`PathOK`); after it, what the rest of the call gives is among the answers seen
(`Outcome`), and that remains so until a second one.

**Chargebacks.** A share is a mean of the sources' shares, weighted with bytes and
rounded down; means keep bounds and order, so by induction over the rounds shares
stay in [0, `Scale`], and as round 1 is not below round 0, no later one falls
(`InheritedBounded`, `InheritedMonotone`, `RoundsOrdered`). Summed over the roots,
the shares of a node are at most `Scale` in every round: a root has only its own,
and for the others the sum over roots and the sum over inbound edges are exchanged
(`RoundForRoots`). With the edges' costs as weights, and exchanging once more, the
roots are charged at most `Scale` times the cost of all edges (`RootsCharged`).
Rounding adds at most half a cent to a total (`RoundAddsHalf`), hence to a sum as
many halves as it has terms (`RoundedSum`). `BillInv` ties that to the table: a
graph under construction costs what the rows added so far cost, a published one
all rows of one answer, and a reader keeps the graph it loaded.

**Only model-checked**, and why:

* Liveness is out of the prover's reach: EventuallyReported, StartEnds,
  BatchesSettled, PollCompletes, EventuallyLive, EventuallyCurrent.
* The second half of RootsPayAll, that on graphs without a cycle the roots pay
  all. It is false of arbitrary constants: `Scale` has to make every quotient
  exact and `MaxIterations` to exceed the longest path. Stating both for every
  graph and proving convergence along its longest path is left open.

---------------------------------------------------------------------------

## 5. Where the code and its comments disagree

Four of the disagreements met while modelling are runs of their own:

* `FlowDrainRace`/IncrementsSurvive — `pkg/poller/poller.go:268-271`:
  "increments landing in between either make this snapshot or survive for the
  next tick". A program that looked its element up before the poller deleted it
  adds its bytes to an unlinked element. The window is a few instructions long.
* `DeliverySilent`/NeverSilent — `pkg/nats/subscriber.go:127-128`: "dropped data
  is logged, never silent". If the subscriber dies during the last delivery the
  server makes, nobody writes the line.
* `TopologyZones`/ZoneIsOwn — `pkg/classifier/zone.go:82-83`: "Resolve returns the
  availability zone for an IP address", and "empty string if the zone cannot be
  determined". GetSubnetZoneMapping (`pkg/cloud/aws/aws.go:204`) maps the subnets
  of every VPC the API shows, and the first range that contains the address
  answers; where VPCs reuse address space, a local address gets a zone of another
  VPC, perhaps of another region.
* `CostsConserved`/DollarsConserved — `pkg/servicegraph/attribution.go:67-68`:
  "summed over every possible origin, the attribution of any one edge equals that
  edge's cross-zone cost". Every origin is pinned at 1, so for A→B→C the edge B→C
  is charged in full to B and once more to A. RootsPayAll is what does hold.

The others are stated as definitions at the end of the modules, each quoting
the comment it is about. To see one, add it to the component's cfg as an
INVARIANT (as a PROPERTY where it is temporal); where another
configuration is needed, it is named.

* `GapsAreCounted`, FlowDrain, `pkg/ebpf/bpf/dns.bpf.c:122`.
  tollwing_udp_recvmsg_exit adds received bytes only if the flow has an entry,
  inserts none and counts no drop, so a receive after each drain is recorded
  nowhere. pkg/ebpf/bpf/maps.h:137-140 says of drop accounting that it counts
  "data the kernel side could NOT record" so that a dollar figure is "traceable,
  including its gaps".
* `ReadOnce`, FlowDrain, `pkg/poller/poller.go:311`. The error of the fallback's
  Delete is ignored; a flow that was read and stays in the map is read and reported
  again at the next poll. pkg/poller/poller_map_test.go:100 says "A second drain must
  return nothing (each delta accounted exactly once)".
* `QuicOwned`, FlowDrain (FlowDrain.cfg with `UdpSendmsgAttached = TRUE` and `V6
  = {u}`), `pkg/ebpf/bpf/tollwing.bpf.c:219`. tollwing_connect6 creates no
  connections entry for a UDP socket, so tollwing_udp_sendmsg finds none and
  records nothing, while the TC hook stands down because udp_socket_tx is set.
  pkg/ebpf/bpf/quic.bpf.c:14-17 says "UDP TX bytes have exactly one owner per
  agent run".
* `IntentRecovered`, IntentJoin, `pkg/agent/agent.go:579`. handleClose deletes
  the intent at once, while the connection's last bytes wait in flow_aggregates
  for the next poll and are joined without it. pkg/intent/cache.go:7-10 says the
  agent "joins it against poll snapshots, so the service-dependency graph can
  attribute traffic to the dialed service rather than the post-DNAT backend pod
  it happened to land on".
* `RingIsCapacity`, DnsTracker, `pkg/dns/tracker.go:293`. An address that is
  resolved again takes a second ring slot; when its old slot comes round,
  entries of other addresses have been left without a slot and are never
  evicted. pkg/dns/tracker.go:286-287 says "the ring length IS the cache
  capacity".
* `JustResolvedKept`, DnsTracker, `pkg/dns/tracker.go:293`. The slot being
  overwritten may hold the address that was just stored, and its fresh entry is
  deleted. pkg/dns/tracker.go:71 says "Ring buffer for LRU eviction", and :4
  "LRU cache": the least recently used entry goes.
* `FallbackAvailable`, Loader, `pkg/ebpf/loader.go:420`. Where HaveFentry holds,
  pruneOptionalPrograms removes both kprobe programs before anything is
  attached; if a fentry attachment then fails, attachKprobe finds no program and
  Start fails. pkg/ebpf/loader.go:196-197 says "Prefer fentry [...] Fall back to
  kprobe if fentry is unavailable".
* `OptionalNotFatal`, Loader, `pkg/ebpf/loader.go:464`.
  loadCollectionWithFallback removes at most five programs and then makes one
  last attempt, so a sixth rejected optional program is fatal.
  pkg/ebpf/loader.go:383-384 says optional programs "should not prevent the
  agent from starting if they fail to load".
* `PodIPKnown`, PodIndex, `pkg/k8s/informer.go:346`. onPodDelete deletes
  podIPToMeta[pod.Status.PodIP] whoever the entry belongs to; a completed pod
  keeps its address in its status after the CNI has given it to another pod. A
  resync of the completed pod, and the instance-type back-fill of its node,
  overwrite the entry in the same way. pkg/k8s/informer.go:239 says "LookupPodIP
  returns pod metadata for a pod IP".
* `UnknownNotGuessed`, PodIndex, `pkg/classifier/zone.go:130`. SetIPZone only
  ever adds; when an address moves to a pod on a node whose zone is not known
  yet, Resolve answers with the zone of the earlier pod.
  pkg/classifier/zone.go:83 says "Returns empty string if the zone cannot be
  determined" and docs/governance/audit-playbook.md:60 "`Unknown` is returned,
  not guessed".
* `OnlyLiveContainers`, PodIndex (with `MaxRestarts = 2`),
  `pkg/k8s/informer.go:340`. onPod adds the container IDs of the current status
  and onPodDelete removes those of the last one; the IDs from before a container
  restart stay. pkg/k8s/informer.go:204-207 says of the same defect in another
  index: "leaked in podIPToServices forever — unbounded state (P2) and stale
  dst_service attribution".
* `ClusterIPOwned`, ServiceIndex, `pkg/k8s/informer.go:568`. onService writes
  the current ClusterIPs and removes none, and onServiceDelete removes those of
  the last object, so an address a service has given up stays mapped to it.
  pkg/k8s/informer.go:612 says "LookupClusterIP resolves a pre-DNAT ClusterIP to
  its owning service".
* `CacheCapped`, Enricher, `pkg/enricher/enricher.go:275`. EnrichComm stores its
  minimal entry with no size check and no eviction.
  pkg/enricher/enricher.go:45-46 says "MaxCacheSize caps the enricher cache to
  prevent unbounded growth. When exceeded, expired entries are evicted."
* `SidecarCurrent`, Sidecar, `pkg/enricher/sidecar_linux.go:37`.
  IsSidecarProcess returns the cached verdict for ever: no code calls
  InvalidatePID, so a process that gets a proxy's PID has its bytes skipped as
  sidecar traffic. pkg/enricher/sidecar_linux.go:61 says "InvalidatePID removes
  a cached PID entry (e.g., when process exits)".
* `FreshIsCapped`, Delivery, `pkg/nats/subscriber.go:265`. Any failure of the
  first subscribe leads to subscribe(false); with no durable yet, that creates
  one without the cap. pkg/nats/subscriber.go:231 says "subscribe with
  MaxDeliver — fresh installs and already-upgraded consumers bind here".
* `BoundOnlyByClient`, Delivery, `pkg/nats/subscriber.go:265`. When the upgrade of an
  existing durable fails, subscribe(false) binds it with the cap it has; a lower one
  than configured stops redelivery before processMsg gives up, and no line names the
  batch. The message at :271-273 says "redelivery is bounded only client-side until the
  consumer is fixed".
* `PollUnhindered`, Exporter, `pkg/exporter/prometheus.go:411`. handleMetrics
  holds podMu while it writes the pods to the client, and the server sets no write
  timeout; UpdateFromPoll takes the same lock. pkg/exporter/prometheus.go:343 says
  "Lock-free: all state is accessed via atomics".
* `EveryInterval`, RateCards, `pkg/cloud/aws/aws.go:563`. rateExpiry is set
  after the fetch, six hours from then; the next tick comes six hours after the
  tick that started it, finds the card unexpired and stores it again.
  pkg/agent/agent.go:396 says "fetches real rates every 6 hours".
* `SourceHonest`, RateCards, `pkg/cloud/aws/pricing.go:69`. A failed NAT gateway
  price request is logged and the card, with the default NAT price, labelled
  aws-price-list-api and dated now. pkg/cloud/aws/pricing.go:75-76 says "every
  rate is dated and sourced".
* `FallbackFlagged`, RateCards, `pkg/agent/agent.go:315`. initCostEngine stores
  the default card with Fallback unset, and nothing replaces it when no provider
  is available. pkg/cost/ratecard.go:58-59 says "Fallback is true when these
  rates substitute for a live pricing fetch that failed or was never
  configured".
* `OneAllowance`, Metering (with two regions), `pkg/cost/engine.go:197`. The
  meter's key includes the region, so the free tier is granted once per region.
  pkg/cost/ratecard.go:241-243 says "First 100 GB/month free — aggregated ACROSS
  the whole account (all services, all regions)" and "Only the single-meter
  pricing mode may grant it".

For a module that an MC module takes by INSTANCE (Enricher, Sidecar, Loader,
Exporter, PodIndex, ServiceIndex, RateCards), add a definition such as
`Capped == E!CacheCapped` to the MC module and name that.

Seen while reading, and not stated as definitions:

* `pkg/cloud/aws/pricing.go:49`: in a region that regionToLocation does not list every
  fetch fails, so the agent prices with the defaults for ever (marked as a fallback).
* `pkg/exporter/prometheus.go:277`: the connection gauges are stored as zero and
  counted up flow by flow, so a scrape in between sees a count that no poll had;
  :273 says "Connection counts reflect the current snapshot".
* `pkg/exporter/prometheus.go:317`: a pod's ring slot is not moved when it has
  traffic, so eviction is by admission; :135 says "ring-buffer LRU eviction".
* `pkg/cloud/aws/aws.go:259-311`: GetVPCPeerings copies a peering's status and
  nothing looks at it, so pending, rejected and deleted peerings count.
* `pkg/cloud/aws/aws.go:364-369`: attachments are listed without CIDRs, so the
  classifier's transit gateway ranges are always empty with this provider.
* `pkg/cloud/topology.go:214`: an empty subnet mapping is ignored, so a table that
  was filled is never emptied.
* `pkg/agent/agent.go:606`: the agent's call of Classify sets neither hint, and
  AddLocalIP and SetClusterCIDRs have no caller in the agent.

---------------------------------------------------------------------------

## 6. What is not modelled

* **Data**: packet parsing (DNS, QUIC), byte layouts, float arithmetic, label
  formatting, logging. Flow sizes are provenance (section 2). Prices are whole cents
  of whole gigabytes in Metering, so its float64 sums are exact here; ServiceGraph
  rounds to cents as the code does, but on exact amounts: a float64 that falls on the
  other side of a half changes a total by a cent and stays within the half cent the
  properties allow, up to the float's own error.
* **Tier tables with a repeated threshold**: pricing.go appends a tier for each price
  dimension, so a live table may have one. `tieredCost` does what the code does then
  (the first tier takes the volume), but such a table does not say what a gigabyte
  costs, and the properties are about tables without. Live tables need not get cheaper
  either, which only MarginalIsCeiling asks. A card replaced within a period is left
  out (section 2).
* **Fetch times**: LiveIsRecent counts whole instants; a fetch may add its 30 seconds.
* **Peerings that AWS refused**: GetVPCPeerings ignores the status, so a failed request
  between VPCs that overlap could be listed. TopologyAssumption excludes it, and with it
  the case in which the guard of refreshVPCPeerings alone keeps a local range out.
* **Server-side limits** of the JetStream stream (age, size, discard policy) are the
  server's, and so is whether it accepts DeliverNew on a work queue; Delivery has the
  delivery cap, the ack wait and DeliverNew. The subscriber's orderly stop
  (`sub.Drain`) is left out; Crash is the harder case.
* **Metadata queries** of the zone resolver and the provider, the SDK adapter, the
  published service ranges (fetched, and by decision fed to nothing) and billing
  reports of the AWS provider.
* **Readers of the service graph** other than the chargeback: Chokepoints,
  FindService, contributor lists.
* **Vendored and generated headers** (`vmlinux/*.h`, `include/bpf/*.h`): some
  300,000 lines of kernel type definitions and libbpf helpers, no part of this
  system's logic.
* **DNS service mapper, bill reconciliation, offline scan, Terraform estimator,
  OpenCost plugin**: stateless functions or reports over external queries.
* **Simulator, governance tools**: test code and repository tooling.

---------------------------------------------------------------------------

## 7. Plan

The order was: the byte path first, since every number the system shows depends
on it (DataPlane, FlowDrain, their proofs); then what its flows are joined
against (IntentCache and IntentJoin, DnsTracker, Enricher, Sidecar, PodIndex,
ServiceIndex); then where they go (Metering, RateCards, Exporter, Delivery); and
the Loader, which decides which of the programs run; then how flows are
classified (Classifier, Topology) and who is charged (ServiceGraph). That part
is done. Next:

1. **Proofs**: every safety invariant a run checks is proved, except for the
   second half of RootsPayAll (section 4). Left are that half, on acyclic graphs
   with enough rounds, and the types of the components beside FlowDrain as
   theorems of their own (the proofs carry the parts they need).
2. **Model**: tier tables that change within a period, against a bill that keeps the
   table of each gigabyte; peerings that failed and overlap, so that the guard of
   refreshVPCPeerings is what keeps local ranges out.
3. New independent components join a run that exists (as in MCCaches) rather
   than adding one, unless they ask a new question.
