# Formal models of the LLM serving simulator

This directory holds TLA+ models of the simulator's event-driven core
(`src/serving`), the TLC configurations that check them on small instances, and
theorems proved with TLAPS for every instance. `PROJECT.json` maps every modelled
definition to the lines it translates and lists runs, mutants, hazards, findings
and theorems.

Run a model with `tlc -config HBF.cfg MCHBF` and check proofs
with `tlapm SchedulerProofs.tla`.

Contents: [1 Inventory](#1-inventory) · [2 Modules](#2-modules) ·
[3 Runs, bounds, fairness](#3-runs-bounds-fairness) · [4 Proofs](#4-proofs) ·
[5 Findings](#5-findings) · [6 What is not modelled](#6-what-is-not-modelled) ·
[7 Plan](#7-plan)

## 1 Inventory

The simulator is single-threaded. Its concurrency is that of *simulated* actors:
NPUs that call back when a workload ends, workers and links that finish jobs at
their own time, sessions that release their next call. What makes it hard is the
order in which those events reach state that several requests share, and what
happens to memory counted in one callback and used in a later one.

Two generations of serving system live side by side:

**A. The instance simulator** (`serving/__main__.py`, `core/router.py`,
`core/scheduler.py`, `core/memory_model.py`, `core/request.py`,
`core/radix_tree.py`, `core/agentic_kv.py`). The main loop receives a callback of
one NPU from the network simulator, runs `add_done`, routes what has arrived,
calls `schedule`, and submits the batch it returns.

**B. The P4D4 node simulators** (`core/gpu_pd_*.py`, `core/hbf_*.py`). Analytical
event loops in Python: a prefill worker P, a decode worker D, a peer fabric
between them, and byte books for HBM and lower tiers.

| Component | State | Operations | Talks to | Hard behaviour | What makes it correct |
|---|---|---|---|---|---|
| `Scheduler` + `MemoryModel` + `Request` | queue, batches in flight, tokens computed/generated, `npu_used`, `cpu_used` | `enqueue_request`, `schedule_base`, `add_done` | main loop (callbacks), router (arrivals) | several batches in flight, endpoints at their own pace, preemption in the middle of forming a batch | no request lost or doubled, books equal holdings, limits, every request gets its tokens |
| `AtomicPDHBM` | reservations per session on P and D, live admission per session | `try_admit`, `release_p`, `release_d_source`, `cancel`, `finish`, `release_idle_session` | nodes | handles used in any order, old and new context at once | capacity, promised room kept, a handle works once |
| `P4D4ServingPool` | queues, running batches, pending launches, per-request tokens | `submit_many`, `flush_scheduling`, `advance`, notifications | nodes, `ResourceCalendar` | several events at one instant, completion and handoff in either order, a model reserved by others | one place per request, one handoff per prompt, no idle worker with work |
| `StrictInfiniteHBMNode` | calls, session placements, pending and ready queues | `submit_many`, admission, prefix copy, notifications | pool, books, fabric | next call released while the last one's KV still travels | books follow calls, KV somebody reads stays, every call drains |
| `ResourceCalendar` | when each resource is free | `reserve_parallel`, `earliest_start` | pool, HBF lifecycle | gangs of resources | jobs on one resource do not overlap |
| Main loop, Controller, DP barrier | clock, idle polls, barrier | callback dispatch | everything in A | instances waiting for each other | progress while work is left |
| Router, session admission | arrivals, sessions, P/D transfer queue | routing, admission, handoff | schedulers | FIFO hand-over under memory pressure | no session lost, FIFO |
| Agentic KV manager | idle entries per tier, claims | offload, restore, reclaim | scheduler, router | restore racing eviction, claims seen by others | one place per entry, capacity |
| Radix tree, `schedule_with_prefix` | prefix tree, lock counts, its token counters | match, insert, split, evict, lock | scheduler | prefixes shared, split and evicted between a schedule and its completion | lock counts match users, counters match the tree, KV in use stays |
| `TieredPDKVLifecycle` | session records, copies and their pins, demotions, tickets, exports, four byte ledgers | demote, spill, drop, prepare, publish, finish, end, export | tiered node, hybrids | a resume overtakes a transfer that cannot be stopped | one current copy, what is read stays, exact ledgers |
| `FiniteHBMTieredP4D4Node` | pending calls, progress per call, the walk over deferred calls | completions, `flush_scheduling`, `ensure_d_headroom`, submissions | lifecycle, pool, hybrids | room made for one call by moving another's context | every call is served |
| Capacity-aware trace replay | entries per tier with generations, P and D waiters | migrate, TTL, restore, wakeups | none (own loop) | stale events, lost wakeups | capacity, every waiter served |
| `FullModelHBFLifecycle`, `PerGroupCapacityLedger` | placement of every session, migrations and appends in flight, HBF and LPDDR bytes per card | migrate, append, drain, trim, evict, resume, fall back, end | pool, adapter, hybrids | a resume overtakes a migration, appends end out of order, the boundary between LPDDR and HBF moves under a live request | exact ledgers, jobs match sessions, nothing stale is published |
| `FullModelHBFServingPool`, online adapter, hybrids | live requests with their copy of the placement, one batch per group, drain gates | submit, batch, finish, gate, callbacks, migration policies | lifecycle, GPU node, SSD tiers | callbacks between a batch's start and end, a gate waiting for older appends | every call is answered, no runtime check fires |
| ASTRA multiplexer and runners | jobs sent, completions | file and pipe I/O | external simulator | matching completions | each job completes once |
| Models, generators, experiments | none that evolves | pure functions | — | — | — |

Hazards are listed with their lines in `PROJECT.json`.

## 2 Modules

```
TokenService   what a client sees     <= Scheduler, PDPool, PrefixScheduler
SessionKV      what a session expects <= TierLifecycle, and so TieredNode; HBFServing

Scheduler        extends BoundedTotals           SchedulerProofs
PDHBM            extends BoundedTotals           PDHBMProofs
PDPool           extends BoundedTotals, Queues   PDPoolProofs
StrictNode       = PDPool + PDHBM + sessions     StrictNodeProofs
                   (two INSTANCEs)
TierLifecycle
TieredNode       = TierLifecycle + the node      TieredNodeProofs
PrefixScheduler  = RadixTree +                   PrefixProofs
                   schedule_with_prefix
HBFLifecycle
HBFServing       = HBFLifecycle + the pool,      HBFProofs
                   driven by adapter and hybrids
LedgerProofs     what all proofs share: counting, sums, queues
```

`<=` reads "is implemented by". The modules `MC...` give the constants of the runs.

### `BoundedTotals`, `Queues`
The total of a bounded map of reservations, written as the cardinality of a set of
cells instead of a recursive sum, so that it can be reasoned about; how often a member
occurs in a list, and a list comprehension that keeps some of its members in order.

### `TokenService` – the abstract specification
What any serving instance promises: an accepted request gets its tokens one at a
time, none is taken back, and it is finished exactly with its last. `Scheduler`,
`PDPool` and `PrefixScheduler` each implement it under the obvious mapping
(`ServesTokens`): batches, preemption, recomputation, shared prefixes and the P/D
split are invisible to the client.

### `Scheduler` – one instance, prefix caching off
`schedule_base` and `add_done` of `scheduler.py` over the block accounting of
`memory_model.py`.

* One callback of an endpoint is `Report(n)` (add_done), any number of `Arrive(r)`
  (requests routed), then `Schedule`; nothing interleaves inside a callback.
* Requests are numbered by their eligibility key `(ready_time, id)`, so the queue
  is a set and its order is `<`.
* The endpoints `StartNPU` and `EndNPU` fetch and finish a batch separately
  (`fired`, `end`); with one rank they coincide. Only these two report: other ranks'
  callbacks return early. A callback of an endpoint that was not busy repeats the
  last workload it reported.
* `Schedule` is one step although the code preempts victim by victim: the loop
  takes the shortest tail of resident decodes that lets a prefix of the proposal
  fit (`Chosen`, `LongestFit`), all of them if nothing helps (`ScheduleNothing`).
  Its tests between victims are the definitions `Fits` and `CanRun`.
* `CpuSwap` selects `active_preemption_mode`. The recompute mode is only reached
  with an agentic manager enabled; it is modelled as that scheduler with no idle
  session left to reclaim and no outstanding claim.
* A `RuntimeError` in the code is `aborted`: the simulation is over.

### `PDHBM` – `AtomicPDHBM`
One action per method. A deferred or rejected admission changes nothing and is not a
step. `issued` is every handle ever returned, so that stale handles are presented
too. `LateCancel` says whether callers cancel after the D source was released.

### `PDPool` – `P4D4ServingPool`
* An instant of simulated time is `Tick(E)`, which picks any non-empty set of the
  pending events, then those events in the order of `_process_events_at` (D batch,
  P batch, fabric, launches), submissions, and `Flush`. This is the order in which
  the nodes drive the pool: a submission joins after the instant's events and before
  batches are formed.
* Durations are abstracted to "some positive time"; jobs on the fabric end in the
  order they reserved it. Layerwise overlap and restore gates change durations only.
* A `Hold` is another user of the calendar reserving a model, which is what the
  delayed launches (`earliest_start > now`) exist for.
* `output`, `successor`, the fresh tokens and whether D already has the prompt
  (`handoff_tokens = 0`) are inputs.

### `StrictNode` – `StrictInfiniteHBMNode`
Composes `PDPool` and `PDHBM` (both by `INSTANCE`) with sessions. Copies of a
resumed prefix (`prepare`) share the fabric with the handoffs. A node step is one
notification, admission or submission; `InstantProcessed` and `NoneAdmissible`
enforce the order of `advance` and `flush_scheduling`. The code's proof-only
capacity of 10^30 bytes is replaced by `Capacity`, the largest context of every
session at once; a capacity deferral is a `RuntimeError` in the code, and in the
model a call that cannot be admitted, which `EveryCallDrained` would catch.

### `SessionKV` – the abstract specification of a session's cache
What a session may expect whatever tiers, transfers and evictions are behind it.
Between calls its context is the one the last call published, or lost; a call reuses
at most that; only the end of a call publishes, and it publishes the next version.
Several sessions may step at once, because one commit can evict others.

### `TierLifecycle` – `TieredPDKVLifecycle`
Where the KV of every session lives (D HBM, CPU memory, SSD), what is being copied,
and the four byte ledgers.

* `rec` is `TierSession`, `copies` the `TierCopy` objects with their three pin counts,
  `moves` the demotions in flight, `tickets` the uncommitted `PrepareTicket`s and
  `exports` the `SSDExportTicket`s. There is one action per public operation.
* A demotion cannot be cancelled. A resume moves the session's generation, so that
  the demotion that ends later recognises itself as stale (`CompleteMove`) and only
  frees what it reserved. A copy that is given up while a transfer reads it is
  *retired*: it keeps its bytes until its last reader ends.
* `setup` holds the constructor's arguments: the three policies (drop, straight to
  SSD, CPU then SSD), bulk or layer-wise restore, and whether a call reserves its
  final context or only its prompt. It is a variable that never changes, so one run
  covers several nodes.
* Time is abstract: a transfer that runs may end at any step. The order of
  `last_access_ns` is the sequence `lru`.
* With the prompt-upfront policy a commit that finds no room for the generated
  tokens raises in the code (`gpu_pd_tier_lifecycle.py:2092`); such a commit has no
  step here (`GrowthFits`).

### `TieredNode` – `FiniteHBMTieredP4D4Node`
The driver. All completions of one timestamp come first (`Event`), then one walk over
the deferred calls in order (`phase = "scan"`), which for a call short of D memory
goes through the idle D contexts in LRU order (`phase = "reclaim"`, `ensure_d_headroom`).

* The pool appears as the two notifications the node reads: the handoff of the prompt
  and the last token. `PDPool` has the pool itself.
* Transfers through CPU memory share one serial resource (`cpu-dram`), so they end in
  the order they started (`line`); restores from D end at any time.
* `setup.hybrid` adds what `gpu_ssd_hbf_hybrid.py` asks of the node: offload of an
  idle context, export of an SSD context to another device, the abort of that export
  by a resume, and the end of the session here when the other device commits.

### `RadixTree` – `RadixCache`
The prefix tree with its lock counts. A page stands for the prefix that ends with it,
so two keys share a page exactly if they share everything before it; a node is named
by the last page of its edge, so a split keeps the lower half's name as the code
keeps the object. A tree is then the function from its nodes to their lock counts.

### `PrefixScheduler` – one instance with prefix caching on
`schedule_with_prefix` and the prefix branches of `add_done`. The tree holds all KV:
what a step computes enters it when the step ends, and a request keeps its part by
locking the node of its computed prefix.

* A callback takes several steps (match request by request, keep what fits, evict
  leaf by leaf, dispatch; or close request by request), and `phase` keeps callbacks
  apart, as the code runs them to their end.
* `todo` is the set of requests the walk of `schedule_with_prefix` has still to match;
  it takes them in the order of the code (`Before`).
* Which unlocked leaf is the least recently used one is left open.
* Batches end in the order they were dispatched; `Scheduler` has the endpoints.
* There is no step where the program raises an error (`Fits`) or locks a node that
  was evicted meanwhile (`Gone`); `prefix_pages` shows that the first can happen.

### `HBFLifecycle` – `FullModelHBFLifecycle` and its ledgers
Where a session's KV lives once an HBF server stands beside the GPUs: on the GPUs, in
a migration to HBF, in HBF with a tail in LPDDR, on the SSD, or nowhere (evicted).

* The state is one record `hbf`, and every method is an operator from one state to the
  next, because handlers chain several of them. A `RuntimeError` sets `failed`, after
  which nothing happens any more.
* Tokens are striped over the cards of a group: `Stripe(start, count)` is
  `hbf_kv_range_card_bytes` with one byte per token, so that a range moved by one token
  charges other cards, which is what makes the per-card books hard.
* `jobs` are the migrations and appends in flight. Each keeps the generation and the
  version of its session; when it ends, `IsCurrent` and `IsNext` decide whether it is
  published or only gives its reservation back.
* `EnsureCapacity` evicts in LRU order as the code does, including that it evicts all
  candidates and then still fails; the evictions of one call are one update.
* An append that ends before an older one is dropped, its tokens stay in LPDDR and are
  appended again later. A turn that ends in between starts its append behind the tokens
  still in flight, which after such a drop is inside a range in flight (`Long` reaches
  it with four appends). Nothing is published twice, since the append must start at the
  committed boundary when it ends; the HBF room is only wasted. So `JobsFollowSessions`
  bounds the tokens in flight together and does not say that ranges are apart.
* `setup` holds the constructor's arguments and the workload, as in `TierLifecycle`.

### `HBFServing` – pool, online adapter, hybrids
`turn` is the live call of every session with the placement as the pool last copied
it, `batch` the tokens granted to the requests in flight in each group.

* Routing and submission are one step, as are a batch's end and its LPDDR bookkeeping,
  and a job's callback with what the adapter does in it (refresh placements, release or
  restart a drain).
* A batch is any nonempty set of runnable requests and a prefill chunk any length up to
  `chunk`: token budgets, order and the mixed-prefill guard only select among these.
  Jobs may end at any time and in any order: the calendar orders those on one resource,
  ASTRA (`external_astra`) nothing.
* `prefill → gate → waiting | bound → decode` is the prefill drain: the decode waits for
  the append of the prompt, and that for older appends of the session.
* `setup.native` is the online adapter (a GPU call computes at least one token),
  otherwise a hybrid. `setup.policy` says when a context leaves the GPUs: at the end of a
  turn, later, never, directly from D or through an SSD checkpoint. `setup.refresh` says
  whether the host publishes moved boundaries to the pool (section 5).
* The turn a GPU runs is one stage; `Scheduler`, `PDPool` and `TieredNode` have its inner
  life. Early ends a client asks for (censoring) are left out.

## 3 Runs, bounds, fairness

Passing runs. Each property has a mutant (an operator of the module, marked
"Mutant:", that changes a definition as a plausible bug would) under which TLC finds
it violated.

| Run | Instance | States | Shows |
|---|---|---|---|
| `pdhbm_safety` | 2 sessions, P 4 and D 6 units, blocks of 2, prompts 1/3, outputs 1/2, 4 admissions | 56k | books exact, capacity, room promised is kept, own memory never blocks a session, handles end for good |
| `sched_chunked_swap` | 3 requests, prompts 2/4, outputs 1/4, 4 blocks, CPU for one victim, pipeline of 2, chunks within 3 tokens | 59k | both memory books, placement, endpoints in step, context length, token service |
| `sched_prefill_first` | 3 requests, prefill first, recompute, two endpoints | 52k | no runtime check fires, every request is served |
| `pool` | 2 requests of up to 3 tokens, chunks of 2, budget 3, D one at a time, one hold | 133k | no idle worker with work, token service, every request settles |
| `node` | 2 sessions of 2 calls, prompt 2, outputs 1/2, prefix 0/2, blocks of 2 | 227k | books, copies, room for prompts and decodes, pool in order, every call drains |
| `tier` | 3 sessions, at most 6 copies at once, six nodes: `Recompute`, `Growing` (prompt upfront), `Direct` (layer-wise), `Staged`, `Streamed` (layer-wise), `Hybrid` (with exports) | 77k | what is read stays, one current copy, exact ledgers, no stale hit, `SessionKV` implemented, every call served |
| `prefix` | 4 requests over five texts, five instances: `Chunks`, `Others`, `Whole`, `Mixed` with memory for two requests, `Hits` with two stages and prompts found whole | 4k | counters match the tree, locks match holders, KV in use stays, token service, every request served |
| `hbf` | up to 3 sessions of 2 to 6 calls, two cards per group, ten servers: `Appends`, `Drained`, `Tailed`, `Recompute` (two groups, memory pressure), `Crowd` (three sessions), `Deferred`, `Never` (memory pressure), `Import`, `Direct` (SSD), `Long` (five turns on HBF) | 77k | HBF and LPDDR books exact per card, jobs follow sessions, no runtime check fires, every turn served, `SessionKV` implemented |

Violated runs are the findings of section 5.

**Why the bounds are enough.** The sizes are chosen so that each case occurs, and
the mutants confirm that each property bites.

* Scheduler: three requests with memory for about two force preemption, reload, and
  competition behind the preempted one; two endpoints with two batches in flight give
  every interleaving of fetch and finish; CPU room for one victim and not for two
  makes swapping, reloading and the error happen.
* Pool and node: a budget of 3 with chunks of 2 makes P batches that cut their last
  member; two calls per session with one-token outputs give the release before the
  handoff.
* Books: capacities of 4 and 6 fit one large or two small requests.
* Tiers: two sessions start with a stored context and a third is new, on a node whose
  D memory holds about one and a half contexts, so every admission moves somebody. The
  scripts grow, shrink and restart contexts; each node fits one policy's transfers and
  not two of them. Six copy ids are more than ever exist at once (two sources, two
  destinations and new D copies), so the bound never disables a step.
* Prefix: the five texts leave each other after one page, after three, and not at
  all, so edges are split above, below and at locked nodes; memory for two requests
  makes what the others left be evicted.

* HBF: cards hold one to five tokens where contexts have up to seven, so migrations and
  appends evict, fail and fall back; the scripts shrink and extend contexts so that two
  appends of one session are in flight together, an append is overtaken by a trim, an end
  or an eviction, a drain waits for an older append, drains again or finds no room, a
  prompt is found whole, and an import or a direct migration is overtaken. Each of these
  was confirmed to occur in the state space.

Sequence numbers (`batchIds`, admission ids) are bounded by the work there is, or by
`MaxAdmissions`. Larger instances of the pool (3 requests) and the node (prompts 1/3)
were checked for safety during development with the same result.

**Deadlock.** `pdhbm_safety` and `sched_prefill_first` are checked for
deadlock. The other runs say `CHECK_DEADLOCK FALSE`: `sched_chunked_swap` may stop
with an error, and `pool`, `node`, `tier`, `prefix` and `hbf` really stop when all calls are
done. Whether they stop *early* is the question of their liveness properties
(`EveryRequestSettled`, `EveryCallDrained`, `EveryCallServed`, `EveryRequestServed`,
`EveryTurnServed`).

**Fairness.**
* `Scheduler`: weak fairness of answering a callback (the main loop never leaves
  one unanswered) and strong fairness of each endpoint calling (a workload ends; an
  idle endpoint is polled again). Arrivals are not fair. Under these, requests are
  served when chunking is off and every prompt and rebuilt context fits the token
  budget; section 5 says how it fails otherwise.
* `PDPool` and `StrictNode`: weak fairness of `Advance`, the loop of
  `run_until_idle` that advances while an event is pending. Nobody is obliged to
  submit, hold, release a hold unnoticed, or release another call.
* `TieredNode`: weak fairness of `Walk \/ Ends \/ Imports`, the same loop, together
  with the other device that commits an import it was given. Nobody is obliged to
  submit, offload or export.
* `PrefixScheduler`: weak fairness of `Serve`, a callback that goes to its end and
  workloads that end. Arrivals are not fair.

* `HBFServing`: weak fairness of `Serve`: batches, jobs and GPU turns end, claimed drains
  are started and completions consumed. Offers, later migrations, publications and
  imports are decisions nobody is obliged to take. `FairSpec` writes
  `WF_vars(Serve)` with its `ENABLED` spelled out as the state predicate `Pending`, which
  TLC evaluates much faster. That `Pending` is `ENABLED <<Serve>>_vars` was checked with TLC over the
  run's states.

One fairness condition over all of a component's work suffices because each of these
loops does one thing after the other; in all of them, work that is bounded runs out.

## 4 Proofs

All theorems hold for every value of the constants that satisfies the modules'
`ASSUME`s.

**`LedgerProofs`.** The facts all the others rest on. What one assignment does to a
total; that totals are monotone, additive, and zero for empty maps. The prover has no
induction over a sum, so the lemmas count cells: replacing an owner's column changes
the set of cells by exactly that column. Sums written with the library's folds are
shown equal to such a count, once. Where an induction over numbers is
needed it is made by hand, from the least member of a set of counterexamples
(`LeastMember`). And what cutting, rejoining and filtering do to a queue: how often
each member occurs in it afterwards.

**`PDHBMProofs`.** Inductive invariant
`IInv == TypeOK /\ BooksMatchAdmissions /\ AdmissionsBounded /\ PCapacity`.
`BooksMatchAdmissions` alone is not inductive: a release through an old handle is
harmless only because ids are behind the counter and each handle's parts fit the
ranks (`AdmissionsBounded`). From it: `TypeCorrect`, `BooksAgree`, `PNeverOvercommitted`,
`DecodeNeverStarved`, `HandlesEndForGood`, `OnlyOthersDefer`. `DNeverOvercommitted`, and
with it `NeverOvercommitted` (both sides, the property `Capacity` of the run),
additionally assumes `~LateCancel`: a cancel after the D source was released puts
back bytes that may have been given away, and with it the theorem is false.

**`SchedulerProofs`.** Inductive invariant
`IInv == TypeOK /\ OnePlace /\ BatchesInv /\ ReqInv /\ HbmBooksExact /\ SwapBooksExact`.
The six are proved together: that counters stay natural numbers needs the books to
be exact, the books need each request's context to be bounded and only resident
decodes to be preempted (`ReqInv`), which needs every request to be in one place.
Forming a batch is the hard step: victims and batch are shown disjoint
(`VictimsStay`: a batch never contains a victim), and the change of both counters
is computed pointwise and then summed (`MovesBooks`). From it: `TypeCorrect`,
`NothingLostOrRunTwice`, `NoBlockLeaks`, `NoSwapLeaks`. Then, each with its own
strengthening:
* `RecomputeNeverRaises` (assuming `~CpuSwap`): no runtime check fires. With
  swapping the CPU may be full; that is a finding.
* `SwappingKeepsContext` (assuming `CpuSwap`): context = prompt + tokens − 1. With
  recomputation it is false; that is a finding.
* `EndpointsInStep`, with `NotAhead`: no endpoint asks beyond the next batch.
* `LimitsHold`, by comparing the last member of a batch with the budget.
* `Implements`: refinement of `TokenService`, every step mapped to a step or a
  stutter.

**`PDPoolProofs`.** Inductive invariant `PoolInv == TypeOK /\ RequestProgress /\
EventsHaveCauses /\ OneQueue /\ HandoffOnce /\ WithinLimits /\ NeverIdleWithWork`. That no
worker idles with work needs to know what each pending event will find
(`EventsHaveCauses`), that a request is handed over once needs where it stands and what
it has produced (`RequestProgress`). The lemmas are about single steps of the pool, so
that the node can use them. From it: `PoolConsistent`, `PoolTypeCorrect`,
`NoRequestLost`, `HandedOverOnce`, `BatchesWithinLimits`, `NoWakeupLost`; and
`PoolServesTokens`, the refinement of `TokenService`.

**`StrictNodeProofs`.** Inductive invariant `NodeInv == NodeTypes /\ PoolInv /\ IInv /\
DCapacity /\ CallsInOrder`, the middle three being those of the pool and of the books, taken
from `PDPoolProofs` and `PDHBMProofs` through `INSTANCE`: what the node does to a part
is a step of that part, so its invariant holds for free. What remains is `CallsInOrder`:
for every call where it stands in node, pool and notifications (`Phase`), that it is
queued once (`QueuedOnce`) and what its admission holds on P and D (`Admission`), for every
session without a call that D has its lineage (`Idle`). From it: `NodeConsistent`,
`NodeTypeCorrect`, `PoolNeverMisused`, `BooksNeverAstray`, `SourceNeverDropped`,
`RoomNeverTaken`.

**`TieredNodeProofs`.** For the lifecycle, the inductive invariant
`TierInv == TierTypeOK /\ SourcesPinned /\ RetiredIsRead /\ OneAuthority /\
HitsAreCurrent /\ Links`. None of the four properties is inductive alone: that a copy
is freed only when nobody reads it needs every transfer's pin to be on a copy that
exists (`SourcesPinned`); that a stale demotion is recognised needs what `Links` adds,
namely which session a move, a ticket and an export belong to, that an idle context in
HBM or CPU memory is read by nobody, that a copy's generation and version never run
ahead of its session, and that a session being demoted has not changed since. The
proof has one lemma per action and, under it, one step per conjunct. From it: `SourcesStayPinned`,
`RetiredCopiesAreRead`, `AuthorityIsUnique`, `HitsStayCurrent`, and, as an action property,
`CallOwns` (a call that is being served loses its session to nobody).

The ledgers have an inductive invariant of their own on top of it, `LedgerInv`. That
every ledger is the sum of what there is (`LedgersBalance`) is preserved because each
copy and demotion has the bytes of its tokens (`Sized`), and that none exceeds its
capacity because a call has reserved what its context will grow by (`Covered`) and because the
victims of an eviction are those that make the room (`VictimsMakeRoom`), which in turn
needs every session with a context to be in the order of ages (`KnownAge`). It is assumed
that there are finitely many sessions and that what a node starts with fits
(`SetupsFit`). From it: `LedgerInvariant`, `LedgersNeverDrift`.

For the node, `CacheRefined`: the lifecycle implements `SessionKV`. Every
action is mapped to an abstract step of the sessions it touches (a commit that evicts
others is `PublishNext` for one and `Lose` for the rest) or to a stutter: demotions,
spills and completions of stale transfers are invisible. `NodeImplementsLifecycle`
(`Spec => TierSpec`): every step of the node is an operation of the lifecycle with
arguments the lifecycle allows, or leaves it alone. With it `NodeKeepsCopies` (the copy
invariants and the ledgers) and `NodeRefinesCache` carry the results over to the node,
for every workload, capacity and policy.

**`PrefixProofs`.** A tree is read page by page: every cached page lies on the edge of one
node, its owner, and has the lock of that node; `Spare` is what a page has in locks
beyond the requests that hold it. A split, an insertion and a lock are then statements
about pages, and the counters are numbers of pages. Inductive invariant
`PrefixInv == Typed /\ Places /\ Progress /\ NoLockMissing /\ CountersExact`: that no lock is
missing needs each holder's node to be in the tree, hence that evictions take unlocked
leaves only, hence that each request is in one place and how far it is. From it,
without any condition: `PrefixInvariant`, `BooksAlwaysExact`, `HoldersNeverEvicted` (no lock is
ever missing), `OnlyReloadsLeak` (only the reload of a marked decode leaves a lock too
many) and `PrefixImplements`, the refinement of `TokenService`. The converse holds only
as far as the code goes (section 5): `LocksAlwaysMatch` assumes of the behaviour that no
decode is marked for eviction, and `LockedWorkIsCached` in addition speaks of batches whose
requests all hold their locks.

**`HBFProofs`.** Inductive invariant `Sound`: until a runtime check fires, the lifecycle
is `Good` and the pool `Staged`. `Good` says of every session that its context is where its
state says (`Place`) and that the jobs of its lineage fit it (`Lineage`: no job is ahead of
its session's generation and version; one current migration exactly while the session
migrates; the current appends lie within its LPDDR part), and that what a card has
reserved is the sum over contexts and jobs (`Exact`). `Staged` adds what the pool relies
on: which turns have a context in HBF, that it is no longer than the call's prompt, and
that batches hold running requests of their group. There is one lemma per operator of
`HBFLifecycle`, because the handlers chain them: each takes a good state to a good one
that differs only at the session it is about and at idle contexts it evicted (`Spared`).
The sums are the hard part: evicting a set of contexts and reserving for a job in one
step moves the books by exactly the difference (`EnsureFacts`, `ExactStep`). From it:
`AlwaysSound`, `BooksStayExact`, `JobsStayWithSessions`. They hold for all five policies,
all scripts, and the SSD hybrids with their flaw (section 5) as well, up to the moment a
check fires. Every step lemma also says what the step is to the sessions (`Served`), from
which `SessionsServed` follows: a behaviour of `Spec` in which no check fires implements
`SessionKV`.

`LpddrStaysExact` needs an invariant of its own, `Booked`. `LpddrBooksExact` is not
inductive: it leaves open what group an empty entry names, and an append or a commit keeps
the group it finds. `Booked` has one form for every state a record can be in: the session's
entry is the range from its committed boundary to what is materialised, the request's entry
the range from there to the call's last token (`Stored`, with `Middle` and `Last`), both in
the record's group, and an empty range is no entry. The lemma of a step then says how these
boundaries move (`LedgerStep`): the outer two only close in, except where a call starts and
asks the ledger first, so no card can become overfull. It holds for hosts that publish moved
boundaries (`setup.refresh`); one that does not commits from a boundary that has moved
(section 5).

`NothingRaises` closes the loop: the conditions "until a runtime check fires" above are
never used up. It is about the hosts `Hosted` names, those that refresh and keep no SSD
checkpoints: the online adapter and the GPU/HBF hybrid under the policies eager, deferred and
never. The SSD-staged hybrid is left out because there the code does raise: without the
refresh the pool disagrees with the ledger (`hbf_stale`), and a checkpoint published beside
an overtaken migration is refused (section 5). The invariant is `Sound`, `Booked` and
`Known`: a session that made a call is in the order of access, from which victims are
chosen, so that whatever counts as evictable is found there. For every operator that can
raise there is a lemma that it does not: what is freed is reserved, because it is one
summand of the exact books (`FreedReserved`); an append or migration that counted the idle
contexts as room gets that room by evicting them in order (`VictimsSuffice`); a batch moves
from a request's headroom what is there and leaves every card as full as it was
(`BatchCommits`, `BatchHolds`); a trim, a drop and the end of a turn only shrink what a card
holds (`SetLess`); and a claimed drain finds its prompt complete (`GatedDrains`). The
corollaries `HostedExact` and `HostedServes` state books, jobs and the refinement of
`SessionKV` for these hosts without any condition on raised checks.

**Only model-checked.** All liveness (`EveryRequestServed`, `EveryRequestSettled`,
`EveryCallDrained`, `EveryCallServed`, `EveryTurnServed`): fairness and `ENABLED` are out of the prover's
reach. Of `HBFServing` with SSD checkpoints (policies direct and import): that no runtime
check fires with the scripts of run `hbf`; it is not true of all scripts (section 5). The type
invariants, `LimitsHold` and the invariants of the pool's queues
go the other way: they are proved, and no run spends a check on them. Nothing uses
`RECURSIVE`, and no statement needs induction over data.

## 5 Findings

Each of these is a run whose property the code violates.

| Run | What the code does |
|---|---|
| `sched_short_context` | A recomputed request emits a token for a context whose last token was never computed (`request.py:334`) and ends one KV token short per preemption. |
| `tier_stuck` | A call whose context is on the SSD needs CPU memory for its restore. That memory is held by an idle context which could go to the SSD only in place of the one being restored (`gpu_pd_tier_lifecycle.py:1107`); it is never dropped instead, and the node raises `TieredNodeDeadlockError`. |
| `prefix_pages` | Room is made for blocks rounded up when a step is scheduled, and pages rounded down are stored when steps end (`memory_model.py:314`). A later step stores a page it asked no room for, and the allocation raises although unlocked prefixes could be evicted. |
| `hbf_stale` | The SSD-staged hybrid advances the pool right after the lifecycle (`gpu_ssd_hbf_hybrid.py:1395-1398`). Its base class and the online adapter publish moved placements in between (`gpu_hbf_hybrid.py:1287`). An append that ends while its session's next call runs leaves the pool with a placement the LPDDR ledger has left: the pool's own check stops with "live request LPDDR mismatch", and without that check a finished batch writes the moved tokens back into the reservation. |

So `EveryRequestServed` and `EveryCallServed` are properties of *configurations*: they
are checked where they hold and refuted where they do not.

Met while modelling, and shown by no run:

* With chunked prefill, two half-computed prompts can hold the blocks each other needs;
  only decodes are preempted (`scheduler.py:814`), so both wait for ever. (`Scheduler`
  violates `EveryRequestServed` with `Chunked = TRUE` and two prompts longer than half
  the memory.)
* `publish_ssd_checkpoint` raises "unexpected live ownership"
  (`hbf_full_model_lifecycle.py:2056`) when a direct migration or an import that a resume
  has overtaken is still in flight as the turn ends and its context reaches the SSD. Its
  docstring calls a late callback harmless. Reproduced in Python; the scripts of the run's
  SSD hybrids do not reach it.
* When evicting every idle context does not make the room an append needs, they are
  evicted all the same (`hbf_full_model_lifecycle.py:1619-1629`).
* Without chunking, a discarded context longer than `max_num_batched_tokens` can never
  be rebuilt (`scheduler.py:711`); its request, and what is behind it, waits for ever.
* Swapping to a full CPU raises (`scheduler.py:565`, `memory_model.py:330`); the
  documentation promises back-pressure.
* A head that does not fit blocks everything behind it (`scheduler.py:741`);
  `kv-cache-and-memory.md:161-162` says it is skipped.
* With `--prioritize-prefill` decodes are to "fill the remaining budget" behind prefills
  (`continuous-batching.md:111-112`). `schedule_base` leaves them out of a batch with
  prefills altogether when chunking is off (`Considered`), and puts them first when it
  is on (`Before`).
* `AtomicPDHBM.cancel` after `release_d_source` puts back bytes that another session may
  have been given (`gpu_pd_hbm.py:241`). No caller does so today.
* With the prompt-upfront policy a commit raises when the room for the generated tokens
  cannot be found by dropping idle contexts (`gpu_pd_tier_lifecycle.py:2092`).
* With prefix caching, decodes that do not fit are only marked for eviction
  (`scheduler.py`, step 3 of `schedule_with_prefix`): nothing is freed, so requests that
  fill the memory together wait for ever. When one of them runs again, its node is
  locked once more and unlocked once (`scheduler.py:1209-1211`).
* A matched request that is left out of the batch for memory loses its lock and its
  match but keeps `num_computed_tokens` (`memory_model.py:603`); a prompt found whole is
  not locked before its first step. The KV either counts on may be evicted, while
  `prefix-caching.md:114-115` says the hit tokens "are already there".

The instances of `prefix` are such that the last two do not occur.

## 6 What is not modelled

* In `Scheduler`: the P/D roles of an instance (`add_decode`, the prefill branch of
  `add_done`); the reclaim of idle sessions' HBM by an agentic manager; the
  data-parallel barrier.
* In `PrefixScheduler`: the second tier of prefix storage and its sharing between
  instances.
* In `PDPool`, `StrictNode` and `TieredNode`: time itself, hence every latency, and
  metrics. In `TieredNode` the inner life of the pool.
* In `HBFServing`: time and the calendars, batch budgets and the mixed-prefill guard (any
  batch is allowed), the GPU side of a turn, `preload_session`, censoring, endurance
  counters, the ASTRA multiplexer and runners, and several HBF servers
  (`multi_hbf_cluster.py`).
* The router, the agentic manager, the main loop's barrier and the capacity replay: in
  the plan below.
* Pure functions and I/O (trace and graph generators, latency, power, cost models,
  the controller's pipe, experiment drivers): no state that evolves. Only the fact
  that a duration is positive and that tokens are charged in whole blocks enters.

## 7 Plan

Order of work, most important behaviour first.

1. `BoundedTotals`, `PDHBM`, with proofs. *Done.*
2. `TokenService`, `Scheduler`, with proofs and refinement. *Done.*
3. `PDPool`, refinement of `TokenService`, with proofs. *Done.*
4. `StrictNode` = pool + books + sessions, with proofs that reuse those of its parts. *Done.*
5. `SessionKV`, `TierLifecycle`, `TieredNode`, with proofs, ledgers included, and refinement. *Done.*
6. `RadixTree`, `PrefixScheduler`, with proofs and refinement. *Done.*
7. `HBFLifecycle`, `HBFServing`: another implementation of `SessionKV`,
   model-checked. *Done.*
8. `HBFProofs`: the books of both media, that jobs follow sessions, and the refinement of
   `SessionKV`, as long as no runtime check fires; and that none does in a host that
   refreshes and keeps no SSD checkpoints. *Done.*
9. `PDPair`: two schedulers of a P/D pair (`scheduler.py:1588-1617`, `1874-1984`) and
   the router's strict FIFO hand-over (`router.py`), as a `TokenService`.
10. `AgenticKV`: idle entries, restores and claims on active HBM (`agentic_kv.py`,
    `scheduler.py:464-530`, `745-808`), composed with `Scheduler`.
11. `MainLoop`: instances, data-parallel barrier, idle polling and session admission.
12. `CapacityReplay`: generations, waiters and wakeups.
13. The HBF server beside the tiered node (`gpu_ssd_hbf_hybrid.py`): `TieredNode` and
    `HBFServing` composed, so that an export, an import and a resume race over both.

Theorems worth proving next: that in a host that refreshes, a publication of a checkpoint
(`publish_ssd_checkpoint`) is the only step at which a check fires; then those of items 9 and
13, whose parts are proved.
