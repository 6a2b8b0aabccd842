------------------------------ MODULE Scheduler ------------------------------
(***************************************************************************)
(* One serving instance without prefix caching: Scheduler.schedule_base    *)
(* and add_done of serving/core/scheduler.py over the paged KV accounting  *)
(* of MemoryModel, driven by the callbacks of the main loop.               *)
(*                                                                         *)
(* The event loop is single-threaded.  One endpoint of the instance calls  *)
(* back at a time: add_done runs for the workload it reports, requests     *)
(* that became ready are enqueued, then schedule answers that endpoint.    *)
(* A batch runs on the start NPU and on the last NPU of the instance, each *)
(* fetching and finishing it at its own pace, and completes when both have *)
(* reported.                                                               *)
(*                                                                         *)
(* Requests are numbered in their eligibility order (ready_time, id), the  *)
(* order of the queue.  Memory is counted in KV blocks per rank above the  *)
(* model weights.                                                          *)
(***************************************************************************)
EXTENDS BoundedTotals

CONSTANTS
    NumReq,             \* how many requests arrive
    Inputs, Outputs,    \* prompt lengths and output lengths, in tokens
    MaxContext,         \* bound on prompt + output
    BlockSize,          \* tokens in one KV block
    NpuBlocks,          \* npu_allocatable_mem less the weights, per rank
    CpuBlocks,          \* cpu_mem, in blocks of one rank
    NumNPUs,            \* ranks of the instance
    PPSize,             \* pp_size: how many batches may be in flight
    MaxSeqs,            \* max_num_seqs
    MaxTokens,          \* max_num_batched_tokens
    Threshold,          \* long_prefill_token_threshold, 0 when disabled
    Chunked,            \* enable_chunked_prefill
    PrioritizePrefill,  \* prioritize_prefill
    CpuSwap             \* active_preemption_mode = "cpu-swap"

ASSUME SizeAssumption ==
    /\ NumReq \in Nat /\ MaxContext \in Nat
    /\ NpuBlocks \in Nat /\ CpuBlocks \in Nat
    /\ BlockSize \in Nat \ {0} /\ NumNPUs \in Nat \ {0} /\ PPSize \in Nat \ {0}
    /\ MaxSeqs \in Nat /\ MaxTokens \in Nat /\ Threshold \in Nat
ASSUME ModeAssumption ==
    Chunked \in BOOLEAN /\ PrioritizePrefill \in BOOLEAN /\ CpuSwap \in BOOLEAN
ASSUME TokenAssumption ==
    /\ Inputs \subseteq Nat \ {0} /\ Outputs \subseteq Nat \ {0}
    /\ \A i \in Inputs, o \in Outputs : i + o <= MaxContext

Req == 1..NumReq

StartNPU == 0
EndNPU   == NumNPUs - 1
Endpoint == {StartNPU, EndNPU}
NoNPU    == -1

VARIABLES
    input,      \* original_input of each request
    output,     \* requested_output_tokens of each request
    request,    \* the queue
    inflight,   \* the batches being executed
    done,       \* the finished requests
    batchIds,   \* batch_ids, the last batch id handed out
    computed,   \* num_computed_tokens
    chunk,      \* tokens the request has in the batch it is running in
    generated,  \* generated_tokens
    target,     \* recompute_target_tokens, 0 for None
    evict,      \* whether the request's KV is on the CPU
    npuUsed,    \* npu_used less the weights
    cpuUsed,    \* cpu_used
    iter,       \* workloads each endpoint has finished: the batch id it asks for
    caller,     \* the endpoint whose callback is being served
    aborted     \* a RuntimeError ended the simulation

queueVars  == <<request, inflight, done, batchIds>>
tokenVars  == <<computed, chunk, generated, target, evict>>
memoryVars == <<npuUsed, cpuUsed>>
vars == <<input, output, queueVars, tokenVars, memoryVars, iter, caller, aborted>>

Batch == [id: Nat, requests: SUBSET Req, fired: SUBSET Endpoint, end: SUBSET Endpoint]

Smaller(a, b) == IF a <= b THEN a ELSE b
Larger(a, b)  == IF a >= b THEN a ELSE b

\* The sum of f over the requests of S.
Sum(f, S) == Total([r \in Req |-> IF r \in S THEN f[r] ELSE 0], MaxContext)

Blocks(tokens) == (tokens + BlockSize - 1) \div BlockSize

----------------------------------------------------------------------------
(* Requests *)

PrefillTarget(r) == IF target[r] > 0 THEN target[r] ELSE input[r]
IsPrefill(r)     == computed[r] < PrefillTarget(r)

Running  == UNION {b.requests : b \in inflight}
Arrived  == request \cup Running \cup done

\* Blocks a request holds on each rank, those of its scheduled tokens included.
Held(r) == IF evict[r] \/ r \in done THEN 0 ELSE Blocks(computed[r] + chunk[r])

\* Blocks of one rank that a request keeps on the CPU.
Spilled(r) == IF evict[r] THEN Blocks(computed[r]) ELSE 0

----------------------------------------------------------------------------
(* Forming a batch: the choices schedule_base makes. *)

AvailableSlots == Larger(0, MaxSeqs - Cardinality(Running))

\* The first requests of the queue, as many as there are slots.
BatchReq == {r \in request : Cardinality({q \in request : q < r}) < AvailableSlots}
GenReq   == {r \in BatchReq : ~IsPrefill(r)}

Considered ==
    IF PrioritizePrefill /\ ~Chunked /\ BatchReq # GenReq
    THEN BatchReq \ GenReq
    ELSE BatchReq

\* The order of the proposed batch: the queue's, decodes first when chunking.
Before(q, r) ==
    IF Chunked /\ IsPrefill(q) # IsPrefill(r) THEN IsPrefill(r) ELSE q < r

Remaining(r) == PrefillTarget(r) - computed[r]

Wanted(r) ==
    IF ~IsPrefill(r) THEN 1
    ELSE IF Chunked /\ 0 < Threshold THEN Smaller(Threshold, Remaining(r))
    ELSE Remaining(r)

\* What of the token budget the requests ahead of r leave for it.
BudgetLeft(r) ==
    MaxTokens - Sum([q \in Req |-> Wanted(q)], {q \in Considered : Before(q, r)})

(***************************************************************************)
(* scheduled_tokens.  Chunking cuts the request at which the budget ends;  *)
(* otherwise it and everything behind it is dropped from the batch.        *)
(***************************************************************************)
Granted(r) ==
    IF r \notin Considered THEN 0
    ELSE IF Chunked THEN Smaller(Wanted(r), Larger(0, BudgetLeft(r)))
    ELSE IF Wanted(r) <= BudgetLeft(r) THEN Wanted(r) ELSE 0

Proposal == {r \in Considered : Granted(r) > 0}

Prefixes == {T \in SUBSET Proposal :
                \A r \in T : \A q \in Proposal : Before(q, r) => q \in T}

(***************************************************************************)
(* Preemption takes resident decodes from the back of the queue.  V is the *)
(* set taken; CPU swap moves a context away whole, recomputation discards  *)
(* it.                                                                     *)
(***************************************************************************)
Evictable  == {r \in GenReq : ~evict[r]}
VictimSets == {V \in SUBSET Evictable :
                  \A v \in V : \A r \in Evictable : v < r => r \in V}
Spared(V)  == {r \in GenReq : \A v \in V : r < v}

ComputedAfter(V, r) == IF r \in V /\ ~CpuSwap THEN 0 ELSE computed[r]
SwappedAfter(V, r)  == evict[r] \/ (r \in V /\ CpuSwap)

\* get_evict_kv of the victims.
BlocksFreed(V) == Sum([r \in Req |-> Blocks(computed[r])], V)

\* _get_reload_size of the batch.
BlocksReloaded(V, T) ==
    Sum([r \in Req |-> IF SwappedAfter(V, r) THEN Blocks(computed[r]) ELSE 0], T)

\* get_block_kv plus _get_reload_size of the batch.
BlocksNeeded(V, T) ==
    Sum([r \in Req |-> Blocks(ComputedAfter(V, r) + Granted(r))
                         - (IF SwappedAfter(V, r) THEN 0 ELSE Blocks(ComputedAfter(V, r)))], T)

\* Once something was preempted no more requests run than decodes are left.
Fits(V, T) ==
    /\ V # {} => Cardinality(T) <= Cardinality(Spared(V))
    /\ BlocksNeeded(V, T) <= NpuBlocks - npuUsed + BlocksFreed(V)

CanRun(V) == \E T \in Prefixes : T # {} /\ Fits(V, T)

LongestFit(V, T) ==
    /\ T \in Prefixes /\ Fits(V, T)
    /\ \A U \in Prefixes : Fits(V, U) => U \subseteq T

\* As few victims as let anything run; all of them when nothing helps.
Chosen(V) ==
    /\ V \in VictimSets
    /\ IF \E W \in VictimSets : CanRun(W)
       THEN CanRun(V) /\ \A W \in VictimSets : CanRun(W) => V \subseteq W
       ELSE V = Evictable

----------------------------------------------------------------------------
Init ==
    /\ input \in [Req -> Inputs] /\ output \in [Req -> Outputs]
    /\ request = {} /\ inflight = {} /\ done = {} /\ batchIds = -1
    /\ computed = [r \in Req |-> 0]
    /\ chunk = [r \in Req |-> 0]
    /\ generated = [r \in Req |-> 0]
    /\ target = [r \in Req |-> 0]
    /\ evict = [r \in Req |-> FALSE]
    /\ npuUsed = 0 /\ cpuUsed = 0
    /\ iter = [n \in Endpoint |-> 0]
    /\ caller = NoNPU
    /\ aborted = FALSE

\* route_arrived_requests, between add_done and schedule: requests enter the
\* queue in the order they become ready.
Arrive(r) ==
    /\ ~aborted /\ caller # NoNPU
    /\ r \notin Arrived /\ \A q \in 1..(r - 1) : q \in Arrived
    /\ request' = request \cup {r}
    /\ UNCHANGED <<input, output, inflight, done, batchIds, tokenVars, memoryVars,
                   iter, caller, aborted>>

----------------------------------------------------------------------------
(* An endpoint calls back. *)

\* The endpoint n is executing the batch it fetched last.
Busy(n) == \E b \in inflight : b.id = iter[n] /\ n \in b.fired /\ n \notin b.end

\* The number of workloads n has finished when it calls: one more if it was busy.
Reported(n) == IF Busy(n) THEN iter[n] + 1 ELSE iter[n]

\* Mutant: the instance's batch is complete as soon as one endpoint says so.
IsLastEitherEnd(b, n) == n \in Endpoint

\* n is the endpoint whose report completes b.
IsLast(b, n) == Endpoint \subseteq b.end \cup {n}

\* A completed step emits a token unless it was a prefill chunk short of its target.
Emits(r) == computed[r] + chunk[r] >= PrefillTarget(r)

\* Mutant: every executed chunk is credited with a token.
EmittedPerChunk(b, r) == IF r \in b.requests THEN 1 ELSE 0

\* Mutant: the step that rebuilds a discarded context never counts as done.
EmittedNotRebuilt(b, r) ==
    IF r \in b.requests /\ Emits(r) /\ target[r] = 0 THEN 1 ELSE 0

Emitted(b, r) == IF r \in b.requests /\ Emits(r) THEN 1 ELSE 0

\* Mutant: a request is only finished by the token after its last.
FinishedLate(b) == {r \in b.requests : generated[r] + Emitted(b, r) > output[r]}

Finished(b) == {r \in b.requests : generated[r] + Emitted(b, r) >= output[r]}

\* Mutant: a finished request gives back what it held before its last step.
BlocksReturnedStale(b) ==
    Sum([r \in Req |-> Blocks(computed[r])], Finished(b))

\* get_evict_kv of the finished requests, after their last token was computed.
BlocksReturned(b) ==
    Sum([r \in Req |-> Blocks(computed[r] + chunk[r])], Finished(b))

\* The checks of add_done, record_output_token, add_latency and free.
CompletionRaises(b) ==
    \/ \E r \in b.requests :
          \/ IsPrefill(r) /\ chunk[r] > MaxTokens
          \/ Emitted(b, r) = 1 /\ generated[r] >= output[r]
          \/ r \in Finished(b) /\ generated[r] + Emitted(b, r) # output[r]
    \/ BlocksReturned(b) > npuUsed

(***************************************************************************)
(* add_done for the report that completes b.  A prefill chunk and a decode *)
(* step both extend the context by what was scheduled.  A token ends a     *)
(* rebuild (finish_active_recompute); a request with all its tokens leaves *)
(* and returns its blocks (_finish_request), the others rejoin the queue.  *)
(***************************************************************************)
Complete(b) ==
    /\ computed' = [r \in Req |-> computed[r] + (IF r \in b.requests THEN chunk[r] ELSE 0)]
    /\ chunk' = [r \in Req |-> IF r \in b.requests THEN 0 ELSE chunk[r]]
    /\ generated' = [r \in Req |-> generated[r] + Emitted(b, r)]
    /\ target' = [r \in Req |-> IF Emitted(b, r) = 1 THEN 0 ELSE target[r]]
    /\ done' = done \cup Finished(b)
    /\ request' = request \cup (b.requests \ Finished(b))
    /\ inflight' = inflight \ {b}
    /\ npuUsed' = npuUsed - BlocksReturned(b)
    /\ UNCHANGED <<batchIds, evict, cpuUsed, aborted>>

\* add_done for a report that names no batch in flight, or one n has reported.
NothingReported(n) ==
    /\ \A b \in inflight : b.id = Reported(n) - 1 => n \in b.end
    /\ UNCHANGED <<queueVars, tokenVars, memoryVars, aborted>>

EndReported(n, b) ==
    /\ b.id = Reported(n) - 1 /\ n \notin b.end
    /\ IF ~IsLast(b, n)
       THEN /\ inflight' = (inflight \ {b}) \cup {[b EXCEPT !.end = @ \cup {n}]}
            /\ UNCHANGED <<request, done, batchIds, tokenVars, memoryVars, aborted>>
       ELSE IF CompletionRaises(b)
       THEN aborted' = TRUE /\ UNCHANGED <<queueVars, tokenVars, memoryVars>>
       ELSE Complete(b)

Report(n) ==
    /\ ~aborted /\ caller = NoNPU
    /\ caller' = n
    /\ iter' = [iter EXCEPT ![n] = Reported(n)]
    /\ NothingReported(n) \/ \E b \in inflight : EndReported(n, b)
    /\ UNCHANGED <<input, output>>

----------------------------------------------------------------------------
(* schedule answers the endpoint. *)

CanForm == Cardinality(inflight) < PPSize /\ Proposal # {}

\* The checks of allocate on the CPU and of begin_active_recompute.
PreemptionRaises(V) ==
    \/ CpuSwap /\ cpuUsed + NumNPUs * BlocksFreed(V) > CpuBlocks
    \/ ~CpuSwap /\ \E v \in V : target[v] > 0 \/ computed[v] < input[v]

\* Mutant: the CPU copy is dropped on one rank only.
MoveBlocksOneRank(V, T) ==
    /\ computed' = [r \in Req |-> ComputedAfter(V, r)]
    /\ target' = [r \in Req |-> IF r \in V /\ ~CpuSwap THEN computed[r] ELSE target[r]]
    /\ evict' = [r \in Req |-> SwappedAfter(V, r) /\ r \notin T]
    /\ npuUsed' = npuUsed - BlocksFreed(V) + BlocksNeeded(V, T)
    /\ cpuUsed' = cpuUsed + (IF CpuSwap THEN NumNPUs * BlocksFreed(V) ELSE 0)
                          - BlocksReloaded(V, T)

\* Preempt V, then make room for the batch T: steps 3 and 4 of schedule_base.
MoveBlocks(V, T) ==
    /\ computed' = [r \in Req |-> ComputedAfter(V, r)]
    /\ target' = [r \in Req |-> IF r \in V /\ ~CpuSwap THEN computed[r] ELSE target[r]]
    /\ evict' = [r \in Req |-> SwappedAfter(V, r) /\ r \notin T]
    /\ npuUsed' = npuUsed - BlocksFreed(V) + BlocksNeeded(V, T)
    /\ cpuUsed' = cpuUsed + (IF CpuSwap THEN NumNPUs * BlocksFreed(V) ELSE 0)
                          - NumNPUs * BlocksReloaded(V, T)

\* Mutant: the requests of the batch stay in the queue.
DispatchKeepsQueued(T) ==
    /\ chunk' = [r \in Req |-> IF r \in T THEN Granted(r) ELSE chunk[r]]
    /\ request' = request
    /\ batchIds' = batchIds + 1
    /\ inflight' = inflight \cup
         {[id |-> batchIds + 1, requests |-> T, fired |-> {StartNPU}, end |-> {}]}

Dispatch(T) ==
    /\ chunk' = [r \in Req |-> IF r \in T THEN Granted(r) ELSE chunk[r]]
    /\ request' = request \ T
    /\ batchIds' = batchIds + 1
    /\ inflight' = inflight \cup
         {[id |-> batchIds + 1, requests |-> T, fired |-> {StartNPU}, end |-> {}]}

\* A batch is formed, after as many preemptions as it takes.
ScheduleBatch(V) ==
    /\ caller = StartNPU /\ CanForm
    /\ CanRun(V) /\ ~PreemptionRaises(V)
    /\ \E T \in SUBSET request :
         /\ LongestFit(V, T)
         /\ MoveBlocks(V, T)
         /\ Dispatch(T)
    /\ UNCHANGED <<done, generated, aborted>>

\* Every resident decode has been preempted and still nothing fits.
ScheduleNothing(V) ==
    /\ caller = StartNPU /\ CanForm
    /\ ~CanRun(V) /\ ~PreemptionRaises(V)
    /\ MoveBlocks(V, {})
    /\ UNCHANGED <<queueVars, chunk, generated, aborted>>

ScheduleRaises(V) ==
    /\ caller = StartNPU /\ CanForm
    /\ PreemptionRaises(V)
    /\ aborted' = TRUE
    /\ UNCHANGED <<queueVars, tokenVars, memoryVars>>

\* The pipeline is full or nothing can be proposed.
ScheduleIdle ==
    /\ caller = StartNPU /\ ~CanForm
    /\ UNCHANGED <<queueVars, tokenVars, memoryVars, aborted>>

\* The other endpoint fetches the batch it asks for, once it has been formed.
FetchBatch ==
    /\ caller # StartNPU
    /\ \E b \in inflight :
         /\ b.id = iter[caller] /\ caller \notin b.fired
         /\ inflight' = (inflight \ {b}) \cup {[b EXCEPT !.fired = @ \cup {caller}]}
    /\ UNCHANGED <<request, done, batchIds, tokenVars, memoryVars, aborted>>

FetchNothing ==
    /\ caller # StartNPU
    /\ ~\E b \in inflight : b.id = iter[caller] /\ caller \notin b.fired
    /\ UNCHANGED <<queueVars, tokenVars, memoryVars, aborted>>

Schedule ==
    /\ ~aborted /\ caller # NoNPU
    /\ caller' = NoNPU
    /\ \/ \E V \in SUBSET request :
            Chosen(V) /\ (ScheduleBatch(V) \/ ScheduleNothing(V) \/ ScheduleRaises(V))
       \/ ScheduleIdle \/ FetchBatch \/ FetchNothing
    /\ UNCHANGED <<input, output, iter>>

Next ==
    \/ \E r \in Req : Arrive(r)
    \/ \E n \in Endpoint : Report(n)
    \/ Schedule

Spec == Init /\ [][Next]_vars

(***************************************************************************)
(* Simulated time passes: a workload that runs ends, an idle endpoint      *)
(* polls again, and the main loop answers every callback.  Only Schedule   *)
(* ends a callback and only Report(n) begins one of n.                     *)
(***************************************************************************)
Answered == ~aborted /\ caller # NoNPU /\ caller' = NoNPU
Calls(n) == ~aborted /\ caller = NoNPU /\ caller' = n

Fairness == WF_caller(Answered) /\ \A n \in Endpoint : SF_caller(Calls(n))

FairSpec == Spec /\ Fairness

----------------------------------------------------------------------------
(* Correctness *)

\* Every variable of the scheduler keeps its type.
TypeOK ==
    /\ input \in [Req -> Inputs] /\ output \in [Req -> Outputs]
    /\ request \subseteq Req /\ done \subseteq Req /\ inflight \subseteq Batch
    /\ batchIds \in Nat \cup {-1}
    /\ computed \in [Req -> 0..MaxContext] /\ chunk \in [Req -> 0..MaxTokens]
    /\ generated \in [Req -> Nat] /\ target \in [Req -> 0..MaxContext]
    /\ evict \in [Req -> BOOLEAN]
    /\ npuUsed \in Nat /\ cpuUsed \in Nat
    /\ iter \in [Endpoint -> Nat]
    /\ caller \in Endpoint \cup {NoNPU} /\ aborted \in BOOLEAN

\* No block leaks and none is counted twice: over any history of chunks,
\* preemptions, reloads and completions npu_used is the sum of what the
\* queued and running requests hold, and never exceeds the device.
HbmBooksExact ==
    /\ npuUsed = Sum([r \in Req |-> Held(r)], Req)
    /\ npuUsed <= NpuBlocks

\* The CPU side of swapping: cpu_used is what the swapped-out requests left
\* there, over all ranks, and never exceeds the CPU's memory.
SwapBooksExact ==
    /\ cpuUsed = NumNPUs * Sum([r \in Req |-> Spilled(r)], Req)
    /\ cpuUsed <= CpuBlocks

\* A request is queued, in exactly one batch, or done, and only those in a
\* batch have tokens scheduled: none is lost or run twice when batches are
\* formed, preempted and merged back.
OnePlace ==
    /\ request \cap Running = {} /\ (request \cup Running) \cap done = {}
    /\ \A b, c \in inflight : b # c => b.id # c.id /\ b.requests \cap c.requests = {}
    /\ \A r \in Req : chunk[r] > 0 <=> r \in Running

\* A batch that has left the pipeline was executed by both endpoints, so none
\* of them asks for it in vain: an endpoint is never past a batch in flight it
\* has not reported, nor behind one that is gone.
PipelineInStep ==
    /\ \A b \in inflight : \A n \in Endpoint :
          (n \in b.end <=> iter[n] > b.id) /\ (n \in b.end => n \in b.fired)
    /\ \A id \in 0..batchIds : (\A b \in inflight : b.id # id) =>
          \A n \in Endpoint : iter[n] > id

\* The limits hold over everything in flight together: pp_size batches,
\* max_num_seqs requests, max_num_batched_tokens in each batch.
WithinLimits ==
    /\ Cardinality(inflight) <= PPSize
    /\ Cardinality(Running) <= MaxSeqs
    /\ \A b \in inflight : Sum(chunk, b.requests) <= MaxTokens

\* None of the runtime checks of MemoryModel, Request and add_done fires.
NeverAborts == ~aborted

\* Until a context is discarded, a request that has produced tokens has the KV
\* of its prompt and of all of them but the last, which the next step computes:
\* the context a finished turn leaves behind is prompt + output - 1 tokens.
ContextMatchesOutput ==
    \A r \in Req : generated[r] > 0 => computed[r] = input[r] + generated[r] - 1

\* The instance implements the abstract token service: preempting, swapping,
\* recomputing and batching a request is invisible to its client, and each
\* completed batch gives each of its requests at most its next token.
Service == INSTANCE TokenService WITH
    wanted <- output, accepted <- Arrived, emitted <- generated, finished <- done

ServesTokens == Service!Spec

\* Every request that was enqueued gets all of its tokens.
EveryRequestServed == \A r \in Req : r \in request ~> r \in done
=============================================================================
