--------------------------- MODULE SchedulerProofs ---------------------------
(***************************************************************************)
(* Theorems about Scheduler for every number of requests, every prompt and *)
(* output length, every memory size, every token budget and every mode.    *)
(*                                                                         *)
(* The counters of blocks are exact only because of what is known of every *)
(* request (a context never outgrows prompt + output, a running prefill    *)
(* never overshoots its target, only a queued decode is swapped out), and  *)
(* that in turn rests on the types and on each request being in one place. *)
(* So all of it is one inductive invariant, IInv, proved action by action; *)
(* the totals are compared through the lemmas of LedgerProofs.             *)
(***************************************************************************)
EXTENDS Scheduler, LedgerProofs, WellFoundedInduction

-----------------------------------------------------------------------------
(* Blocks and sums.                                                        *)

\* What the assumptions say of the constants, in the form the proofs use.
LEMMA Sizes ==
    /\ IsFiniteSet(Req) /\ Req \subseteq Nat \ {0} /\ MaxContext \in Nat
    /\ \A i \in Inputs, o \in Outputs :
          i \in Nat \ {0} /\ o \in Nat \ {0} /\ i + o <= MaxContext
<1>1. IsFiniteSet(Req)
    BY SizeAssumption, FS_Interval DEF Req
<1> QED
    BY <1>1, SizeAssumption, TokenAssumption DEF Req

\* A division rounds down to the multiple below.
LEMMA DivBounds ==
    ASSUME NEW x \in Nat, NEW n \in Nat \ {0}
    PROVE  /\ x \div n \in Nat
           /\ n * (x \div n) <= x /\ x < n * (x \div n) + n
OBVIOUS

\* A context needs at most one block per token, and none when it is empty.
LEMMA BlocksBound ==
    ASSUME NEW k \in Nat
    PROVE  Blocks(k) \in 0..k
<1> DEFINE q == (k + BlockSize - 1) \div BlockSize
<1>1. BlockSize \in Nat /\ BlockSize >= 1 /\ k + BlockSize - 1 \in Nat
    BY SizeAssumption
<1>2. q \in Nat /\ BlockSize * q <= k + BlockSize - 1
    BY <1>1, DivBounds
<1>3. Blocks(k) = q
    BY DEF Blocks
<1> HIDE DEF q
<1>4. ASSUME q >= k + 1 PROVE FALSE
  <2>1. BlockSize * q >= BlockSize * (k + 1)
      BY <1>1, <1>2, <1>4
  <2>2. BlockSize * (k + 1) = BlockSize * k + BlockSize /\ BlockSize * k >= k
      BY <1>1
  <2>3. BlockSize * k \in Nat /\ BlockSize * q \in Nat /\ BlockSize * (k + 1) \in Nat
      BY <1>1, <1>2
  <2> QED
      BY <1>1, <1>2, <2>1, <2>2, <2>3
<1> QED
    BY <1>2, <1>3, <1>4

\* A longer context never needs fewer blocks.
LEMMA BlocksMonotone ==
    ASSUME NEW k \in Nat, NEW m \in Nat, k <= m
    PROVE  Blocks(k) <= Blocks(m)
<1> DEFINE q == (k + BlockSize - 1) \div BlockSize
           r == (m + BlockSize - 1) \div BlockSize
<1>1. /\ BlockSize \in Nat /\ BlockSize >= 1
      /\ k + BlockSize - 1 \in Nat /\ m + BlockSize - 1 \in Nat
    BY SizeAssumption
<1>2. q \in Nat /\ BlockSize * q <= k + BlockSize - 1
    BY <1>1, DivBounds
<1>3. r \in Nat /\ m + BlockSize - 1 < BlockSize * r + BlockSize
    BY <1>1, DivBounds
<1>4. Blocks(k) = q /\ Blocks(m) = r
    BY DEF Blocks
<1> HIDE DEF q, r
<1>5. ASSUME q >= r + 1 PROVE FALSE
  <2>1. BlockSize * q >= BlockSize * (r + 1)
      BY <1>1, <1>2, <1>3, <1>5
  <2>2. BlockSize * (r + 1) = BlockSize * r + BlockSize
      BY <1>1, <1>3
  <2>3. BlockSize * q \in Nat /\ BlockSize * r \in Nat
      BY <1>1, <1>2, <1>3
  <2> QED
      BY <1>1, <1>2, <1>3, <2>1, <2>2, <2>3
<1> QED
    BY <1>2, <1>3, <1>4, <1>5

\* The map whose total Sum takes.
Masked(f, S) == [r \in Req |-> IF r \in S THEN f[r] ELSE 0]

\* A sum of bounded entries is a number, and no less than any of them.
LEMMA MaskedSum ==
    ASSUME NEW f, NEW S, \A r \in Req : r \in S => f[r] \in 0..MaxContext
    PROVE  /\ Masked(f, S) \in [Req -> 0..MaxContext]
           /\ Sum(f, S) = Total(Masked(f, S), MaxContext)
           /\ Sum(f, S) \in Nat
<1>1. Masked(f, S) \in [Req -> 0..MaxContext]
    BY Sizes DEF Masked
<1>2. Sum(f, S) = Total(Masked(f, S), MaxContext)
    BY DEF Sum, Masked
<1>3. Total(Masked(f, S), MaxContext) \in Nat
    BY <1>1, Sizes, CellsFinite
<1> QED
    BY <1>1, <1>2, <1>3

\* The sum over all the requests is the total of the map.
LEMMA SumAll ==
    ASSUME NEW S, NEW f \in [Req -> S]
    PROVE  Sum(f, Req) = Total(f, MaxContext)
<1>1. f = [r \in Req |-> IF r \in Req THEN f[r] ELSE 0]
    OBVIOUS
<1> QED
    BY <1>1 DEF Sum

\* Two pairs of maps that balance entry by entry balance in total.
LEMMA TotalBalance ==
    ASSUME NEW a \in [Req -> 0..MaxContext], NEW b \in [Req -> 0..MaxContext],
           NEW c \in [Req -> 0..MaxContext], NEW d \in [Req -> 0..MaxContext],
           \A r \in Req : a[r] + b[r] = c[r] + d[r] /\ a[r] + b[r] <= MaxContext
    PROVE  Total(a, MaxContext) + Total(b, MaxContext)
             = Total(c, MaxContext) + Total(d, MaxContext)
<1> DEFINE m == [r \in Req |-> a[r] + b[r]]
<1>1. m \in [Req -> 0..MaxContext]
    BY Sizes
<1>2. \A r \in Req : m[r] = a[r] + b[r] /\ m[r] = c[r] + d[r]
    OBVIOUS
<1> HIDE DEF m
<1>3. IsFiniteSet(Req) /\ MaxContext \in Nat
    BY Sizes
<1>4. Total(m, MaxContext) = Total(a, MaxContext) + Total(b, MaxContext)
  <2>1. \A r \in Req : m[r] = a[r] + b[r]
      BY <1>2
  <2> QED
      BY <1>1, <1>3, <2>1, TotalPlus
<1>5. Total(m, MaxContext) = Total(c, MaxContext) + Total(d, MaxContext)
  <2>1. \A r \in Req : m[r] = c[r] + d[r]
      BY <1>2
  <2> QED
      BY <1>1, <1>3, <2>1, TotalPlus
<1> QED
    BY <1>4, <1>5

-----------------------------------------------------------------------------
(* The inductive invariant.                                                *)

\* Where a request stands: in its first prefill, decoding, or rebuilding a
\* context that was discarded while it was decoding.
Context(r) ==
    /\ generated[r] = 0 => target[r] = 0 /\ computed[r] < input[r]
    /\ generated[r] > 0 /\ target[r] = 0 =>
          input[r] <= computed[r] /\ computed[r] <= input[r] + generated[r] - 1
    /\ generated[r] > 0 /\ target[r] > 0 =>
          /\ computed[r] < target[r]
          /\ input[r] <= target[r] /\ target[r] <= input[r] + generated[r] - 1

\* A request is done exactly when it has all its tokens.
Length(r) ==
    /\ generated[r] <= output[r]
    /\ r \in done <=> generated[r] = output[r]

\* What a running request computes never takes it past its target.
InBatch(r) ==
    /\ r \notin Running => chunk[r] = 0
    /\ r \in Running =>
          /\ chunk[r] \in 1..MaxTokens
          /\ IF IsPrefill(r) THEN computed[r] + chunk[r] <= PrefillTarget(r) ELSE chunk[r] = 1

\* Only queued decodes are swapped out or discarded, by one mode or the other.
Preempted(r) ==
    /\ evict[r] => r \in request /\ ~IsPrefill(r) /\ CpuSwap
    /\ target[r] > 0 => ~CpuSwap

ReqInv == \A r \in Req : Context(r) /\ Length(r) /\ InBatch(r) /\ Preempted(r)

\* The batches of the pipeline: finitely many, numbered in order.
BatchesInv == IsFiniteSet(inflight) /\ \A b \in inflight : b.id <= batchIds

\* Every invariant of the scheduler is proved together: the types rest on the
\* books, the books on what requests have computed.
IInv == TypeOK /\ OnePlace /\ BatchesInv /\ ReqInv /\ HbmBooksExact /\ SwapBooksExact

-----------------------------------------------------------------------------
(* What the invariant says of one request.                                 *)

\* The types of one request's counters.
LEMMA ReqTypes ==
    ASSUME TypeOK, NEW r \in Req
    PROVE  /\ input[r] \in Nat \ {0} /\ output[r] \in Nat \ {0}
           /\ input[r] + output[r] <= MaxContext
           /\ computed[r] \in 0..MaxContext /\ chunk[r] \in 0..MaxTokens
           /\ generated[r] \in Nat /\ target[r] \in 0..MaxContext
           /\ evict[r] \in BOOLEAN /\ MaxContext \in Nat /\ MaxTokens \in Nat
<1>1. input[r] \in Inputs /\ output[r] \in Outputs
    BY DEF TypeOK
<1>2. /\ computed[r] \in 0..MaxContext /\ chunk[r] \in 0..MaxTokens
      /\ generated[r] \in Nat /\ target[r] \in 0..MaxContext /\ evict[r] \in BOOLEAN
    BY DEF TypeOK
<1> QED
    BY <1>1, <1>2, Sizes, SizeAssumption

\* A decode has a complete context and has produced a token.
LEMMA DecodeFacts ==
    ASSUME TypeOK, ReqInv, NEW r \in Req, ~IsPrefill(r)
    PROVE  /\ target[r] = 0 /\ generated[r] > 0
           /\ input[r] <= computed[r] /\ computed[r] <= input[r] + generated[r] - 1
<1>1. Context(r)
    BY DEF ReqInv
<1> QED
    BY <1>1, ReqTypes DEF Context, IsPrefill, PrefillTarget

\* What a prefill has left to compute.
LEMMA PrefillFacts ==
    ASSUME TypeOK, ReqInv, NEW r \in Req, IsPrefill(r)
    PROVE  /\ Remaining(r) \in 1..MaxContext
           /\ PrefillTarget(r) = computed[r] + Remaining(r)
           /\ PrefillTarget(r) <= MaxContext
<1>1. PrefillTarget(r) \in Nat /\ PrefillTarget(r) <= MaxContext
    BY ReqTypes DEF PrefillTarget
<1> QED
    BY <1>1, ReqTypes DEF IsPrefill, Remaining

\* The context a request will have after its batch is within bounds.
LEMMA ContextBound ==
    ASSUME TypeOK, ReqInv, NEW r \in Req
    PROVE  computed[r] + chunk[r] \in 0..MaxContext
<1>1. InBatch(r) /\ Length(r) /\ Context(r)
    BY DEF ReqInv
<1>2. CASE r \notin Running
    BY <1>1, <1>2, ReqTypes DEF InBatch
<1>3. CASE r \in Running /\ IsPrefill(r)
    BY <1>1, <1>3, ReqTypes, PrefillFacts DEF InBatch
<1>4. CASE r \in Running /\ ~IsPrefill(r)
    BY <1>1, <1>4, ReqTypes, DecodeFacts DEF InBatch, Length
<1> QED
    BY <1>2, <1>3, <1>4

\* What a request holds, on either side, is a bounded number of blocks.
LEMMA HeldBound ==
    ASSUME TypeOK, ReqInv, NEW r \in Req
    PROVE  /\ Held(r) \in 0..MaxContext /\ Spilled(r) \in 0..MaxContext
           /\ Blocks(computed[r]) \in 0..MaxContext
           /\ Blocks(computed[r] + chunk[r]) \in 0..MaxContext
<1>1. Blocks(computed[r]) \in 0..MaxContext
    BY ReqTypes, BlocksBound
<1>2. Blocks(computed[r] + chunk[r]) \in 0..MaxContext
    BY ContextBound, Sizes, BlocksBound
<1> QED
    BY <1>1, <1>2, Sizes DEF Held, Spilled

\* The books in terms of totals of what the requests hold.
HeldMap    == [r \in Req |-> Held(r)]
SpilledMap == [r \in Req |-> Spilled(r)]

\* Both books say that a counter is the total of such a map.
LEMMA BooksAsTotals ==
    ASSUME TypeOK, ReqInv
    PROVE  /\ HeldMap \in [Req -> 0..MaxContext] /\ SpilledMap \in [Req -> 0..MaxContext]
           /\ HbmBooksExact <=> npuUsed = Total(HeldMap, MaxContext) /\ npuUsed <= NpuBlocks
           /\ SwapBooksExact <=>
                 cpuUsed = NumNPUs * Total(SpilledMap, MaxContext) /\ cpuUsed <= CpuBlocks
<1>1. HeldMap \in [Req -> 0..MaxContext] /\ SpilledMap \in [Req -> 0..MaxContext]
    BY HeldBound DEF HeldMap, SpilledMap
<1>2. Sum(HeldMap, Req) = Total(HeldMap, MaxContext)
    BY <1>1, SumAll
<1>3. Sum(SpilledMap, Req) = Total(SpilledMap, MaxContext)
    BY <1>1, SumAll
<1>4. Sum([r \in Req |-> Held(r)], Req) = Total(HeldMap, MaxContext)
    BY <1>2 DEF HeldMap
<1>5. Sum([r \in Req |-> Spilled(r)], Req) = Total(SpilledMap, MaxContext)
    BY <1>3 DEF SpilledMap
<1> QED
    BY <1>1, <1>4, <1>5 DEF HbmBooksExact, SwapBooksExact

-----------------------------------------------------------------------------
(* The initial state and the steps that touch no counter.                  *)

\* Nothing has arrived and nothing is held.
LEMMA InitIInv == Init => IInv
<1> SUFFICES ASSUME Init PROVE IInv
    OBVIOUS
<1>1. TypeOK
  <2>1. 0 \in 0..MaxContext /\ 0 \in 0..MaxTokens
      BY SizeAssumption
  <2>2. /\ computed \in [Req -> 0..MaxContext] /\ target \in [Req -> 0..MaxContext]
        /\ chunk \in [Req -> 0..MaxTokens] /\ generated \in [Req -> Nat]
        /\ evict \in [Req -> BOOLEAN] /\ iter \in [Endpoint -> Nat]
      BY <2>1 DEF Init
  <2> QED
      BY <2>2 DEF Init, TypeOK
<1>2. Running = {}
    BY DEF Init, Running
<1>3. OnePlace
    BY <1>2 DEF Init, OnePlace
<1>4. BatchesInv
    BY FS_EmptySet DEF Init, BatchesInv
<1>5. ReqInv
    BY <1>1, <1>2, ReqTypes DEF Init, ReqInv, Context, Length, InBatch, Preempted
<1>6. \A r \in Req : HeldMap[r] = 0 /\ SpilledMap[r] = 0
  <2>1. Blocks(0) = 0
      BY BlocksBound
  <2> QED
      BY <2>1 DEF Init, HeldMap, SpilledMap, Held, Spilled
<1>7. Total(HeldMap, MaxContext) = 0 /\ Total(SpilledMap, MaxContext) = 0
    BY <1>1, <1>5, <1>6, BooksAsTotals, TotalZero, Sizes
<1>8. HbmBooksExact /\ SwapBooksExact
    BY <1>1, <1>5, <1>7, BooksAsTotals, SizeAssumption DEF Init
<1> QED
    BY <1>1, <1>3, <1>4, <1>5, <1>8 DEF IInv

\* The books depend only on what requests have, where, and on who is done.
LEMMA BooksFrame ==
    ASSUME HbmBooksExact, SwapBooksExact,
           UNCHANGED <<computed, chunk, evict, done, npuUsed, cpuUsed>>
    PROVE  HbmBooksExact' /\ SwapBooksExact'
BY DEF HbmBooksExact, SwapBooksExact, Held, Spilled, Sum

\* A request enters the queue with no tokens and no blocks.
LEMMA ArriveIInv ==
    ASSUME IInv, NEW r \in Req, Arrive(r)
    PROVE  IInv'
<1> USE DEF Arrive, IInv, tokenVars, memoryVars
<1>1. TypeOK'
    BY DEF TypeOK
<1>2. Running' = Running
    BY DEF Running
<1>3. OnePlace'
    BY <1>2 DEF OnePlace, Arrived
<1>4. BatchesInv'
    BY DEF BatchesInv
<1>5. ReqInv'
    BY <1>2 DEF ReqInv, Context, Length, InBatch, Preempted, IsPrefill, PrefillTarget
<1>6. HbmBooksExact' /\ SwapBooksExact'
    BY BooksFrame
<1> QED
    BY <1>1, <1>3, <1>4, <1>5, <1>6

\* A step that leaves queue, requests and memory alone keeps the invariant.
LEMMA IdleIInv ==
    ASSUME IInv, UNCHANGED <<input, output, queueVars, tokenVars, memoryVars>>,
           iter' \in [Endpoint -> Nat], caller' \in Endpoint \cup {NoNPU},
           aborted' \in BOOLEAN
    PROVE  IInv'
<1> USE DEF IInv, queueVars, tokenVars, memoryVars
<1>1. TypeOK'
    BY DEF TypeOK
<1>2. Running' = Running
    BY DEF Running
<1>3. OnePlace' /\ BatchesInv'
    BY <1>2 DEF OnePlace, BatchesInv
<1>4. ReqInv'
    BY <1>2 DEF ReqInv, Context, Length, InBatch, Preempted, IsPrefill, PrefillTarget
<1>5. HbmBooksExact' /\ SwapBooksExact'
    BY BooksFrame
<1> QED
    BY <1>1, <1>3, <1>4, <1>5

\* An endpoint signs a batch, which changes nothing but the signature.
LEMMA SignedIInv ==
    ASSUME IInv, NEW b \in inflight, NEW c \in Batch,
           c.id = b.id, c.requests = b.requests,
           inflight' = (inflight \ {b}) \cup {c},
           UNCHANGED <<input, output, request, done, batchIds, tokenVars, memoryVars>>,
           iter' \in [Endpoint -> Nat], caller' \in Endpoint \cup {NoNPU},
           aborted' \in BOOLEAN
    PROVE  IInv'
<1> USE DEF IInv, tokenVars, memoryVars
<1>1. TypeOK'
    BY DEF TypeOK
<1>2. Running' = Running
    BY DEF Running
<1>3. OnePlace'
    BY <1>2 DEF OnePlace
<1>4. BatchesInv'
  <2>1. IsFiniteSet(inflight')
      BY FS_RemoveElement, FS_AddElement DEF BatchesInv
  <2> QED
      BY <2>1 DEF BatchesInv
<1>5. ReqInv'
    BY <1>2 DEF ReqInv, Context, Length, InBatch, Preempted, IsPrefill, PrefillTarget
<1>6. HbmBooksExact' /\ SwapBooksExact'
    BY BooksFrame
<1> QED
    BY <1>1, <1>3, <1>4, <1>5, <1>6

-----------------------------------------------------------------------------
(* A batch completes.                                                      *)

\* The requests of a batch are running and leave together with it.
LEMMA CompletePlaces ==
    ASSUME IInv, NEW b \in inflight, Complete(b)
    PROVE  /\ b.requests \subseteq Running /\ b.requests \subseteq Req
           /\ Running' = Running \ b.requests
           /\ Finished(b) \subseteq b.requests
<1>1. b.requests \subseteq Running
    BY DEF Running
<1>2. b.requests \subseteq Req
    BY DEF IInv, TypeOK, Batch
<1>3. inflight' = inflight \ {b}
    BY DEF Complete
<1>4. \A c \in inflight : c # b => c.requests \cap b.requests = {}
    BY DEF IInv, OnePlace
<1>5. Running' = Running \ b.requests
    BY <1>3, <1>4 DEF Running
<1> QED
    BY <1>1, <1>2, <1>5 DEF Finished

\* What completing the batch does to one of its requests.
LEMMA CompleteReq ==
    ASSUME IInv, NEW b \in inflight, Complete(b), UNCHANGED <<input, output>>,
           NEW r \in b.requests
    PROVE  /\ r \in Req /\ ~evict[r] /\ r \notin done
           /\ Context(r)' /\ Length(r)' /\ InBatch(r)' /\ Preempted(r)'
           /\ Emitted(b, r) \in {0, 1}
<1>1. r \in Req /\ r \in Running /\ r \notin Running' /\ r \notin request /\ r \notin done
    BY CompletePlaces DEF IInv, OnePlace
<1>2. Context(r) /\ Length(r) /\ InBatch(r) /\ Preempted(r) /\ TypeOK /\ ReqInv
    BY <1>1 DEF IInv, ReqInv
<1>3. ~evict[r]
    BY <1>1, <1>2 DEF Preempted
<1>4. generated[r] < output[r]
    BY <1>1, <1>2, ReqTypes DEF Length
<1>5. /\ computed'[r] = computed[r] + chunk[r] /\ chunk'[r] = 0
      /\ generated'[r] = generated[r] + Emitted(b, r)
      /\ target'[r] = IF Emitted(b, r) = 1 THEN 0 ELSE target[r]
      /\ evict'[r] = evict[r]
      /\ input' = input /\ output' = output
      /\ r \in done' <=> r \in Finished(b)
    BY <1>1 DEF Complete
<1>6. Emitted(b, r) = IF computed[r] + chunk[r] >= PrefillTarget(r) THEN 1 ELSE 0
    BY DEF Emitted, Emits
<1>7. Context(r)'
  <2>1. CASE ~IsPrefill(r)
    <3>1. chunk[r] = 1 /\ target[r] = 0
        BY <1>1, <1>2, <2>1, DecodeFacts DEF InBatch
    <3>2. Emitted(b, r) = 1
        BY <1>1, <1>2, <1>6, <2>1, <3>1, ReqTypes DEF IsPrefill, PrefillTarget
    <3> QED
        BY <1>1, <1>2, <1>5, <2>1, <3>1, <3>2, ReqTypes, DecodeFacts DEF Context
  <2>2. CASE IsPrefill(r) /\ Emitted(b, r) = 1
    <3>1. computed[r] + chunk[r] = PrefillTarget(r)
        BY <1>1, <1>2, <1>6, <2>2, ReqTypes DEF InBatch, PrefillTarget
    <3> QED
        BY <1>1, <1>2, <1>5, <2>2, <3>1, ReqTypes DEF Context, PrefillTarget
  <2>3. CASE IsPrefill(r) /\ Emitted(b, r) # 1
    <3>1. computed[r] + chunk[r] < PrefillTarget(r) /\ Emitted(b, r) = 0
        BY <1>1, <1>2, <1>6, <2>3, ReqTypes DEF PrefillTarget
    <3> QED
        BY <1>1, <1>2, <1>5, <2>3, <3>1, ReqTypes DEF Context, PrefillTarget, IsPrefill
  <2> QED
      BY <2>1, <2>2, <2>3
<1>8. Length(r)'
  <2>1. r \in Finished(b) <=> generated[r] + Emitted(b, r) >= output[r]
      BY DEF Finished
  <2> QED
      BY <1>1, <1>2, <1>4, <1>5, <1>6, <2>1, ReqTypes DEF Length
<1>9. InBatch(r)' /\ Preempted(r)'
    BY <1>1, <1>2, <1>3, <1>5, <1>6, ReqTypes DEF InBatch, Preempted
<1> QED
    BY <1>1, <1>3, <1>6, <1>7, <1>8, <1>9

\* Completing a batch is nothing to the other requests.
LEMMA CompleteOther ==
    ASSUME IInv, NEW b \in inflight, Complete(b), UNCHANGED <<input, output>>,
           NEW r \in Req \ b.requests
    PROVE  /\ computed'[r] = computed[r] /\ chunk'[r] = chunk[r]
           /\ evict'[r] = evict[r] /\ (r \in done' <=> r \in done)
           /\ Context(r)' /\ Length(r)' /\ InBatch(r)' /\ Preempted(r)'
<1>1. /\ r \in Running' <=> r \in Running
      /\ r \notin Finished(b)
    BY CompletePlaces
<1>2. Context(r) /\ Length(r) /\ InBatch(r) /\ Preempted(r) /\ TypeOK
    BY DEF IInv, ReqInv
<1>3. Emitted(b, r) = 0
    BY DEF Emitted
<1>4. /\ computed'[r] = computed[r] /\ chunk'[r] = chunk[r]
      /\ generated'[r] = generated[r] /\ target'[r] = target[r]
      /\ evict'[r] = evict[r] /\ input' = input /\ output' = output
      /\ r \in done' <=> r \in done
      /\ r \in request' <=> r \in request
    BY <1>1, <1>2, <1>3, ReqTypes DEF Complete
<1> QED
    BY <1>1, <1>2, <1>4 DEF Context, Length, InBatch, Preempted, IsPrefill, PrefillTarget

\* The finished requests give back exactly what they held.
LEMMA CompleteBooks ==
    ASSUME IInv, NEW b \in inflight, Complete(b), UNCHANGED <<input, output>>
    PROVE  /\ HbmBooksExact' /\ SwapBooksExact'
           /\ npuUsed' \in Nat /\ BlocksReturned(b) <= npuUsed
<1> DEFINE f == [r \in Req |-> Blocks(computed[r] + chunk[r])]
           back == Masked(f, Finished(b))
<1>1. TypeOK /\ ReqInv /\ HbmBooksExact /\ SwapBooksExact
    BY DEF IInv
<1>2. HeldMap \in [Req -> 0..MaxContext] /\ SpilledMap \in [Req -> 0..MaxContext]
    BY <1>1, BooksAsTotals
<1>3. f \in [Req -> 0..MaxContext]
    BY <1>1, HeldBound
<1>4. /\ back \in [Req -> 0..MaxContext]
      /\ BlocksReturned(b) = Total(back, MaxContext)
  <2>1. back \in [Req -> 0..MaxContext] /\ Sum(f, Finished(b)) = Total(back, MaxContext)
      BY <1>3, MaskedSum
  <2> QED
      BY <2>1 DEF BlocksReturned
<1>5. \A r \in Req : HeldMap[r] = HeldMap'[r] + back[r]
  <2> SUFFICES ASSUME NEW r \in Req PROVE Held(r) = Held(r)' + back[r]
      BY DEF HeldMap
  <2>1. back[r] = IF r \in Finished(b) THEN Blocks(computed[r] + chunk[r]) ELSE 0
      BY DEF Masked
  <2>2. Held(r) \in 0..MaxContext
      BY <1>1, HeldBound
  <2>3. CASE r \in b.requests
    <3>1. ~evict[r] /\ r \notin done
        BY <2>3, CompleteReq
    <3>2. computed'[r] + chunk'[r] = computed[r] + chunk[r] /\ evict'[r] = evict[r]
          /\ (r \in done' <=> r \in Finished(b))
        BY <1>1, <2>3, <3>1, ReqTypes DEF Complete
    <3>3. Blocks(computed'[r] + chunk'[r]) = Blocks(computed[r] + chunk[r])
        BY <3>2
    <3> HIDE DEF back
    <3> QED
        BY <2>1, <2>2, <3>1, <3>2, <3>3 DEF Held
  <2>4. CASE r \notin b.requests
    <3>1. /\ computed'[r] = computed[r] /\ chunk'[r] = chunk[r]
          /\ evict'[r] = evict[r] /\ (r \in done' <=> r \in done)
        BY <2>4, CompleteOther
    <3>2. r \notin Finished(b)
        BY <2>4, CompletePlaces
    <3>3. Held(r)' = Held(r)
        BY <3>1 DEF Held
    <3> QED
        BY <2>1, <2>2, <3>2, <3>3
  <2> QED
      BY <2>3, <2>4
<1>6. HeldMap' \in [Req -> 0..MaxContext]
  <2>1. HeldMap' = [r \in Req |-> Held(r)']
      BY DEF HeldMap
  <2>2. \A r \in Req : Held(r)' \in 0..MaxContext
    <3> SUFFICES ASSUME NEW r \in Req PROVE Held(r)' \in 0..MaxContext
        OBVIOUS
    <3>1. computed'[r] + chunk'[r] = computed[r] + chunk[r]
        BY <1>1, ReqTypes, CompletePlaces, ContextBound DEF Complete
    <3>2. Blocks(computed'[r] + chunk'[r]) = Blocks(computed[r] + chunk[r])
        BY <3>1
    <3>3. Blocks(computed[r] + chunk[r]) \in 0..MaxContext
        BY <1>1, HeldBound
    <3> QED
        BY <3>2, <3>3, Sizes DEF Held
  <2> QED
      BY <2>1, <2>2
<1> HIDE DEF back, f
<1>7. Total(HeldMap, MaxContext) = Total(HeldMap', MaxContext) + Total(back, MaxContext)
  <2>1. IsFiniteSet(Req) /\ MaxContext \in Nat
      BY Sizes
  <2> QED
      BY <1>2, <1>4, <1>5, <1>6, <2>1, TotalPlus
<1>8. Total(HeldMap', MaxContext) \in Nat /\ Total(back, MaxContext) \in Nat
    BY <1>4, <1>6, Sizes, CellsFinite
<1>9. npuUsed = Total(HeldMap, MaxContext) /\ npuUsed <= NpuBlocks
    BY <1>1, BooksAsTotals
<1>10. npuUsed' = npuUsed - BlocksReturned(b)
    BY DEF Complete
<1>11. npuUsed' = Total(HeldMap', MaxContext) /\ npuUsed' <= NpuBlocks
    BY <1>4, <1>7, <1>8, <1>9, <1>10, SizeAssumption
<1>12. HbmBooksExact'
  <2>1. Sum(HeldMap', Req) = Total(HeldMap', MaxContext)
      BY <1>6, SumAll
  <2> QED
      BY <1>11, <2>1 DEF HbmBooksExact, HeldMap
<1>13. SwapBooksExact'
  <2>1. \A r \in Req : Spilled(r)' = Spilled(r)
    <3> SUFFICES ASSUME NEW r \in Req PROVE Spilled(r)' = Spilled(r)
        OBVIOUS
    <3>1. CASE r \in b.requests
        BY <3>1, CompleteReq DEF Spilled, Complete
    <3>2. CASE r \notin b.requests
        BY <3>2, CompleteOther DEF Spilled
    <3> QED
        BY <3>1, <3>2
  <2>2. [r \in Req |-> Spilled(r)'] = [r \in Req |-> Spilled(r)]
      BY <2>1
  <2>3. Sum([r \in Req |-> Spilled(r)'], Req) = Sum([r \in Req |-> Spilled(r)], Req)
      BY <2>2
  <2>4. cpuUsed' = cpuUsed
      BY DEF Complete
  <2> QED
      BY <1>1, <2>3, <2>4 DEF SwapBooksExact
<1> QED
    BY <1>4, <1>7, <1>8, <1>9, <1>11, <1>12, <1>13

\* The completion of a batch keeps the invariant.
LEMMA CompleteIInv ==
    ASSUME IInv, NEW b \in inflight, Complete(b), UNCHANGED <<input, output>>,
           iter' \in [Endpoint -> Nat], caller' \in Endpoint \cup {NoNPU}
    PROVE  IInv'
<1>1. TypeOK /\ ReqInv /\ OnePlace /\ BatchesInv
    BY DEF IInv
<1>2. /\ b.requests \subseteq Running /\ b.requests \subseteq Req
      /\ Running' = Running \ b.requests /\ Finished(b) \subseteq b.requests
    BY CompletePlaces
<1>3. /\ computed' = [r \in Req |-> computed[r] + (IF r \in b.requests THEN chunk[r] ELSE 0)]
      /\ chunk' = [r \in Req |-> IF r \in b.requests THEN 0 ELSE chunk[r]]
      /\ generated' = [r \in Req |-> generated[r] + Emitted(b, r)]
      /\ target' = [r \in Req |-> IF Emitted(b, r) = 1 THEN 0 ELSE target[r]]
      /\ done' = done \cup Finished(b)
      /\ request' = request \cup (b.requests \ Finished(b))
      /\ inflight' = inflight \ {b}
      /\ UNCHANGED <<batchIds, evict, cpuUsed, aborted>>
    BY DEF Complete
<1>4. ReqInv'
  <2> SUFFICES ASSUME NEW r \in Req
               PROVE  Context(r)' /\ Length(r)' /\ InBatch(r)' /\ Preempted(r)'
      BY DEF ReqInv
  <2>1. CASE r \in b.requests
      BY <2>1, CompleteReq
  <2>2. CASE r \notin b.requests
      BY <2>2, CompleteOther
  <2> QED
      BY <2>1, <2>2
<1>5. HbmBooksExact' /\ SwapBooksExact' /\ npuUsed' \in Nat
    BY CompleteBooks
<1>6. TypeOK'
  <2>1. computed' \in [Req -> 0..MaxContext]
    <3> SUFFICES ASSUME NEW r \in Req
                 PROVE  computed[r] + (IF r \in b.requests THEN chunk[r] ELSE 0) \in 0..MaxContext
        BY <1>3
    <3> QED
        BY <1>1, ReqTypes, ContextBound
  <2>2. chunk' \in [Req -> 0..MaxTokens]
      BY <1>1, <1>3, SizeAssumption DEF TypeOK
  <2>3. generated' \in [Req -> Nat]
    <3>1. \A r \in Req : Emitted(b, r) \in {0, 1}
        BY DEF Emitted
    <3> QED
        BY <1>1, <1>3, <3>1 DEF TypeOK
  <2>4. target' \in [Req -> 0..MaxContext]
      BY <1>1, <1>3, Sizes DEF TypeOK
  <2> QED
      BY <1>1, <1>2, <1>3, <1>5, <2>1, <2>2, <2>3, <2>4 DEF TypeOK
<1>7. OnePlace'
  <2>1. (request' \cap Running' = {}) /\ (request' \cup Running') \cap done' = {}
      BY <1>1, <1>2, <1>3 DEF OnePlace
  <2>2. \A c, e \in inflight' : c # e => c.id # e.id /\ c.requests \cap e.requests = {}
      BY <1>1, <1>3 DEF OnePlace
  <2>3. \A r \in Req : chunk'[r] > 0 <=> r \in Running'
      BY <1>1, <1>2, <1>3, ReqTypes DEF OnePlace
  <2> QED
      BY <2>1, <2>2, <2>3 DEF OnePlace
<1>8. BatchesInv'
    BY <1>1, <1>3, FS_RemoveElement DEF BatchesInv
<1> QED
    BY <1>4, <1>5, <1>6, <1>7, <1>8 DEF IInv

\* So does every other report of an endpoint.
LEMMA ReportIInv ==
    ASSUME IInv, NEW n \in Endpoint, Report(n)
    PROVE  IInv'
<1>1. /\ caller' \in Endpoint \cup {NoNPU} /\ UNCHANGED <<input, output>>
      /\ iter' = [iter EXCEPT ![n] = Reported(n)]
      /\ TypeOK
    BY DEF Report, IInv
<1>2. iter' \in [Endpoint -> Nat]
    BY <1>1 DEF Reported, TypeOK
<1>3. CASE NothingReported(n)
    BY <1>1, <1>2, <1>3, IdleIInv DEF NothingReported, TypeOK
<1>4. ASSUME NEW b \in inflight, EndReported(n, b) PROVE IInv'
  <2>1. CASE ~IsLast(b, n)
    <3> DEFINE c == [b EXCEPT !.end = @ \cup {n}]
    <3>1. b \in Batch
        BY <1>1 DEF TypeOK
    <3>2. c \in Batch /\ c.id = b.id /\ c.requests = b.requests
        BY <3>1 DEF Batch
    <3>3. /\ inflight' = (inflight \ {b}) \cup {c}
          /\ UNCHANGED <<request, done, batchIds, tokenVars, memoryVars, aborted>>
        BY <1>4, <2>1 DEF EndReported
    <3> HIDE DEF c
    <3> QED
        BY <1>1, <1>2, <3>2, <3>3, SignedIInv DEF TypeOK
  <2>2. CASE IsLast(b, n) /\ CompletionRaises(b)
      BY <1>1, <1>2, <1>4, <2>2, IdleIInv DEF EndReported
  <2>3. CASE IsLast(b, n) /\ ~CompletionRaises(b)
      BY <1>1, <1>2, <1>4, <2>3, CompleteIInv DEF EndReported
  <2> QED
      BY <2>1, <2>2, <2>3
<1> QED
    BY <1>3, <1>4 DEF Report

-----------------------------------------------------------------------------
(* A batch is proposed.                                                    *)

\* Every request asks for some tokens, never for more than it has to compute.
LEMMA WantedBound ==
    ASSUME TypeOK, ReqInv, NEW r \in Req
    PROVE  /\ Wanted(r) \in 1..MaxContext
           /\ IsPrefill(r) => Wanted(r) <= Remaining(r)
           /\ ~IsPrefill(r) => Wanted(r) = 1
<1>1. 1 \in 1..MaxContext
    BY ReqTypes
<1>2. CASE ~IsPrefill(r)
    BY <1>1, <1>2 DEF Wanted
<1>3. CASE IsPrefill(r)
  <2>1. Remaining(r) \in 1..MaxContext
      BY <1>3, PrefillFacts
  <2>2. CASE Chunked /\ 0 < Threshold
      BY <1>3, <2>1, <2>2, SizeAssumption DEF Wanted, Smaller
  <2>3. CASE ~(Chunked /\ 0 < Threshold)
      BY <1>3, <2>1, <2>3 DEF Wanted
  <2> QED
      BY <1>3, <2>2, <2>3
<1> QED
    BY <1>2, <1>3

\* The requests of a batch come from the queue.
LEMMA ProposalPlaces ==
    ASSUME TypeOK
    PROVE  /\ Proposal \subseteq Considered /\ Considered \subseteq BatchReq
           /\ BatchReq \subseteq request /\ request \subseteq Req /\ GenReq \subseteq BatchReq
           /\ \A r \in GenReq : ~IsPrefill(r)
BY DEF Proposal, Considered, BatchReq, GenReq, TypeOK

\* The tokens ahead of a request, as the map that is summed.
Ahead(r) == Masked([q \in Req |-> Wanted(q)], {q \in Considered : Before(q, r)})

\* What the requests ahead leave of the token budget is a number.
LEMMA BudgetType ==
    ASSUME TypeOK, ReqInv, NEW r \in Req
    PROVE  /\ Ahead(r) \in [Req -> 0..MaxContext]
           /\ BudgetLeft(r) = MaxTokens - Total(Ahead(r), MaxContext)
           /\ Total(Ahead(r), MaxContext) \in Nat
           /\ BudgetLeft(r) \in Int /\ BudgetLeft(r) <= MaxTokens
<1> DEFINE f == [q \in Req |-> Wanted(q)]
           S == {q \in Considered : Before(q, r)}
<1>1. \A q \in Req : q \in S => f[q] \in 0..MaxContext
    BY WantedBound
<1> HIDE DEF f, S
<1>2. /\ Masked(f, S) \in [Req -> 0..MaxContext]
      /\ Sum(f, S) = Total(Masked(f, S), MaxContext) /\ Sum(f, S) \in Nat
    BY <1>1, MaskedSum
<1>3. Ahead(r) = Masked(f, S) /\ BudgetLeft(r) = MaxTokens - Sum(f, S)
    BY DEF Ahead, BudgetLeft, f, S
<1> QED
    BY <1>2, <1>3, SizeAssumption

\* What a request of the proposal is granted.
LEMMA GrantedBound ==
    ASSUME TypeOK, ReqInv, NEW r \in Proposal
    PROVE  /\ Granted(r) \in 1..MaxTokens
           /\ IsPrefill(r) => Granted(r) <= Remaining(r)
           /\ ~IsPrefill(r) => Granted(r) = 1
           /\ computed[r] + Granted(r) \in 0..MaxContext
<1>1. r \in Req /\ r \in Considered /\ Granted(r) > 0
    BY ProposalPlaces DEF Proposal
<1>2. /\ Wanted(r) \in 1..MaxContext
      /\ IsPrefill(r) => Wanted(r) <= Remaining(r)
      /\ ~IsPrefill(r) => Wanted(r) = 1
    BY <1>1, WantedBound
<1>3. BudgetLeft(r) \in Int /\ BudgetLeft(r) <= MaxTokens
    BY <1>1, BudgetType
<1>4. Granted(r) \in 1..MaxTokens /\ Granted(r) <= Wanted(r)
    BY <1>1, <1>2, <1>3, SizeAssumption DEF Granted, Smaller, Larger
<1>5. IsPrefill(r) => Granted(r) <= Remaining(r)
    BY <1>1, <1>2, <1>4, PrefillFacts
<1>6. ~IsPrefill(r) => Granted(r) = 1
    BY <1>2, <1>4
<1>7. CASE IsPrefill(r)
    BY <1>1, <1>4, <1>5, <1>6, <1>7, PrefillFacts, ReqTypes
<1>8. CASE ~IsPrefill(r)
  <2>1. Length(r)
      BY <1>1 DEF ReqInv
  <2>2. computed[r] + 1 \in 0..MaxContext
      BY <1>1, <1>8, <2>1, DecodeFacts, ReqTypes DEF Length
  <2> QED
      BY <1>4, <1>5, <1>6, <1>8, <2>2
<1> QED
    BY <1>7, <1>8

\* What comes before a decode: with chunking, only the decodes ahead of it.
LEMMA BeforeDecode ==
    ASSUME NEW r, NEW q, ~IsPrefill(r)
    PROVE  Before(q, r) <=> q < r /\ ~(Chunked /\ IsPrefill(q))
<1>1. IsPrefill(q) \in BOOLEAN /\ IsPrefill(r) = FALSE
    BY DEF IsPrefill
<1>2. IsPrefill(q) # IsPrefill(r) <=> IsPrefill(q)
    BY <1>1, Zenon
<1>3. Before(q, r) <=> IF Chunked /\ IsPrefill(q) THEN FALSE ELSE q < r
    BY <1>1, <1>2, Zenon DEF Before
<1> QED
    BY <1>3

\* A decode in front of one that gets its token gets its own.
LEMMA EarlierDecodeRuns ==
    ASSUME TypeOK, ReqInv, NEW v \in Proposal, ~IsPrefill(v),
           NEW r \in Considered, ~IsPrefill(r), r < v
    PROVE  r \in Proposal /\ Before(r, v)
<1>1. r \in Req /\ v \in Req /\ v \in Considered /\ Granted(v) > 0 /\ r \in Nat /\ v \in Nat
    BY ProposalPlaces, Sizes DEF Proposal
<1>2. Before(r, v)
    BY <1>1, BeforeDecode
<1>3. Wanted(r) = 1 /\ Wanted(v) = 1
    BY <1>1, WantedBound
<1> DEFINE one == [q \in Req |-> IF q = r THEN 1 ELSE 0]
           both == [q \in Req |-> Ahead(r)[q] + one[q]]
<1>4. Ahead(r) \in [Req -> 0..MaxContext] /\ Ahead(v) \in [Req -> 0..MaxContext]
    BY <1>1, BudgetType
<1>5. \A q \in Req : q \in Considered /\ Before(q, r) => q # r /\ Before(q, v)
  <2> SUFFICES ASSUME NEW q \in Req, Before(q, r) PROVE q # r /\ Before(q, v)
      OBVIOUS
  <2>1. q \in Nat
      BY Sizes
  <2>2. q < r /\ ~(Chunked /\ IsPrefill(q))
      BY BeforeDecode
  <2> QED
      BY <1>1, <2>1, <2>2, BeforeDecode
<1>6. MaxContext >= 1
    BY <1>1, ReqTypes
<1>7. one \in [Req -> 0..MaxContext]
    BY <1>6, Sizes
<1>8. \A q \in Req : both[q] <= Ahead(v)[q] /\ both[q] \in 0..MaxContext
  <2> SUFFICES ASSUME NEW q \in Req PROVE Ahead(r)[q] + one[q] <= Ahead(v)[q]
               /\ Ahead(r)[q] + one[q] \in 0..MaxContext
      OBVIOUS
  <2>1. Wanted(q) \in 1..MaxContext
      BY WantedBound
  <2>2. Ahead(r)[q] = IF q \in Considered /\ Before(q, r) THEN Wanted(q) ELSE 0
      BY DEF Ahead, Masked
  <2>3. Ahead(v)[q] = IF q \in Considered /\ Before(q, v) THEN Wanted(q) ELSE 0
      BY DEF Ahead, Masked
  <2>4. one[q] = IF q = r THEN 1 ELSE 0
      OBVIOUS
  <2>5. Ahead(r)[q] \in 0..MaxContext /\ Ahead(v)[q] \in 0..MaxContext
      BY <1>4
  <2>6. CASE q = r
      BY <1>2, <1>3, <1>5, <1>6, <2>2, <2>3, <2>4, <2>6
  <2>7. CASE q # r
      BY <1>5, <2>1, <2>2, <2>3, <2>4, <2>5, <2>7
  <2> QED
      BY <2>6, <2>7
<1>9. both \in [Req -> 0..MaxContext] /\ \A q \in Req : both[q] = Ahead(r)[q] + one[q]
    BY <1>8
<1>10. one[r] = 1 /\ one[r] <= Total(one, MaxContext) /\ Total(one, MaxContext) \in Nat
  <2>1. one[r] = 1
      BY <1>1
  <2> HIDE DEF one
  <2> QED
      BY <1>1, <1>7, <2>1, EntryInTotal, CellsFinite, Sizes
<1> HIDE DEF one, both
<1>11. Total(both, MaxContext) = Total(Ahead(r), MaxContext) + Total(one, MaxContext)
  <2>1. IsFiniteSet(Req) /\ MaxContext \in Nat
      BY Sizes
  <2> QED
      BY <1>4, <1>7, <1>9, <2>1, TotalPlus
<1>12. Total(both, MaxContext) <= Total(Ahead(v), MaxContext)
    BY <1>4, <1>8, <1>9, Sizes, TotalMonotone
<1>13. Total(Ahead(r), MaxContext) + 1 <= Total(Ahead(v), MaxContext)
    BY <1>1, <1>10, <1>11, <1>12, BudgetType
<1>14. BudgetLeft(v) + 1 <= BudgetLeft(r) /\ BudgetLeft(v) \in Int /\ BudgetLeft(r) \in Int
    BY <1>1, <1>13, BudgetType, SizeAssumption
<1>15. Granted(r) > 0
    BY <1>1, <1>3, <1>14 DEF Granted, Smaller, Larger
<1> QED
    BY <1>2, <1>15 DEF Proposal

-----------------------------------------------------------------------------
(* Victims are preempted and a batch is formed.                            *)

\* Victims are queued decodes with their context in HBM.
LEMMA VictimFacts ==
    ASSUME IInv, NEW V \in SUBSET Evictable, NEW v \in V
    PROVE  /\ v \in Req /\ v \in request /\ v \in GenReq /\ ~IsPrefill(v) /\ ~evict[v]
           /\ v \notin Running /\ v \notin done /\ chunk[v] = 0
           /\ target[v] = 0 /\ generated[v] > 0
           /\ input[v] <= computed[v] /\ computed[v] <= input[v] + generated[v] - 1
<1>1. v \in GenReq /\ ~evict[v]
    BY DEF Evictable
<1>2. v \in request /\ v \in Req /\ ~IsPrefill(v)
    BY <1>1, ProposalPlaces DEF IInv
<1>3. v \notin Running /\ v \notin done
    BY <1>2 DEF IInv, OnePlace
<1>4. chunk[v] = 0
    BY <1>2, <1>3 DEF IInv, ReqInv, InBatch
<1> QED
    BY <1>1, <1>2, <1>3, <1>4, DecodeFacts DEF IInv

\* A batch that follows preemptions is made of spared requests: nobody is
\* preempted and scheduled in the same call.
LEMMA VictimsStay ==
    ASSUME IInv, NEW V \in VictimSets, NEW T \in Prefixes, Fits(V, T)
    PROVE  V \cap T = {}
<1> SUFFICES ASSUME NEW v \in V, v \in T PROVE FALSE
    OBVIOUS
<1>1. TypeOK /\ ReqInv
    BY DEF IInv
<1>2. v \in GenReq /\ ~IsPrefill(v) /\ v \in Req /\ v \in Proposal
    BY VictimFacts DEF VictimSets, Prefixes
<1>3. Considered = BatchReq
    BY <1>1, <1>2, ProposalPlaces DEF Considered
<1>4. Spared(V) \subseteq T
  <2> SUFFICES ASSUME NEW r \in Spared(V) PROVE r \in T
      OBVIOUS
  <2>1. r \in GenReq /\ r < v
      BY DEF Spared
  <2>2. r \in Considered /\ ~IsPrefill(r)
      BY <1>1, <1>3, <2>1, ProposalPlaces
  <2>3. r \in Proposal /\ Before(r, v)
      BY <1>1, <1>2, <2>1, <2>2, EarlierDecodeRuns
  <2> QED
      BY <2>3 DEF Prefixes
<1>5. v \notin Spared(V)
    BY <1>2, Sizes DEF Spared
<1>6. T \subseteq Req
    BY <1>1, ProposalPlaces DEF Prefixes
<1>7. IsFiniteSet(T) /\ IsFiniteSet(Spared(V))
    BY <1>4, <1>6, Sizes, FS_Subset
<1>8. /\ Cardinality(Spared(V) \cup {v}) = Cardinality(Spared(V)) + 1
      /\ Cardinality(Spared(V)) \in Nat /\ Cardinality(T) \in Nat
    BY <1>5, <1>7, FS_AddElement, FS_CardinalityType
<1>9. Cardinality(Spared(V) \cup {v}) <= Cardinality(T)
    BY <1>4, <1>7, FS_Subset
<1>10. Cardinality(T) <= Cardinality(Spared(V))
    BY DEF Fits
<1> QED
    BY <1>8, <1>9, <1>10

\* A call of schedule that preempts V and dispatches T, possibly nobody.
Moves(V, T) ==
    /\ V \subseteq Evictable /\ T \subseteq Proposal /\ V \cap T = {}
    /\ MoveBlocks(V, T)
    /\ chunk' = [r \in Req |-> IF r \in T THEN Granted(r) ELSE chunk[r]]
    /\ done' = done
    /\ BlocksNeeded(V, T) <= NpuBlocks - npuUsed + BlocksFreed(V)
    /\ ~PreemptionRaises(V)

\* The blocks freed, needed and reloaded by such a call, request by request.
FreedMap(V)       == Masked([r \in Req |-> Blocks(computed[r])], V)
NeededMap(V, T)   ==
    Masked([r \in Req |-> Blocks(ComputedAfter(V, r) + Granted(r))
                - (IF SwappedAfter(V, r) THEN 0 ELSE Blocks(ComputedAfter(V, r)))], T)
ReloadedMap(V, T) ==
    Masked([r \in Req |-> IF SwappedAfter(V, r) THEN Blocks(computed[r]) ELSE 0], T)

LEMMA MapTypes ==
    ASSUME IInv, NEW V, NEW T, Moves(V, T)
    PROVE  /\ FreedMap(V) \in [Req -> 0..MaxContext]
           /\ NeededMap(V, T) \in [Req -> 0..MaxContext]
           /\ ReloadedMap(V, T) \in [Req -> 0..MaxContext]
           /\ BlocksFreed(V) = Total(FreedMap(V), MaxContext)
           /\ BlocksNeeded(V, T) = Total(NeededMap(V, T), MaxContext)
           /\ BlocksReloaded(V, T) = Total(ReloadedMap(V, T), MaxContext)
           /\ BlocksFreed(V) \in Nat /\ BlocksNeeded(V, T) \in Nat
           /\ BlocksReloaded(V, T) \in Nat
<1> DEFINE f == [r \in Req |-> Blocks(computed[r])]
           g == [r \in Req |-> Blocks(ComputedAfter(V, r) + Granted(r))
                   - (IF SwappedAfter(V, r) THEN 0 ELSE Blocks(ComputedAfter(V, r)))]
           h == [r \in Req |-> IF SwappedAfter(V, r) THEN Blocks(computed[r]) ELSE 0]
<1>1. TypeOK /\ ReqInv /\ V \cap T = {} /\ T \subseteq Proposal
    BY DEF IInv, Moves
<1>2. \A r \in Req : Blocks(computed[r]) \in 0..MaxContext
    BY <1>1, HeldBound
<1>3. \A r \in Req : r \in V => f[r] \in 0..MaxContext
    BY <1>2
<1>4. \A r \in Req : r \in T => g[r] \in 0..MaxContext
  <2> SUFFICES ASSUME NEW r \in Req, r \in T
               PROVE  Blocks(ComputedAfter(V, r) + Granted(r))
                        - (IF SwappedAfter(V, r) THEN 0 ELSE Blocks(ComputedAfter(V, r)))
                      \in 0..MaxContext
      OBVIOUS
  <2>1. ComputedAfter(V, r) = computed[r]
      BY <1>1 DEF ComputedAfter
  <2>2. computed[r] + Granted(r) \in 0..MaxContext /\ Granted(r) \in Nat
      BY <1>1, GrantedBound
  <2>3. computed[r] \in Nat
      BY <1>1, ReqTypes
  <2>4. Blocks(computed[r] + Granted(r)) \in 0..MaxContext
      BY <2>2, BlocksBound, Sizes
  <2>5. Blocks(computed[r]) <= Blocks(computed[r] + Granted(r))
      BY <2>2, <2>3, BlocksMonotone
  <2>6. /\ Blocks(ComputedAfter(V, r) + Granted(r)) = Blocks(computed[r] + Granted(r))
        /\ Blocks(ComputedAfter(V, r)) = Blocks(computed[r])
      BY <2>1
  <2>7. Blocks(computed[r]) \in 0..MaxContext
      BY <1>2
  <2>8. CASE SwappedAfter(V, r)
      BY <2>4, <2>6, <2>8
  <2>9. CASE ~SwappedAfter(V, r)
    <3>1. Blocks(computed[r] + Granted(r)) - Blocks(computed[r]) \in 0..MaxContext
        BY <2>4, <2>5, <2>7, Sizes
    <3> QED
        BY <2>6, <2>9, <3>1
  <2> QED
      BY <2>8, <2>9
<1>5. \A r \in Req : r \in T => h[r] \in 0..MaxContext
    BY <1>2, Sizes
<1> HIDE DEF f, g, h
<1>6. /\ Masked(f, V) \in [Req -> 0..MaxContext]
      /\ Sum(f, V) = Total(Masked(f, V), MaxContext) /\ Sum(f, V) \in Nat
    BY <1>3, MaskedSum
<1>7. /\ Masked(g, T) \in [Req -> 0..MaxContext]
      /\ Sum(g, T) = Total(Masked(g, T), MaxContext) /\ Sum(g, T) \in Nat
    BY <1>4, MaskedSum
<1>8. /\ Masked(h, T) \in [Req -> 0..MaxContext]
      /\ Sum(h, T) = Total(Masked(h, T), MaxContext) /\ Sum(h, T) \in Nat
    BY <1>5, MaskedSum
<1> QED
    BY <1>6, <1>7, <1>8
       DEF FreedMap, NeededMap, ReloadedMap, BlocksFreed, BlocksNeeded, BlocksReloaded, f, g, h

\* What the call sets, request by request.
LEMMA MovesPointwise ==
    ASSUME NEW V, NEW T, Moves(V, T), NEW r \in Req
    PROVE  /\ computed'[r] = ComputedAfter(V, r)
           /\ target'[r] = IF r \in V /\ ~CpuSwap THEN computed[r] ELSE target[r]
           /\ evict'[r] = (SwappedAfter(V, r) /\ r \notin T)
           /\ chunk'[r] = IF r \in T THEN Granted(r) ELSE chunk[r]
BY DEF Moves, MoveBlocks

\* What the call does to a victim.
LEMMA MovesVictim ==
    ASSUME IInv, NEW V, NEW T, Moves(V, T), NEW r \in V
    PROVE  /\ r \in Req /\ r \notin T /\ ~evict[r] /\ chunk'[r] = 0 /\ chunk[r] = 0
           /\ r \in request /\ r \notin done /\ r \notin Running
           /\ evict'[r] = CpuSwap
           /\ computed'[r] = IF CpuSwap THEN computed[r] ELSE 0
           /\ target'[r] = IF CpuSwap THEN target[r] ELSE computed[r]
<1>1. V \subseteq Evictable /\ V \cap T = {}
    BY DEF Moves
<1>2. /\ r \in Req /\ ~evict[r] /\ chunk[r] = 0
      /\ r \in request /\ r \notin done /\ r \notin Running
    BY <1>1, VictimFacts
<1>3. r \notin T
    BY <1>1
<1>4. evict[r] \in BOOLEAN /\ CpuSwap \in BOOLEAN
    BY <1>2, ReqTypes, ModeAssumption DEF IInv
<1>5. evict'[r] = CpuSwap
    BY <1>2, <1>3, <1>4, MovesPointwise DEF SwappedAfter
<1>6. /\ computed'[r] = IF CpuSwap THEN computed[r] ELSE 0
      /\ target'[r] = IF CpuSwap THEN target[r] ELSE computed[r]
      /\ chunk'[r] = 0
    BY <1>2, <1>3, <1>4, MovesPointwise DEF ComputedAfter
<1> QED
    BY <1>2, <1>3, <1>5, <1>6

\* What the call does to a request it dispatches.
LEMMA MovesDispatched ==
    ASSUME IInv, NEW V, NEW T, Moves(V, T), NEW r \in T
    PROVE  /\ r \in Req /\ r \in Proposal
           /\ r \notin V /\ evict'[r] = FALSE /\ chunk'[r] = Granted(r)
           /\ r \in request /\ r \notin done /\ r \notin Running /\ chunk[r] = 0
           /\ computed'[r] = computed[r] /\ target'[r] = target[r]
<1>1. T \subseteq Proposal /\ V \cap T = {}
    BY DEF Moves
<1>2. r \notin V /\ r \in request /\ r \in Req
    BY <1>1, ProposalPlaces DEF IInv
<1>3. r \notin Running /\ r \notin done
    BY <1>2 DEF IInv, OnePlace
<1>4. chunk[r] = 0
    BY <1>2, <1>3 DEF IInv, ReqInv, InBatch
<1>5. evict'[r] = FALSE
    BY <1>2, MovesPointwise
<1>6. computed'[r] = computed[r] /\ target'[r] = target[r] /\ chunk'[r] = Granted(r)
    BY <1>2, MovesPointwise DEF ComputedAfter
<1> QED
    BY <1>1, <1>2, <1>3, <1>4, <1>5, <1>6

\* The call is nothing to the requests it neither preempts nor dispatches.
LEMMA MovesOther ==
    ASSUME IInv, NEW V, NEW T, Moves(V, T), NEW r \in Req, r \notin V, r \notin T
    PROVE  /\ evict'[r] = evict[r] /\ chunk'[r] = chunk[r]
           /\ computed'[r] = computed[r] /\ target'[r] = target[r]
<1>1. /\ computed'[r] = ComputedAfter(V, r)
      /\ target'[r] = IF r \in V /\ ~CpuSwap THEN computed[r] ELSE target[r]
      /\ evict'[r] = (SwappedAfter(V, r) /\ r \notin T)
      /\ chunk'[r] = IF r \in T THEN Granted(r) ELSE chunk[r]
    BY DEF Moves, MoveBlocks
<1>2. evict[r] \in BOOLEAN
    BY ReqTypes DEF IInv
<1>3. evict'[r] = evict[r]
    BY <1>1, <1>2 DEF SwappedAfter
<1> QED
    BY <1>1, <1>3 DEF ComputedAfter

\* HBM: what is held and what is needed become what is held then and what was freed.
LEMMA HeldBalance ==
    ASSUME IInv, NEW V, NEW T, Moves(V, T), NEW r \in Req
    PROVE  /\ Held(r) + NeededMap(V, T)[r] = Held(r)' + FreedMap(V)[r]
           /\ Held(r) + NeededMap(V, T)[r] <= MaxContext
           /\ Held(r)' \in 0..MaxContext
<1>1. TypeOK /\ ReqInv
    BY DEF IInv
<1>2. V \cap T = {} /\ done' = done /\ T \subseteq Proposal
    BY DEF Moves
<1>3. /\ Held(r) \in 0..MaxContext /\ Blocks(computed[r]) \in 0..MaxContext
      /\ computed[r] \in Nat /\ MaxContext \in Nat /\ CpuSwap \in BOOLEAN
    BY <1>1, HeldBound, ReqTypes, ModeAssumption
<1>4. FreedMap(V)[r] = IF r \in V THEN Blocks(computed[r]) ELSE 0
    BY DEF FreedMap, Masked
<1>5. NeededMap(V, T)[r] = IF r \in T
        THEN Blocks(ComputedAfter(V, r) + Granted(r))
               - (IF SwappedAfter(V, r) THEN 0 ELSE Blocks(ComputedAfter(V, r)))
        ELSE 0
    BY DEF NeededMap, Masked
<1>6. CASE r \in V
  <2>1. /\ ~evict[r] /\ chunk'[r] = 0 /\ chunk[r] = 0 /\ r \notin done /\ r \notin T
        /\ evict'[r] = CpuSwap /\ computed'[r] = IF CpuSwap THEN computed[r] ELSE 0
      BY <1>6, MovesVictim
  <2>2. computed[r] + chunk[r] = computed[r]
      BY <1>3, <2>1
  <2>3. Held(r) = Blocks(computed[r])
      BY <2>1, <2>2 DEF Held
  <2>4. Held(r)' = 0
    <3>1. CASE CpuSwap
        BY <2>1, <3>1 DEF Held
    <3>2. CASE ~CpuSwap
      <4>1. computed'[r] + chunk'[r] = 0
          BY <2>1, <3>2
      <4>2. Blocks(0) = 0
          BY BlocksBound
      <4> QED
          BY <4>1, <4>2 DEF Held
    <3> QED
        BY <3>1, <3>2
  <2> QED
      BY <1>3, <1>4, <1>5, <1>6, <2>1, <2>3, <2>4
<1>7. CASE r \in T
  <2>1. /\ r \notin V /\ evict'[r] = FALSE /\ chunk'[r] = Granted(r) /\ r \notin done
        /\ chunk[r] = 0 /\ computed'[r] = computed[r]
      BY <1>7, MovesDispatched, ZenonT(30)
  <2>2. computed[r] + Granted(r) \in 0..MaxContext /\ Granted(r) \in Nat
      BY <1>1, <1>2, <1>7, GrantedBound
  <2>3. Held(r)' = Blocks(computed[r] + Granted(r))
      BY <1>2, <2>1 DEF Held
  <2>4. Blocks(computed[r] + Granted(r)) \in 0..MaxContext
      BY <1>3, <2>2, BlocksBound
  <2>5. ComputedAfter(V, r) = computed[r] /\ (SwappedAfter(V, r) <=> evict[r])
      BY <2>1 DEF ComputedAfter, SwappedAfter
  <2>6. Held(r) = IF evict[r] THEN 0 ELSE Blocks(computed[r])
    <3>1. computed[r] + chunk[r] = computed[r]
        BY <1>3, <2>1
    <3> QED
        BY <2>1, <3>1 DEF Held
  <2>7. NeededMap(V, T)[r]
          = Blocks(computed[r] + Granted(r)) - (IF evict[r] THEN 0 ELSE Blocks(computed[r]))
      BY <1>5, <1>7, <2>5
  <2>8. CASE evict[r]
      BY <1>3, <1>4, <2>1, <2>3, <2>4, <2>6, <2>7, <2>8
  <2>9. CASE ~evict[r]
      BY <1>3, <1>4, <2>1, <2>3, <2>4, <2>6, <2>7, <2>9
  <2> QED
      BY <2>8, <2>9
<1>8. CASE r \notin V /\ r \notin T
  <2>1. /\ evict'[r] = evict[r] /\ chunk'[r] = chunk[r] /\ computed'[r] = computed[r]
      BY <1>8, MovesOther
  <2>2. Held(r)' = Held(r)
      BY <1>2, <2>1 DEF Held
  <2> QED
      BY <1>3, <1>4, <1>5, <1>8, <2>2
<1> QED
    BY <1>6, <1>7, <1>8

\* The CPU: what swapping moves out and what reloading drops.
LEMMA SpilledBalance ==
    ASSUME IInv, NEW V, NEW T, Moves(V, T), NEW r \in Req
    PROVE  /\ Spilled(r) + (IF CpuSwap THEN FreedMap(V)[r] ELSE 0)
                = Spilled(r)' + ReloadedMap(V, T)[r]
           /\ Spilled(r) + (IF CpuSwap THEN FreedMap(V)[r] ELSE 0) <= MaxContext
           /\ Spilled(r)' \in 0..MaxContext
<1>1. TypeOK /\ ReqInv
    BY DEF IInv
<1>2. V \cap T = {}
    BY DEF Moves
<1>3. /\ Spilled(r) \in 0..MaxContext /\ Blocks(computed[r]) \in 0..MaxContext
      /\ MaxContext \in Nat /\ CpuSwap \in BOOLEAN /\ evict[r] \in BOOLEAN
    BY <1>1, HeldBound, ReqTypes, ModeAssumption
<1>4. FreedMap(V)[r] = IF r \in V THEN Blocks(computed[r]) ELSE 0
    BY DEF FreedMap, Masked
<1>5. ReloadedMap(V, T)[r] =
        IF r \in T THEN (IF SwappedAfter(V, r) THEN Blocks(computed[r]) ELSE 0) ELSE 0
    BY DEF ReloadedMap, Masked
<1>6. CASE r \in V
  <2>1. /\ ~evict[r] /\ r \notin T /\ evict'[r] = CpuSwap
        /\ computed'[r] = IF CpuSwap THEN computed[r] ELSE 0
      BY <1>6, MovesVictim
  <2>2. Spilled(r) = 0 /\ Spilled(r)' = IF CpuSwap THEN Blocks(computed[r]) ELSE 0
      BY <1>3, <2>1 DEF Spilled
  <2> QED
      BY <1>3, <1>4, <1>5, <1>6, <2>1, <2>2
<1>7. CASE r \in T
  <2>1. r \notin V /\ evict'[r] = FALSE
      BY <1>7, MovesDispatched
  <2>2. SwappedAfter(V, r) <=> evict[r]
      BY <2>1 DEF SwappedAfter
  <2>3. Spilled(r)' = 0 /\ Spilled(r) = IF evict[r] THEN Blocks(computed[r]) ELSE 0
      BY <2>1 DEF Spilled
  <2>4. ReloadedMap(V, T)[r] = IF evict[r] THEN Blocks(computed[r]) ELSE 0
      BY <1>5, <1>7, <2>2
  <2>5. (IF CpuSwap THEN FreedMap(V)[r] ELSE 0) = 0
      BY <1>4, <2>1
  <2> QED
      BY <1>3, <2>3, <2>4, <2>5
<1>8. CASE r \notin V /\ r \notin T
  <2>1. evict'[r] = evict[r] /\ computed'[r] = computed[r]
      BY <1>8, MovesOther
  <2>2. Spilled(r)' = Spilled(r)
      BY <2>1 DEF Spilled
  <2> QED
      BY <1>3, <1>4, <1>5, <1>8, <2>2
<1> QED
    BY <1>6, <1>7, <1>8

\* The books follow: blocks only move between requests, sides and free space.
LEMMA MovesBooks ==
    ASSUME IInv, NEW V, NEW T, Moves(V, T)
    PROVE  HbmBooksExact' /\ SwapBooksExact' /\ npuUsed' \in Nat /\ cpuUsed' \in Nat
<1> DEFINE swapped == [r \in Req |-> IF CpuSwap THEN FreedMap(V)[r] ELSE 0]
           out == IF CpuSwap THEN BlocksFreed(V) ELSE 0
<1>1. TypeOK /\ ReqInv /\ HbmBooksExact /\ SwapBooksExact
    BY DEF IInv
<1>2. /\ HeldMap \in [Req -> 0..MaxContext] /\ SpilledMap \in [Req -> 0..MaxContext]
      /\ npuUsed = Total(HeldMap, MaxContext) /\ npuUsed <= NpuBlocks
      /\ cpuUsed = NumNPUs * Total(SpilledMap, MaxContext) /\ cpuUsed <= CpuBlocks
    BY <1>1, BooksAsTotals
<1>3. HeldMap' \in [Req -> 0..MaxContext] /\ HeldMap' = [r \in Req |-> Held(r)']
    BY HeldBalance DEF HeldMap
<1>4. SpilledMap' \in [Req -> 0..MaxContext] /\ SpilledMap' = [r \in Req |-> Spilled(r)']
    BY SpilledBalance DEF SpilledMap
<1>5. /\ FreedMap(V) \in [Req -> 0..MaxContext]
      /\ NeededMap(V, T) \in [Req -> 0..MaxContext]
      /\ ReloadedMap(V, T) \in [Req -> 0..MaxContext]
      /\ BlocksFreed(V) = Total(FreedMap(V), MaxContext)
      /\ BlocksNeeded(V, T) = Total(NeededMap(V, T), MaxContext)
      /\ BlocksReloaded(V, T) = Total(ReloadedMap(V, T), MaxContext)
      /\ BlocksFreed(V) \in Nat /\ BlocksNeeded(V, T) \in Nat /\ BlocksReloaded(V, T) \in Nat
    BY MapTypes
<1>6. Total(HeldMap, MaxContext) + BlocksNeeded(V, T)
        = Total(HeldMap', MaxContext) + BlocksFreed(V)
  <2>1. \A r \in Req : /\ HeldMap[r] + NeededMap(V, T)[r] = HeldMap'[r] + FreedMap(V)[r]
                       /\ HeldMap[r] + NeededMap(V, T)[r] <= MaxContext
      BY <1>3, HeldBalance DEF HeldMap
  <2>2. Total(HeldMap, MaxContext) + Total(NeededMap(V, T), MaxContext)
          = Total(HeldMap', MaxContext) + Total(FreedMap(V), MaxContext)
      BY <1>2, <1>3, <1>5, <2>1, TotalBalance
  <2> QED
      BY <1>5, <2>2
<1>7. /\ swapped \in [Req -> 0..MaxContext]
      /\ out = Total(swapped, MaxContext) /\ out \in Nat
  <2>1. CASE CpuSwap
    <3>1. swapped = FreedMap(V)
        BY <1>5, <2>1
    <3> QED
        BY <1>5, <2>1, <3>1
  <2>2. CASE ~CpuSwap
    <3>1. swapped \in [Req -> 0..MaxContext] /\ \A r \in Req : swapped[r] = 0
        BY <2>2, Sizes
    <3> HIDE DEF swapped
    <3>2. Total(swapped, MaxContext) = 0
        BY <3>1, Sizes, TotalZero
    <3> QED
        BY <2>2, <3>1, <3>2
  <2> QED
      BY <2>1, <2>2
<1>8. Total(SpilledMap, MaxContext) + out
        = Total(SpilledMap', MaxContext) + BlocksReloaded(V, T)
  <2>1. \A r \in Req : /\ SpilledMap[r] + swapped[r] = SpilledMap'[r] + ReloadedMap(V, T)[r]
                       /\ SpilledMap[r] + swapped[r] <= MaxContext
      BY <1>4, SpilledBalance DEF SpilledMap
  <2> HIDE DEF swapped
  <2>2. Total(SpilledMap, MaxContext) + Total(swapped, MaxContext)
          = Total(SpilledMap', MaxContext) + Total(ReloadedMap(V, T), MaxContext)
      BY <1>2, <1>4, <1>5, <1>7, <2>1, TotalBalance, SMTT(30)
  <2> QED
      BY <1>5, <1>7, <2>2
<1>9. /\ npuUsed' = npuUsed - BlocksFreed(V) + BlocksNeeded(V, T)
      /\ cpuUsed' = cpuUsed + (IF CpuSwap THEN NumNPUs * BlocksFreed(V) ELSE 0)
                            - NumNPUs * BlocksReloaded(V, T)
      /\ BlocksNeeded(V, T) <= NpuBlocks - npuUsed + BlocksFreed(V)
    BY DEF Moves, MoveBlocks
<1>10. /\ Total(HeldMap', MaxContext) \in Nat /\ Total(SpilledMap', MaxContext) \in Nat
       /\ Total(HeldMap, MaxContext) \in Nat /\ Total(SpilledMap, MaxContext) \in Nat
    BY <1>2, <1>3, <1>4, Sizes, CellsFinite
<1>11. npuUsed' = Total(HeldMap', MaxContext) /\ npuUsed' <= NpuBlocks
  <2>1. npuUsed' = npuUsed - BlocksFreed(V) + BlocksNeeded(V, T)
      BY <1>9
  <2>2. npuUsed' = Total(HeldMap', MaxContext)
      BY <1>2, <1>5, <1>6, <1>10, <2>1
  <2>3. npuUsed' <= NpuBlocks
      BY <1>2, <1>5, <1>9, <1>10, <2>1, SizeAssumption
  <2> QED
      BY <2>2, <2>3
<1>12. cpuUsed' = cpuUsed + NumNPUs * out - NumNPUs * BlocksReloaded(V, T)
    BY <1>2, <1>5, <1>9, <1>10, SizeAssumption
<1>13. cpuUsed + NumNPUs * out <= CpuBlocks
  <2>1. CASE CpuSwap
    <3>1. ~(cpuUsed + NumNPUs * BlocksFreed(V) > CpuBlocks)
        BY <2>1 DEF Moves, PreemptionRaises
    <3>2. NumNPUs * BlocksFreed(V) \in Nat /\ cpuUsed \in Nat
        BY <1>1, <1>5, SizeAssumption DEF TypeOK
    <3> QED
        BY <2>1, <3>1, <3>2, SizeAssumption
  <2>2. CASE ~CpuSwap
      BY <1>2, <1>10, <2>2, SizeAssumption
  <2> QED
      BY <2>1, <2>2
<1> HIDE DEF out, swapped
<1>14. cpuUsed' = NumNPUs * Total(SpilledMap', MaxContext)
  <2>1. Total(SpilledMap', MaxContext)
          = Total(SpilledMap, MaxContext) + out - BlocksReloaded(V, T)
      BY <1>5, <1>7, <1>8, <1>10
  <2>2. \A a, b, c \in Nat : NumNPUs * (a + b - c) = NumNPUs * a + NumNPUs * b - NumNPUs * c
      BY SizeAssumption
  <2> QED
      BY <1>2, <1>5, <1>7, <1>10, <1>12, <2>1, <2>2
<1>15. NumNPUs * BlocksReloaded(V, T) \in Nat /\ NumNPUs * out \in Nat
    BY <1>5, <1>7, SizeAssumption
<1>16. cpuUsed' <= CpuBlocks
    BY <1>1, <1>12, <1>13, <1>15, SizeAssumption DEF TypeOK
<1>17. HbmBooksExact'
  <2>1. Sum(HeldMap', Req) = Total(HeldMap', MaxContext)
      BY <1>3, SumAll
  <2> QED
      BY <1>11, <2>1 DEF HbmBooksExact, HeldMap
<1>18. SwapBooksExact'
  <2>1. Sum(SpilledMap', Req) = Total(SpilledMap', MaxContext)
      BY <1>4, SumAll
  <2> QED
      BY <1>14, <1>16, <2>1 DEF SwapBooksExact, SpilledMap
<1>19. cpuUsed' \in Nat
    BY <1>10, <1>14, SizeAssumption
<1> QED
    BY <1>10, <1>11, <1>17, <1>18, <1>19

\* Requests keep their place in the life of a request.
LEMMA MovesContext ==
    ASSUME IInv, NEW V, NEW T, Moves(V, T), UNCHANGED <<input, output, generated>>,
           NEW r \in Req
    PROVE  /\ Context(r)' /\ Length(r)'
           /\ computed'[r] \in 0..MaxContext /\ target'[r] \in 0..MaxContext
           /\ chunk'[r] \in 0..MaxTokens
           /\ r \in V \/ (IsPrefill(r)' <=> IsPrefill(r))
<1>1. TypeOK /\ ReqInv /\ Context(r) /\ Length(r) /\ InBatch(r)
    BY DEF IInv, ReqInv
<1>2. done' = done /\ T \subseteq Proposal /\ V \subseteq Evictable
    BY DEF Moves
<1>3. input' = input /\ output' = output /\ generated' = generated
    OBVIOUS
<1>4. Length(r)'
    BY <1>1, <1>2, <1>3 DEF Length
<1>5. CASE r \in V
  <2>1. /\ computed'[r] = IF CpuSwap THEN computed[r] ELSE 0
        /\ target'[r] = IF CpuSwap THEN target[r] ELSE computed[r]
        /\ chunk'[r] = 0
      BY <1>5, MovesVictim
  <2>2. /\ target[r] = 0 /\ generated[r] > 0
        /\ input[r] <= computed[r] /\ computed[r] <= input[r] + generated[r] - 1
      BY <1>2, <1>5, VictimFacts
  <2>3. Context(r)'
      BY <1>1, <1>3, <2>1, <2>2, ReqTypes DEF Context
  <2> QED
      BY <1>1, <1>4, <1>5, <2>1, <2>3, ReqTypes
<1>6. CASE r \notin V
  <2>1. computed'[r] = computed[r] /\ target'[r] = target[r]
    <3>1. CASE r \in T
        BY <3>1, MovesDispatched
    <3>2. CASE r \notin T
        BY <1>6, <3>2, MovesOther
    <3> QED
        BY <3>1, <3>2
  <2>2. chunk'[r] \in 0..MaxTokens
    <3>1. CASE r \in T
      <4>1. chunk'[r] = Granted(r) /\ r \in Proposal
          BY <3>1, MovesDispatched
      <4> QED
          BY <1>1, <4>1, GrantedBound, SizeAssumption
    <3>2. CASE r \notin T
        BY <1>1, <1>6, <3>2, MovesOther, ReqTypes
    <3> QED
        BY <3>1, <3>2
  <2> QED
      BY <1>1, <1>3, <1>4, <2>1, <2>2, ReqTypes DEF Context, IsPrefill, PrefillTarget
<1> QED
    BY <1>5, <1>6

\* Nothing fits: the victims are gone from HBM and nobody runs.
LEMMA ScheduleNothingIInv ==
    ASSUME IInv, NEW V, Chosen(V), ScheduleNothing(V),
           UNCHANGED <<input, output, iter>>, caller' \in Endpoint \cup {NoNPU}
    PROVE  IInv'
<1>1. /\ TypeOK /\ ReqInv /\ OnePlace /\ BatchesInv /\ V \subseteq Evictable
      /\ npuUsed \in Nat /\ npuUsed <= NpuBlocks
    BY DEF IInv, TypeOK, HbmBooksExact, Chosen, VictimSets
<1>2. /\ MoveBlocks(V, {}) /\ ~PreemptionRaises(V)
      /\ UNCHANGED <<request, inflight, done, batchIds, chunk, generated, aborted>>
    BY DEF ScheduleNothing, queueVars
<1>3. Moves(V, {})
  <2>1. chunk' = [r \in Req |-> IF r \in {} THEN Granted(r) ELSE chunk[r]]
      BY <1>1, <1>2 DEF TypeOK
  <2>2. BlocksNeeded(V, {}) = 0
    <3> DEFINE g == [r \in Req |-> Blocks(ComputedAfter(V, r) + Granted(r))
                        - (IF SwappedAfter(V, r) THEN 0 ELSE Blocks(ComputedAfter(V, r)))]
    <3>1. BlocksNeeded(V, {}) = Sum(g, {})
        BY DEF BlocksNeeded
    <3> HIDE DEF g
    <3>2. Sum(g, {}) = Total(Masked(g, {}), MaxContext)
          /\ Masked(g, {}) \in [Req -> 0..MaxContext]
        BY MaskedSum
    <3>3. \A r \in Req : Masked(g, {})[r] = 0
        BY DEF Masked
    <3> QED
        BY <3>1, <3>2, <3>3, Sizes, TotalZero
  <2>3. BlocksFreed(V) \in Nat
    <3> DEFINE f == [r \in Req |-> Blocks(computed[r])]
    <3>1. \A r \in Req : r \in V => f[r] \in 0..MaxContext
        BY <1>1, HeldBound
    <3> HIDE DEF f
    <3>2. Sum(f, V) \in Nat
        BY <3>1, MaskedSum
    <3> QED
        BY <3>2 DEF BlocksFreed, f
  <2>4. BlocksNeeded(V, {}) <= NpuBlocks - npuUsed + BlocksFreed(V)
      BY <1>1, <2>2, <2>3, SizeAssumption
  <2> QED
      BY <1>1, <1>2, <2>1, <2>4 DEF Moves
<1>4. Running' = Running
    BY <1>2 DEF Running
<1>5. HbmBooksExact' /\ SwapBooksExact' /\ npuUsed' \in Nat /\ cpuUsed' \in Nat
    BY <1>3, MovesBooks
<1>6. \A r \in Req : /\ Context(r)' /\ Length(r)'
                     /\ computed'[r] \in 0..MaxContext /\ target'[r] \in 0..MaxContext
                     /\ r \in V \/ (IsPrefill(r)' <=> IsPrefill(r))
    BY <1>2, <1>3, MovesContext
<1>7. TypeOK'
  <2>1. /\ computed' = [r \in Req |-> computed'[r]] /\ target' = [r \in Req |-> target'[r]]
        /\ evict' \in [Req -> BOOLEAN]
      BY <1>2 DEF MoveBlocks
  <2>2. computed' \in [Req -> 0..MaxContext] /\ target' \in [Req -> 0..MaxContext]
      BY <1>6, <2>1
  <2> QED
      BY <1>1, <1>2, <1>5, <2>1, <2>2 DEF TypeOK
<1>8. ReqInv'
  <2> SUFFICES ASSUME NEW r \in Req PROVE InBatch(r)' /\ Preempted(r)'
      BY <1>6 DEF ReqInv
  <2>1. InBatch(r) /\ Preempted(r) /\ CpuSwap \in BOOLEAN
      BY <1>1, ModeAssumption DEF ReqInv
  <2>2. CASE r \in V
    <3>1. /\ r \notin Running /\ chunk[r] = 0 /\ r \in request /\ ~IsPrefill(r)
          /\ target[r] = 0 /\ computed[r] \in Nat
        BY <1>1, <2>2, VictimFacts, ReqTypes
    <3>2. /\ evict'[r] = CpuSwap
          /\ computed'[r] = IF CpuSwap THEN computed[r] ELSE 0
          /\ target'[r] = IF CpuSwap THEN target[r] ELSE computed[r]
        BY <1>3, <2>2, MovesVictim
    <3>3. InBatch(r)'
        BY <1>2, <1>4, <3>1 DEF InBatch
    <3>4. Preempted(r)'
      <4>1. CASE CpuSwap
          BY <1>2, <3>1, <3>2, <4>1 DEF Preempted, IsPrefill, PrefillTarget
      <4>2. CASE ~CpuSwap
          BY <2>1, <3>2, <4>2 DEF Preempted
      <4> QED
          BY <4>1, <4>2
    <3> QED
        BY <3>3, <3>4
  <2>3. CASE r \notin V
    <3>1. evict'[r] = evict[r] /\ computed'[r] = computed[r] /\ target'[r] = target[r]
        BY <1>3, <2>3, MovesOther
    <3> QED
        BY <1>2, <1>4, <2>1, <3>1 DEF InBatch, Preempted, IsPrefill, PrefillTarget
  <2> QED
      BY <2>2, <2>3
<1>9. OnePlace' /\ BatchesInv'
    BY <1>1, <1>2, <1>4 DEF OnePlace, BatchesInv
<1> QED
    BY <1>5, <1>7, <1>8, <1>9 DEF IInv

\* A batch is dispatched.
LEMMA ScheduleBatchIInv ==
    ASSUME IInv, NEW V, Chosen(V), ScheduleBatch(V),
           UNCHANGED <<input, output, iter>>, caller' \in Endpoint \cup {NoNPU}
    PROVE  IInv'
<1>1. /\ TypeOK /\ ReqInv /\ OnePlace /\ BatchesInv
      /\ V \in VictimSets /\ V \subseteq Evictable
      /\ UNCHANGED <<done, generated, aborted>> /\ ~PreemptionRaises(V)
    BY DEF IInv, Chosen, VictimSets, ScheduleBatch
<1>2. PICK T \in SUBSET request : LongestFit(V, T) /\ MoveBlocks(V, T) /\ Dispatch(T)
    BY DEF ScheduleBatch
<1> DEFINE new == [id |-> batchIds + 1, requests |-> T, fired |-> {StartNPU}, end |-> {}]
<1>3. /\ chunk' = [r \in Req |-> IF r \in T THEN Granted(r) ELSE chunk[r]]
      /\ request' = request \ T /\ batchIds' = batchIds + 1
      /\ inflight' = inflight \cup {new}
    BY <1>2 DEF Dispatch
<1>4. T \in Prefixes /\ T \subseteq Proposal /\ Fits(V, T) /\ T \subseteq Req
    BY <1>1, <1>2 DEF LongestFit, Prefixes, TypeOK
<1>5. Moves(V, T)
    BY <1>1, <1>2, <1>3, <1>4, VictimsStay DEF Moves, Fits
<1>6. new \in Batch /\ new.id = batchIds + 1 /\ new.requests = T
  <2>1. batchIds + 1 \in Nat
      BY <1>1 DEF TypeOK
  <2> QED
      BY <1>4, <2>1 DEF Batch, Endpoint
<1> HIDE DEF new
<1>7. Running' = Running \cup T
    BY <1>3, <1>6 DEF Running
<1>8. HbmBooksExact' /\ SwapBooksExact' /\ npuUsed' \in Nat /\ cpuUsed' \in Nat
    BY <1>5, MovesBooks
<1>9. \A r \in Req : /\ Context(r)' /\ Length(r)'
                     /\ computed'[r] \in 0..MaxContext /\ target'[r] \in 0..MaxContext
                     /\ chunk'[r] \in 0..MaxTokens
                     /\ r \in V \/ (IsPrefill(r)' <=> IsPrefill(r))
    BY <1>1, <1>5, MovesContext
<1>10. TypeOK'
  <2>1. /\ computed' = [r \in Req |-> computed'[r]] /\ target' = [r \in Req |-> target'[r]]
        /\ evict' \in [Req -> BOOLEAN]
      BY <1>2 DEF MoveBlocks
  <2>2. /\ computed' \in [Req -> 0..MaxContext] /\ target' \in [Req -> 0..MaxContext]
        /\ chunk' \in [Req -> 0..MaxTokens]
      BY <1>3, <1>9, <2>1
  <2>3. inflight' \subseteq Batch /\ request' \subseteq Req /\ batchIds' \in Nat \cup {-1}
      BY <1>1, <1>3, <1>6 DEF TypeOK
  <2> QED
      BY <1>1, <1>8, <2>1, <2>2, <2>3 DEF TypeOK
<1>11. ReqInv'
  <2> SUFFICES ASSUME NEW r \in Req PROVE InBatch(r)' /\ Preempted(r)'
      BY <1>9 DEF ReqInv
  <2>1. InBatch(r) /\ Preempted(r) /\ CpuSwap \in BOOLEAN
      BY <1>1, ModeAssumption DEF ReqInv
  <2>2. CASE r \in V
    <3>1. /\ r \notin Running /\ r \in request /\ ~IsPrefill(r)
          /\ target[r] = 0 /\ computed[r] \in Nat
        BY <1>1, <2>2, VictimFacts, ReqTypes
    <3>2. /\ evict'[r] = CpuSwap /\ chunk'[r] = 0 /\ r \notin T
          /\ computed'[r] = IF CpuSwap THEN computed[r] ELSE 0
          /\ target'[r] = IF CpuSwap THEN target[r] ELSE computed[r]
        BY <1>5, <2>2, MovesVictim
    <3>3. InBatch(r)'
        BY <1>7, <3>1, <3>2 DEF InBatch
    <3>4. Preempted(r)'
      <4>1. CASE CpuSwap
          BY <1>3, <3>1, <3>2, <4>1 DEF Preempted, IsPrefill, PrefillTarget
      <4>2. CASE ~CpuSwap
          BY <2>1, <3>2, <4>2 DEF Preempted
      <4> QED
          BY <4>1, <4>2
    <3> QED
        BY <3>3, <3>4
  <2>3. CASE r \in T
    <3>1. /\ r \in Proposal /\ evict'[r] = FALSE /\ chunk'[r] = Granted(r)
          /\ computed'[r] = computed[r] /\ target'[r] = target[r]
      <4>1. r \in Proposal /\ r \notin V
          BY <1>4, <1>5, <2>3 DEF Moves
      <4>2. /\ computed'[r] = ComputedAfter(V, r)
            /\ target'[r] = IF r \in V /\ ~CpuSwap THEN computed[r] ELSE target[r]
            /\ evict'[r] = (SwappedAfter(V, r) /\ r \notin T)
            /\ chunk'[r] = IF r \in T THEN Granted(r) ELSE chunk[r]
          BY <1>5 DEF Moves, MoveBlocks
      <4>3. evict'[r] = FALSE
          BY <2>3, <4>2
      <4> QED
          BY <2>3, <4>1, <4>2, <4>3 DEF ComputedAfter
    <3>2. /\ Granted(r) \in 1..MaxTokens
          /\ IsPrefill(r) => Granted(r) <= Remaining(r)
          /\ ~IsPrefill(r) => Granted(r) = 1
        BY <1>1, <3>1, GrantedBound
    <3>3. IsPrefill(r) => computed[r] + Granted(r) <= PrefillTarget(r)
      <4> SUFFICES ASSUME IsPrefill(r) PROVE computed[r] + Granted(r) <= PrefillTarget(r)
          OBVIOUS
      <4>1. Remaining(r) \in 1..MaxContext /\ PrefillTarget(r) = computed[r] + Remaining(r)
          BY <1>1, PrefillFacts
      <4> QED
          BY <1>1, <3>2, <4>1, ReqTypes
    <3>4. r \in Running'
        BY <1>7, <2>3
    <3>5. PrefillTarget(r)' = PrefillTarget(r) /\ (IsPrefill(r)' <=> IsPrefill(r))
      <4>1. PrefillTarget(r)' = IF target'[r] > 0 THEN target'[r] ELSE input'[r]
          BY DEF PrefillTarget
      <4> QED
          BY <3>1, <4>1 DEF PrefillTarget, IsPrefill
    <3>6. InBatch(r)'
        BY <3>1, <3>2, <3>3, <3>4, <3>5 DEF InBatch
    <3> QED
        BY <2>1, <3>1, <3>6 DEF Preempted
  <2>4. CASE r \notin V /\ r \notin T
    <3>1. /\ evict'[r] = evict[r] /\ computed'[r] = computed[r] /\ target'[r] = target[r]
          /\ chunk'[r] = chunk[r]
        BY <1>5, <2>4, MovesOther
    <3> QED
        BY <1>3, <1>7, <2>1, <2>4, <3>1
           DEF InBatch, Preempted, IsPrefill, PrefillTarget
  <2> QED
      BY <2>2, <2>3, <2>4
<1>12. OnePlace'
  <2>1. (request' \cap Running' = {}) /\ (request' \cup Running') \cap done' = {}
      BY <1>1, <1>2, <1>3, <1>7 DEF OnePlace
  <2>2. \A c, e \in inflight' : c # e => c.id # e.id /\ c.requests \cap e.requests = {}
    <3>1. \A c \in inflight : c.id # new.id /\ c.requests \cap new.requests = {}
      <4> SUFFICES ASSUME NEW c \in inflight
                   PROVE  c.id # new.id /\ c.requests \cap new.requests = {}
          OBVIOUS
      <4>1. c.id \in Nat /\ c.id <= batchIds /\ batchIds \in Int
          BY <1>1 DEF BatchesInv, TypeOK, Batch
      <4>2. c.requests \subseteq Running
          BY DEF Running
      <4> QED
          BY <1>1, <1>6, <4>1, <4>2 DEF OnePlace
    <3> QED
        BY <1>1, <1>3, <3>1 DEF OnePlace
  <2>3. \A r \in Req : chunk'[r] > 0 <=> r \in Running'
    <3> SUFFICES ASSUME NEW r \in Req PROVE chunk'[r] > 0 <=> r \in Running'
        OBVIOUS
    <3>1. InBatch(r)' /\ chunk'[r] \in 0..MaxTokens
        BY <1>9, <1>11 DEF ReqInv
    <3> QED
        BY <3>1 DEF InBatch
  <2> QED
      BY <2>1, <2>2, <2>3 DEF OnePlace
<1>13. BatchesInv'
  <2>1. IsFiniteSet(inflight')
      BY <1>1, <1>3, FS_AddElement DEF BatchesInv
  <2>2. \A c \in inflight' : c.id <= batchIds'
    <3> SUFFICES ASSUME NEW c \in inflight' PROVE c.id <= batchIds + 1
        BY <1>3
    <3>1. CASE c = new
        BY <1>1, <1>6, <3>1 DEF TypeOK
    <3>2. CASE c \in inflight
      <4>1. c.id \in Nat /\ c.id <= batchIds /\ batchIds \in Int
          BY <1>1, <3>2 DEF BatchesInv, TypeOK, Batch
      <4> QED
          BY <4>1
    <3> QED
        BY <1>3, <3>1, <3>2
  <2> QED
      BY <2>1, <2>2 DEF BatchesInv
<1> QED
    BY <1>8, <1>10, <1>11, <1>12, <1>13 DEF IInv

\* Whatever schedule answers, the invariant holds afterwards.
LEMMA ScheduleIInv ==
    ASSUME IInv, Schedule
    PROVE  IInv'
<1>1. /\ UNCHANGED <<input, output, iter>> /\ caller' \in Endpoint \cup {NoNPU}
      /\ TypeOK /\ iter' \in [Endpoint -> Nat]
    BY DEF Schedule, IInv, TypeOK
<1>2. ASSUME NEW V \in SUBSET request, Chosen(V),
             ScheduleBatch(V) \/ ScheduleNothing(V) \/ ScheduleRaises(V)
      PROVE  IInv'
  <2>1. CASE ScheduleBatch(V)
      BY <1>1, <1>2, <2>1, ScheduleBatchIInv
  <2>2. CASE ScheduleNothing(V)
      BY <1>1, <1>2, <2>2, ScheduleNothingIInv
  <2>3. CASE ScheduleRaises(V)
      BY <1>1, <2>3, IdleIInv DEF ScheduleRaises
  <2> QED
      BY <1>2, <2>1, <2>2, <2>3
<1>3. CASE ScheduleIdle
    BY <1>1, <1>3, IdleIInv DEF ScheduleIdle, TypeOK
<1>4. CASE FetchNothing
    BY <1>1, <1>4, IdleIInv DEF FetchNothing, TypeOK
<1>5. CASE FetchBatch
  <2>1. PICK b \in inflight :
           inflight' = (inflight \ {b}) \cup {[b EXCEPT !.fired = @ \cup {caller}]}
      BY <1>5 DEF FetchBatch
  <2> DEFINE c == [b EXCEPT !.fired = @ \cup {caller}]
  <2>2. b \in Batch /\ caller \in Endpoint
      BY <1>1 DEF Schedule, TypeOK
  <2>3. c \in Batch /\ c.id = b.id /\ c.requests = b.requests
      BY <2>2 DEF Batch
  <2>4. UNCHANGED <<request, done, batchIds, tokenVars, memoryVars, aborted>>
      BY <1>5 DEF FetchBatch
  <2>5. inflight' = (inflight \ {b}) \cup {c}
      BY <2>1
  <2> HIDE DEF c
  <2> QED
      BY <1>1, <2>3, <2>4, <2>5, SignedIInv DEF TypeOK
<1> QED
    BY <1>2, <1>3, <1>4, <1>5 DEF Schedule

\* Every step keeps the invariant.
LEMMA NextIInv == IInv /\ [Next]_vars => IInv'
<1> SUFFICES ASSUME IInv, [Next]_vars PROVE IInv'
    OBVIOUS
<1>1. ASSUME NEW r \in Req, Arrive(r) PROVE IInv'
    BY <1>1, ArriveIInv
<1>2. ASSUME NEW n \in Endpoint, Report(n) PROVE IInv'
    BY <1>2, ReportIInv
<1>3. CASE Schedule
    BY <1>3, ScheduleIInv
<1>4. CASE UNCHANGED vars
    BY <1>4, IdleIInv DEF vars, IInv, TypeOK
<1> QED
    BY <1>1, <1>2, <1>3, <1>4 DEF Next

-----------------------------------------------------------------------------
(* What holds of every instance.                                           *)

\* The invariant the others rest on is one of the specification.
THEOREM Invariance == Spec => []IInv
<1>1. Init => IInv
    BY InitIInv
<1>2. IInv /\ [Next]_vars => IInv'
    BY NextIInv
<1> QED
    BY <1>1, <1>2, PTL DEF Spec

\* Every variable of the scheduler keeps its type: no counter of blocks goes
\* negative and no request computes more than its context.
THEOREM TypeCorrect == Spec => []TypeOK
<1>1. IInv => TypeOK
    BY DEF IInv
<1> QED
    BY <1>1, Invariance, PTL

\* Forming, completing and merging back batches never loses a request, runs
\* it twice or leaves tokens scheduled for one that is not running.
THEOREM NothingLostOrRunTwice == Spec => []OnePlace
<1>1. IInv => OnePlace
    BY DEF IInv
<1> QED
    BY <1>1, Invariance, PTL

\* npu_used is what the queued and running requests hold and fits the device,
\* over every history of chunks, preemptions, reloads and completions.
THEOREM NoBlockLeaks == Spec => []HbmBooksExact
<1>1. IInv => HbmBooksExact
    BY DEF IInv
<1> QED
    BY <1>1, Invariance, PTL

\* cpu_used is what the swapped-out requests left on the CPU, over all ranks,
\* and fits its memory.
THEOREM NoSwapLeaks == Spec => []SwapBooksExact
<1>1. IInv => SwapBooksExact
    BY DEF IInv
<1> QED
    BY <1>1, Invariance, PTL

-----------------------------------------------------------------------------
(* The runtime checks.                                                     *)

\* The finished requests of a batch hold no more than is in the books.
LEMMA ReturnedHeld ==
    ASSUME IInv, NEW b \in inflight
    PROVE  BlocksReturned(b) <= npuUsed
<1> DEFINE f == [r \in Req |-> Blocks(computed[r] + chunk[r])]
           back == Masked(f, Finished(b))
<1>1. TypeOK /\ ReqInv /\ HbmBooksExact
    BY DEF IInv
<1>2. f \in [Req -> 0..MaxContext]
    BY <1>1, HeldBound
<1>3. back \in [Req -> 0..MaxContext] /\ Sum(f, Finished(b)) = Total(back, MaxContext)
    BY <1>2, MaskedSum
<1>4. HeldMap \in [Req -> 0..MaxContext] /\ npuUsed = Total(HeldMap, MaxContext)
    BY <1>1, BooksAsTotals
<1>5. \A r \in Req : back[r] <= HeldMap[r]
  <2> SUFFICES ASSUME NEW r \in Req PROVE back[r] <= Held(r)
      BY DEF HeldMap
  <2>1. back[r] = IF r \in Finished(b) THEN f[r] ELSE 0
      BY DEF Masked
  <2>2. f[r] \in Nat /\ Held(r) \in Nat
      BY <1>1, HeldBound
  <2>3. CASE r \in Finished(b)
    <3>1. r \in Running
        BY <2>3 DEF Finished, Running
    <3>2. ~evict[r] /\ r \notin done
        BY <3>1 DEF IInv, OnePlace, ReqInv, Preempted
    <3> QED
        BY <2>1, <2>2, <2>3, <3>2 DEF Held
  <2> HIDE DEF back, f
  <2> QED
      BY <2>1, <2>2, <2>3
<1> HIDE DEF back, f
<1>6. Total(back, MaxContext) <= Total(HeldMap, MaxContext)
  <2>1. IsFiniteSet(Req) /\ MaxContext \in Nat
      BY Sizes
  <2> QED
      BY <1>3, <1>4, <1>5, <2>1, TotalMonotone
<1>7. BlocksReturned(b) = Sum(f, Finished(b))
    BY DEF BlocksReturned, f
<1> QED
    BY <1>3, <1>4, <1>6, <1>7

\* No report of a batch in flight fails a check.
LEMMA CompletionPasses ==
    ASSUME IInv, NEW b \in inflight
    PROVE  ~CompletionRaises(b)
<1>1. ASSUME NEW r \in b.requests
      PROVE  /\ chunk[r] <= MaxTokens
             /\ generated[r] < output[r]
             /\ r \in Finished(b) => generated[r] + Emitted(b, r) = output[r]
  <2>1. r \in Running /\ r \in Req
      BY <1>1 DEF Running, IInv, TypeOK, Batch
  <2>2. r \notin done /\ Length(r) /\ TypeOK
      BY <2>1 DEF IInv, OnePlace, ReqInv
  <2>3. generated[r] < output[r] /\ chunk[r] <= MaxTokens /\ MaxTokens \in Nat
      BY <2>1, <2>2, ReqTypes DEF Length
  <2>4. Emitted(b, r) \in {0, 1}
      BY DEF Emitted
  <2>5. r \in Finished(b) => generated[r] + Emitted(b, r) >= output[r]
      BY DEF Finished
  <2> QED
      BY <2>1, <2>2, <2>3, <2>4, <2>5, ReqTypes
<1>2. \A r \in b.requests : chunk[r] \in Nat /\ generated[r] \in Nat /\ output[r] \in Nat
    BY ReqTypes DEF IInv, TypeOK, Batch
<1>3. ~(BlocksReturned(b) > npuUsed)
  <2>1. BlocksReturned(b) <= npuUsed /\ npuUsed \in Nat
      BY ReturnedHeld DEF IInv, TypeOK
  <2>2. BlocksReturned(b) \in Nat
    <3> DEFINE f == [r \in Req |-> Blocks(computed[r] + chunk[r])]
    <3>1. f \in [Req -> 0..MaxContext]
        BY HeldBound DEF IInv
    <3>2. Sum(f, Finished(b)) \in Nat
        BY <3>1, MaskedSum
    <3> QED
        BY <3>2 DEF BlocksReturned
  <2> QED
      BY <2>1, <2>2
<1> QED
    BY <1>1, <1>2, <1>3, SizeAssumption DEF CompletionRaises

\* Only a decode with its whole context is discarded.
LEMMA DiscardPasses ==
    ASSUME ~CpuSwap, IInv, NEW V, Chosen(V)
    PROVE  ~PreemptionRaises(V)
<1>1. V \in SUBSET Evictable
    BY DEF Chosen, VictimSets
<1>2. \A v \in V : v \in Req /\ target[v] = 0 /\ input[v] <= computed[v]
    BY <1>1, VictimFacts
<1>3. \A v \in V : input[v] \in Nat /\ computed[v] \in Nat
    BY <1>2, ReqTypes DEF IInv
<1> QED
    BY <1>2, <1>3 DEF PreemptionRaises

\* When contexts are discarded rather than swapped, none of the runtime
\* checks of add_done, record_output_token, free and begin_active_recompute
\* ever ends the simulation, whatever the pressure on the HBM.  (Swapping can:
\* the CPU's memory is not consulted before a victim is chosen.)
THEOREM RecomputeNeverRaises ==
    ASSUME ~CpuSwap
    PROVE  Spec => []NeverAborts
<1>1. Init => NeverAborts
    BY DEF Init, NeverAborts
<1>2. NeverAborts /\ IInv /\ [Next]_vars => NeverAborts'
  <2> SUFFICES ASSUME NeverAborts, IInv, [Next]_vars PROVE aborted' = aborted
      BY DEF NeverAborts
  <2>1. ASSUME NEW r \in Req, Arrive(r) PROVE aborted' = aborted
      BY <2>1 DEF Arrive
  <2>2. ASSUME NEW n \in Endpoint, Report(n) PROVE aborted' = aborted
    <3>1. ASSUME NEW b \in inflight, EndReported(n, b) PROVE aborted' = aborted
        BY <3>1, CompletionPasses DEF EndReported, Complete
    <3> QED
        BY <2>2, <3>1 DEF Report, NothingReported
  <2>3. CASE Schedule
    <3>1. ASSUME NEW V, Chosen(V), ScheduleBatch(V) \/ ScheduleNothing(V) \/ ScheduleRaises(V)
          PROVE  aborted' = aborted
        BY <3>1, DiscardPasses DEF ScheduleBatch, ScheduleNothing, ScheduleRaises
    <3> QED
        BY <2>3, <3>1 DEF Schedule, ScheduleIdle, FetchBatch, FetchNothing
  <2> QED
      BY <2>1, <2>2, <2>3 DEF Next, vars
<1> QED
    BY <1>1, <1>2, Invariance, PTL DEF Spec

-----------------------------------------------------------------------------
(* The instance implements the token service.                              *)

\* The completion of a batch is one step of the service, or none when all the
\* batch did was prefill chunks.
LEMMA CompleteServes ==
    ASSUME IInv, NEW b \in inflight, Complete(b), UNCHANGED <<input, output>>
    PROVE  [Service!Next]_<<output, Arrived, generated, done>>
<1> DEFINE S == {r \in b.requests : Emits(r)}
<1>1. /\ b.requests \subseteq Running /\ b.requests \subseteq Req
      /\ Running' = Running \ b.requests /\ Finished(b) \subseteq b.requests
    BY CompletePlaces
<1>2. /\ generated' = [r \in Req |-> generated[r] + Emitted(b, r)]
      /\ done' = done \cup Finished(b)
      /\ request' = request \cup (b.requests \ Finished(b))
    BY DEF Complete
<1>3. Arrived' = Arrived
    BY <1>1, <1>2 DEF Arrived
<1>4. generated \in [Req -> Nat] /\ \A r \in Req : output[r] \in Nat
    BY ReqTypes DEF IInv, TypeOK
<1>5. generated' = [r \in Req |-> IF r \in S THEN generated[r] + 1 ELSE generated[r]]
  <2>1. \A r \in Req : generated[r] + Emitted(b, r)
                          = IF r \in S THEN generated[r] + 1 ELSE generated[r]
      BY <1>4 DEF Emitted
  <2> QED
      BY <1>2, <2>1
<1>6. Finished(b) = {r \in S : generated[r] + 1 = output[r]}
  <2>1. ASSUME NEW r \in b.requests
        PROVE  r \in Finished(b) <=> r \in S /\ generated[r] + 1 = output[r]
    <3>1. r \in Running /\ r \in Req /\ r \notin done /\ Length(r)
        BY <1>1, <2>1 DEF IInv, OnePlace, ReqInv
    <3>2. generated[r] < output[r] /\ generated[r] \in Nat /\ output[r] \in Nat
        BY <1>4, <3>1 DEF Length
    <3>3. r \in Finished(b) <=> generated[r] + Emitted(b, r) >= output[r]
        BY <2>1 DEF Finished
    <3>4. Emitted(b, r) = IF Emits(r) THEN 1 ELSE 0
        BY <2>1 DEF Emitted
    <3> QED
        BY <2>1, <3>2, <3>3, <3>4
  <2> QED
      BY <1>1, <2>1
<1>7. S \subseteq Arrived \ done /\ S \in SUBSET Req
    BY <1>1 DEF IInv, OnePlace, Arrived
<1> HIDE DEF S
<1>8. CASE S = {}
  <2>1. Finished(b) = {}
      BY <1>6, <1>8
  <2>2. done' = done
      BY <1>2, <2>1
  <2>3. generated' = generated
      BY <1>4, <1>5, <1>8
  <2> QED
      BY <1>3, <2>2, <2>3
<1>9. CASE S # {}
  <2>1. Service!Emit(S)
      BY <1>2, <1>3, <1>5, <1>6, <1>7, <1>9 DEF Service!Emit
  <2> QED
      BY <1>7, <2>1 DEF Service!Next
<1> QED
    BY <1>8, <1>9

\* Every step of the scheduler is a step of the service or invisible to it.
LEMMA NextServes ==
    ASSUME IInv, [Next]_vars
    PROVE  [Service!Next]_<<output, Arrived, generated, done>>
<1>1. ASSUME NEW r \in Req, Arrive(r)
      PROVE  [Service!Next]_<<output, Arrived, generated, done>>
  <2>1. Arrived' = Arrived \cup {r} /\ r \notin Arrived
      BY <1>1 DEF Arrive, Arrived, Running
  <2>2. Service!Accept(r)
      BY <1>1, <2>1 DEF Arrive, tokenVars, Service!Accept
  <2> QED
      BY <2>2 DEF Service!Next
<1>2. ASSUME NEW n \in Endpoint, Report(n)
      PROVE  [Service!Next]_<<output, Arrived, generated, done>>
  <2>1. CASE NothingReported(n)
      BY <1>2, <2>1 DEF Report, NothingReported, queueVars, tokenVars, Arrived, Running
  <2>2. ASSUME NEW b \in inflight, EndReported(n, b)
        PROVE  [Service!Next]_<<output, Arrived, generated, done>>
    <3>1. CASE ~IsLast(b, n)
      <4> DEFINE c == [b EXCEPT !.end = @ \cup {n}]
      <4>1. b \in Batch
          BY DEF IInv, TypeOK
      <4>2. c.requests = b.requests
          BY <4>1 DEF Batch
      <4>3. /\ inflight' = (inflight \ {b}) \cup {c}
            /\ UNCHANGED <<request, done, tokenVars>>
          BY <2>2, <3>1 DEF EndReported
      <4> HIDE DEF c
      <4>4. Running' = Running
          BY <4>2, <4>3 DEF Running
      <4> QED
          BY <1>2, <4>3, <4>4 DEF Report, tokenVars, Arrived
    <3>2. CASE IsLast(b, n) /\ CompletionRaises(b)
        BY <3>2, CompletionPasses
    <3>3. CASE IsLast(b, n) /\ ~CompletionRaises(b)
        BY <1>2, <2>2, <3>3, CompleteServes DEF Report, EndReported
    <3> QED
        BY <3>1, <3>2, <3>3
  <2> QED
      BY <1>2, <2>1, <2>2 DEF Report
<1>3. ASSUME NEW V, ScheduleBatch(V), UNCHANGED output
      PROVE  UNCHANGED <<output, Arrived, generated, done>>
  <2>1. PICK T \in SUBSET request : Dispatch(T)
      BY <1>3 DEF ScheduleBatch
  <2> DEFINE new == [id |-> batchIds + 1, requests |-> T, fired |-> {StartNPU}, end |-> {}]
  <2>2. new.requests = T /\ inflight' = inflight \cup {new} /\ request' = request \ T
      BY <2>1 DEF Dispatch
  <2> HIDE DEF new
  <2>3. Running' = Running \cup T
      BY <2>2 DEF Running
  <2> QED
      BY <1>3, <2>2, <2>3 DEF ScheduleBatch, Arrived
<1>4. CASE Schedule
  <2>1. UNCHANGED output
      BY <1>4 DEF Schedule
  <2>2. ASSUME NEW V, ScheduleNothing(V) \/ ScheduleRaises(V)
        PROVE  UNCHANGED <<output, Arrived, generated, done>>
      BY <2>1, <2>2
         DEF ScheduleNothing, ScheduleRaises, queueVars, tokenVars, Arrived, Running
  <2>3. CASE ScheduleIdle \/ FetchNothing
      BY <2>1, <2>3 DEF ScheduleIdle, FetchNothing, queueVars, tokenVars, Arrived, Running
  <2>4. CASE FetchBatch
    <3>1. PICK b \in inflight :
             inflight' = (inflight \ {b}) \cup {[b EXCEPT !.fired = @ \cup {caller}]}
        BY <2>4 DEF FetchBatch
    <3> DEFINE c == [b EXCEPT !.fired = @ \cup {caller}]
    <3>2. b \in Batch
        BY DEF IInv, TypeOK
    <3>3. c.requests = b.requests /\ inflight' = (inflight \ {b}) \cup {c}
        BY <3>1, <3>2 DEF Batch
    <3> HIDE DEF c
    <3>4. Running' = Running
        BY <3>3 DEF Running
    <3> QED
        BY <2>1, <2>4, <3>4 DEF FetchBatch, tokenVars, Arrived
  <2> QED
      BY <1>3, <1>4, <2>1, <2>2, <2>3, <2>4 DEF Schedule
<1>5. CASE UNCHANGED vars
    BY <1>5 DEF vars, queueVars, tokenVars, Arrived, Running
<1> QED
    BY <1>1, <1>2, <1>4, <1>5 DEF Next

\* The instance implements the token service: whatever is batched, chunked,
\* preempted, swapped or rebuilt, each client sees its tokens come one at a
\* time, never taken back, and its request finish with the last of them.
THEOREM Implements == Spec => ServesTokens
<1>1. Init => Service!Init
    BY Sizes DEF Init, Service!Init, Arrived, Running
<1>2. IInv /\ [Next]_vars => [Service!Next]_<<output, Arrived, generated, done>>
    BY NextServes
<1> QED
    BY <1>1, <1>2, Invariance, PTL DEF Spec, ServesTokens, Service!Spec

-----------------------------------------------------------------------------
(* The endpoints and the pipeline.                                         *)

\* No endpoint asks for a batch beyond the next one to be formed.
NotAhead == \A n \in Endpoint : iter[n] <= batchIds + 1

\* A report is for the batch the endpoint is executing, or says nothing.
LEMMA ReportInStep ==
    ASSUME IInv, PipelineInStep, NotAhead, NEW n \in Endpoint, Report(n)
    PROVE  PipelineInStep' /\ NotAhead'
<1>1. /\ iter \in [Endpoint -> Nat] /\ batchIds \in Int
      /\ \A b \in inflight : b \in Batch /\ b.id \in Nat /\ b.id <= batchIds
      /\ \A b, c \in inflight : b.id = c.id => b = c
    BY DEF IInv, TypeOK, OnePlace, BatchesInv, Batch
<1>2. /\ \A b \in inflight : \A m \in Endpoint :
            (m \in b.end <=> iter[m] > b.id) /\ (m \in b.end => m \in b.fired)
      /\ \A id \in 0..batchIds : (\A b \in inflight : b.id # id) =>
            \A m \in Endpoint : iter[m] > id
    BY DEF PipelineInStep
<1>3. iter' = [iter EXCEPT ![n] = Reported(n)]
    BY DEF Report
<1>4. CASE ~Busy(n)
  <2>1. Reported(n) = iter[n] /\ iter' = iter
      BY <1>1, <1>3, <1>4 DEF Reported
  <2>2. ~\E b \in inflight : EndReported(n, b)
      BY <1>1, <1>2, <2>1 DEF EndReported
  <2>3. inflight' = inflight /\ batchIds' = batchIds
      BY <2>2 DEF Report, NothingReported, queueVars
  <2> QED
      BY <2>1, <2>3 DEF PipelineInStep, NotAhead
<1>5. CASE Busy(n)
  <2>1. PICK b \in inflight : b.id = iter[n] /\ n \in b.fired /\ n \notin b.end
      BY <1>5 DEF Busy
  <2>2. Reported(n) = iter[n] + 1 /\ Reported(n) - 1 = b.id
      BY <1>1, <1>5, <2>1 DEF Reported
  <2>3. EndReported(n, b)
    <3>1. ~NothingReported(n)
        BY <2>1, <2>2 DEF NothingReported
    <3>2. PICK c \in inflight : EndReported(n, c)
        BY <3>1 DEF Report
    <3>3. c.id = b.id
        BY <2>2, <3>2 DEF EndReported
    <3> QED
        BY <1>1, <3>2, <3>3
  <2>4. /\ iter'[n] = b.id + 1
        /\ \A m \in Endpoint \ {n} : iter'[m] = iter[m]
      BY <1>1, <1>3, <2>1, <2>2
  <2>5. \A m \in Endpoint : iter'[m] \in Nat /\ iter'[m] >= iter[m]
      BY <1>1, <2>1, <2>4
  <2>6. NotAhead' /\ batchIds' = batchIds
    <3>1. batchIds' = batchIds
        BY <2>3, CompletionPasses DEF EndReported, Complete, queueVars
    <3> QED
        BY <1>1, <2>1, <2>4, <3>1 DEF NotAhead
  <2>7. \A c \in inflight \ {b} : \A m \in Endpoint :
           (m \in c.end <=> iter'[m] > c.id) /\ (m \in c.end => m \in c.fired)
    <3> SUFFICES ASSUME NEW c \in inflight \ {b}, NEW m \in Endpoint
                 PROVE  (m \in c.end <=> iter'[m] > c.id) /\ (m \in c.end => m \in c.fired)
        OBVIOUS
    <3>1. c.id # b.id /\ c.id \in Nat /\ b.id \in Nat
        BY <1>1
    <3>2. iter'[m] > c.id <=> iter[m] > c.id
        BY <1>1, <2>1, <2>4, <3>1
    <3> QED
        BY <1>2, <3>2
  <2>8. CASE IsLast(b, n)
    <3>1. inflight' = inflight \ {b}
        BY <2>3, <2>8, CompletionPasses DEF EndReported, Complete
    <3>2. \A m \in Endpoint : iter'[m] > b.id
      <4> SUFFICES ASSUME NEW m \in Endpoint PROVE iter'[m] > b.id
          OBVIOUS
      <4>1. m \in b.end \/ m = n
          BY <2>8 DEF IsLast
      <4> QED
          BY <1>1, <1>2, <2>4, <2>5, <4>1
    <3>3. \A id \in 0..batchIds : (\A c \in inflight' : c.id # id) =>
             \A m \in Endpoint : iter'[m] > id
      <4> SUFFICES ASSUME NEW id \in 0..batchIds, \A c \in inflight' : c.id # id,
                          NEW m \in Endpoint
                   PROVE  iter'[m] > id
          OBVIOUS
      <4>1. CASE id = b.id
          BY <3>2, <4>1
      <4>2. CASE id # b.id
        <5>1. iter[m] > id
            BY <1>2, <3>1, <4>2
        <5> QED
            BY <1>1, <2>5, <5>1
      <4> QED
          BY <4>1, <4>2
    <3> QED
        BY <2>6, <2>7, <3>1, <3>3 DEF PipelineInStep
  <2>9. CASE ~IsLast(b, n)
    <3> DEFINE e == [b EXCEPT !.end = @ \cup {n}]
    <3>1. inflight' = (inflight \ {b}) \cup {e}
        BY <2>3, <2>9 DEF EndReported
    <3>2. e.id = b.id /\ e.end = b.end \cup {n} /\ e.fired = b.fired
        BY <1>1 DEF Batch
    <3> HIDE DEF e
    <3>3. \A m \in Endpoint : (m \in e.end <=> iter'[m] > e.id) /\ (m \in e.end => m \in e.fired)
      <4> SUFFICES ASSUME NEW m \in Endpoint
                   PROVE  (m \in e.end <=> iter'[m] > e.id) /\ (m \in e.end => m \in e.fired)
          OBVIOUS
      <4>1. CASE m = n
          BY <1>1, <2>1, <2>4, <3>2, <4>1
      <4>2. CASE m # n
          BY <1>2, <2>4, <3>2, <4>2
      <4> QED
          BY <4>1, <4>2
    <3>4. \A id \in 0..batchIds : (\A c \in inflight' : c.id # id) =>
             \A m \in Endpoint : iter'[m] > id
      <4> SUFFICES ASSUME NEW id \in 0..batchIds, \A c \in inflight' : c.id # id,
                          NEW m \in Endpoint
                   PROVE  iter'[m] > id
          OBVIOUS
      <4>1. \A c \in inflight : c.id # id
          BY <3>1, <3>2
      <4>2. iter[m] > id
          BY <1>2, <4>1
      <4> QED
          BY <1>1, <2>5, <4>2
    <3> QED
        BY <2>6, <2>7, <3>1, <3>3, <3>4 DEF PipelineInStep
  <2> QED
      BY <2>8, <2>9
<1> QED
    BY <1>4, <1>5

\* Batches are formed ahead of every endpoint and fetched where they are.
LEMMA ScheduleInStep ==
    ASSUME IInv, PipelineInStep, NotAhead, Schedule
    PROVE  PipelineInStep' /\ NotAhead'
<1>1. /\ iter \in [Endpoint -> Nat] /\ batchIds \in Int /\ iter' = iter
      /\ \A b \in inflight : b \in Batch /\ b.id \in Nat /\ b.id <= batchIds
    BY DEF IInv, TypeOK, BatchesInv, Batch, Schedule
<1>2. /\ \A b \in inflight : \A m \in Endpoint :
            (m \in b.end <=> iter[m] > b.id) /\ (m \in b.end => m \in b.fired)
      /\ \A id \in 0..batchIds : (\A b \in inflight : b.id # id) =>
            \A m \in Endpoint : iter[m] > id
      /\ \A m \in Endpoint : iter[m] <= batchIds + 1
    BY DEF PipelineInStep, NotAhead
<1>3. ASSUME NEW V, ScheduleBatch(V) PROVE PipelineInStep' /\ NotAhead'
  <2>1. PICK T \in SUBSET request : Dispatch(T)
      BY <1>3 DEF ScheduleBatch
  <2> DEFINE new == [id |-> batchIds + 1, requests |-> T, fired |-> {StartNPU}, end |-> {}]
  <2>2. /\ new.id = batchIds + 1 /\ new.end = {}
        /\ inflight' = inflight \cup {new} /\ batchIds' = batchIds + 1
      BY <2>1 DEF Dispatch
  <2> HIDE DEF new
  <2>3. \A m \in Endpoint : (m \in new.end <=> iter'[m] > new.id)
                            /\ (m \in new.end => m \in new.fired)
      BY <1>1, <1>2, <2>2
  <2>4. \A id \in 0..batchIds' : (\A b \in inflight' : b.id # id) =>
           \A m \in Endpoint : iter'[m] > id
    <3> SUFFICES ASSUME NEW id \in 0..batchIds', \A b \in inflight' : b.id # id,
                        NEW m \in Endpoint
                 PROVE  iter[m] > id
        BY <1>1
    <3>1. id # batchIds + 1 /\ id \in 0..(batchIds + 1)
        BY <2>2
    <3>2. id \in 0..batchIds
        BY <1>1, <3>1
    <3> QED
        BY <1>2, <2>2, <3>2
  <2>5. NotAhead'
      BY <1>1, <1>2, <2>2 DEF NotAhead
  <2> QED
      BY <1>1, <1>2, <2>2, <2>3, <2>4, <2>5 DEF PipelineInStep
<1>4. ASSUME inflight' = inflight, batchIds' = batchIds PROVE PipelineInStep' /\ NotAhead'
    BY <1>1, <1>4 DEF PipelineInStep, NotAhead
<1>5. CASE FetchBatch
  <2>1. PICK b \in inflight :
           inflight' = (inflight \ {b}) \cup {[b EXCEPT !.fired = @ \cup {caller}]}
      BY <1>5 DEF FetchBatch
  <2> DEFINE e == [b EXCEPT !.fired = @ \cup {caller}]
  <2>2. /\ e.id = b.id /\ e.end = b.end /\ b.fired \subseteq e.fired
        /\ inflight' = (inflight \ {b}) \cup {e} /\ batchIds' = batchIds
      BY <1>1, <1>5, <2>1 DEF Batch, FetchBatch
  <2> HIDE DEF e
  <2>3. \A m \in Endpoint : (m \in e.end <=> iter[m] > e.id) /\ (m \in e.end => m \in e.fired)
      BY <1>2, <2>2
  <2>4. \A id : (\A c \in inflight' : c.id # id) => (\A c \in inflight : c.id # id)
      BY <2>2
  <2> QED
      BY <1>1, <1>2, <2>2, <2>3, <2>4 DEF PipelineInStep, NotAhead
<1> QED
    BY <1>3, <1>4, <1>5
       DEF Schedule, ScheduleNothing, ScheduleRaises, ScheduleIdle, FetchNothing, queueVars

\* The endpoints stay in step with the pipeline: a batch leaves it only after
\* each of them has executed it, and none waits for one that is gone.
THEOREM EndpointsInStep == Spec => []PipelineInStep
<1>1. Init => PipelineInStep /\ NotAhead
    BY DEF Init, PipelineInStep, NotAhead
<1>2. IInv /\ PipelineInStep /\ NotAhead /\ [Next]_vars => PipelineInStep' /\ NotAhead'
  <2> SUFFICES ASSUME IInv, PipelineInStep, NotAhead, [Next]_vars
               PROVE  PipelineInStep' /\ NotAhead'
      OBVIOUS
  <2>1. ASSUME NEW r \in Req, Arrive(r) PROVE PipelineInStep' /\ NotAhead'
      BY <2>1 DEF Arrive, PipelineInStep, NotAhead
  <2>2. ASSUME NEW n \in Endpoint, Report(n) PROVE PipelineInStep' /\ NotAhead'
      BY <2>2, ReportInStep
  <2>3. CASE Schedule
      BY <2>3, ScheduleInStep
  <2>4. CASE UNCHANGED vars
      BY <2>4 DEF vars, queueVars, PipelineInStep, NotAhead
  <2> QED
      BY <2>1, <2>2, <2>3, <2>4 DEF Next
<1> QED
    BY <1>1, <1>2, Invariance, PTL DEF Spec

-----------------------------------------------------------------------------
(* The limits on what is in flight.                                        *)

\* Among some requests one is the last of the queue.
LEMMA LastOf ==
    ASSUME NEW S \in SUBSET Req, S # {}
    PROVE  \E m \in S : \A q \in S : q <= m
<1> DEFINE R == OpToRel(<, Nat)
           U == {NumReq - q : q \in S}
<1>1. \A q \in S : q \in Nat /\ NumReq - q \in Nat /\ NumReq \in Nat
    BY SizeAssumption DEF Req
<1>2. U \subseteq Nat /\ U # {}
    BY <1>1
<1>3. PICK x \in U : \A y \in U : ~(<<y, x>> \in R)
  <2> HIDE DEF U, R
  <2> QED
      BY <1>2, NatLessThanWellFounded, WFMin DEF R
<1>4. PICK m \in S : x = NumReq - m
    OBVIOUS
<1>5. \A q \in S : ~(NumReq - q < NumReq - m)
    BY <1>1, <1>2, <1>3, <1>4 DEF OpToRel
<1> QED
    BY <1>1, <1>4, <1>5

\* No more requests are considered than there are slots.
LEMMA SlotsKept ==
    ASSUME TypeOK
    PROVE  /\ IsFiniteSet(Running) /\ IsFiniteSet(BatchReq)
           /\ AvailableSlots \in Nat
           /\ Cardinality(BatchReq) <= AvailableSlots
<1>1. Running \subseteq Req /\ BatchReq \subseteq Req /\ request \subseteq Req
    BY DEF TypeOK, Running, Batch, BatchReq
<1>2. IsFiniteSet(Running) /\ IsFiniteSet(BatchReq) /\ IsFiniteSet(request)
    BY <1>1, Sizes, FS_Subset
<1>3. Cardinality(Running) \in Nat /\ Cardinality(BatchReq) \in Nat
    BY <1>2, FS_CardinalityType
<1>4. AvailableSlots \in Nat
    BY <1>3, SizeAssumption DEF AvailableSlots, Larger
<1>5. CASE BatchReq = {}
    BY <1>2, <1>4, <1>5, FS_EmptySet
<1>6. CASE BatchReq # {}
  <2>1. PICK m \in BatchReq : \A q \in BatchReq : q <= m
      BY <1>1, <1>6, LastOf
  <2> DEFINE P == {q \in request : q < m}
  <2>2. Cardinality(P) < AvailableSlots
      BY <2>1 DEF BatchReq
  <2>3. BatchReq \subseteq P \cup {m}
    <3> SUFFICES ASSUME NEW q \in BatchReq, q # m PROVE q \in P
        OBVIOUS
    <3>1. q \in Nat /\ m \in Nat /\ q <= m
        BY <1>1, <2>1, Sizes
    <3>2. q \in request
        BY DEF BatchReq
    <3> QED
        BY <3>1, <3>2
  <2>4. IsFiniteSet(P) /\ P \subseteq request
      BY <1>2, FS_Subset
  <2> HIDE DEF P
  <2>5. /\ IsFiniteSet(P \cup {m}) /\ Cardinality(P) \in Nat
        /\ Cardinality(P \cup {m}) <= Cardinality(P) + 1
      BY <2>4, FS_AddElement, FS_CardinalityType
  <2>6. Cardinality(BatchReq) <= Cardinality(P \cup {m})
      BY <2>3, <2>5, FS_Subset
  <2>7. Cardinality(P \cup {m}) \in Nat
      BY <2>5, FS_CardinalityType
  <2> QED
      BY <1>2, <1>3, <1>4, <2>2, <2>5, <2>6, <2>7
<1> QED
    BY <1>2, <1>4, <1>5, <1>6

\* A batch has a last request in the order in which the budget is spent.
LEMMA LastInBatch ==
    ASSUME NEW T \in SUBSET Req, T # {}
    PROVE  \E m \in T : \A q \in T : q = m \/ Before(q, m)
<1> DEFINE P == {q \in T : IsPrefill(q)}
<1>1. \A q, m \in T : q <= m => q = m \/ q < m
    BY Sizes
<1>2. CASE Chunked /\ P # {}
  <2>1. PICK m \in P : \A q \in P : q <= m
      BY <1>2, LastOf
  <2>2. \A q \in P : q = m \/ Before(q, m)
      BY <1>1, <2>1 DEF Before
  <2>3. \A q \in T \ P : Before(q, m)
      BY <1>2, <2>1 DEF Before
  <2> QED
      BY <2>1, <2>2, <2>3
<1>3. CASE ~Chunked \/ P = {}
  <2>1. PICK m \in T : \A q \in T : q <= m
      BY LastOf
  <2>2. \A q \in T : Chunked => ~IsPrefill(q)
      BY <1>3
  <2>3. \A q \in T : Before(q, m) <=> q < m
    <3> SUFFICES ASSUME NEW q \in T PROVE Before(q, m) <=> q < m
        OBVIOUS
    <3>1. CASE ~Chunked
        BY <3>1 DEF Before
    <3>2. CASE Chunked
      <4>1. ~IsPrefill(q) /\ ~IsPrefill(m)
          BY <2>2, <3>2
      <4> QED
          BY <3>2, <4>1, BeforeDecode
    <3> QED
        BY <3>1, <3>2
  <2> QED
      BY <1>1, <2>1, <2>3
<1> QED
    BY <1>2, <1>3

\* What the requests of a batch are granted together fits the budget.
LEMMA BatchInBudget ==
    ASSUME TypeOK, ReqInv, NEW T \in SUBSET Proposal, NEW f,
           \A r \in T : f[r] = Granted(r)
    PROVE  Sum(f, T) <= MaxTokens
<1>1. T \subseteq Req /\ T \subseteq Considered
    BY ProposalPlaces
<1>2. \A q \in T : /\ Granted(q) \in Nat /\ Granted(q) > 0
                   /\ Wanted(q) \in 1..MaxContext /\ Granted(q) <= Wanted(q)
                   /\ Granted(q) <= BudgetLeft(q) /\ BudgetLeft(q) \in Int
  <2> SUFFICES ASSUME NEW q \in T
               PROVE  /\ Granted(q) \in Nat /\ Granted(q) > 0
                      /\ Wanted(q) \in 1..MaxContext /\ Granted(q) <= Wanted(q)
                      /\ Granted(q) <= BudgetLeft(q) /\ BudgetLeft(q) \in Int
      OBVIOUS
  <2>1. Wanted(q) \in 1..MaxContext /\ BudgetLeft(q) \in Int /\ Granted(q) > 0
      BY <1>1, WantedBound, BudgetType DEF Proposal
  <2>2. MaxContext \in Nat
      BY Sizes
  <2> QED
      BY <1>1, <2>1, <2>2 DEF Granted, Smaller, Larger
<1>3. \A r \in Req : r \in T => f[r] \in 0..MaxContext
    BY <1>2, Sizes
<1>4. /\ Masked(f, T) \in [Req -> 0..MaxContext]
      /\ Sum(f, T) = Total(Masked(f, T), MaxContext) /\ Sum(f, T) \in Nat
    BY <1>3, MaskedSum
<1>5. IsFiniteSet(Req) /\ MaxContext \in Nat /\ MaxTokens \in Nat
    BY Sizes, SizeAssumption
<1>6. CASE T = {}
  <2>1. \A r \in Req : Masked(f, T)[r] = 0
      BY <1>6 DEF Masked
  <2>2. Total(Masked(f, T), MaxContext) = 0
      BY <1>4, <1>5, <2>1, TotalZero
  <2> QED
      BY <1>4, <1>5, <2>2
<1>7. CASE T # {}
  <2>1. PICK m \in T : \A q \in T : q = m \/ Before(q, m)
      BY <1>1, <1>7, LastInBatch
  <2>2. m \in Req /\ m \in Considered /\ ~Before(m, m)
    <3>1. m \in Nat /\ m \in Req
        BY <1>1, Sizes
    <3> QED
        BY <1>1, <3>1 DEF Before
  <2> DEFINE only == [q \in Req |-> IF q = m THEN Granted(m) ELSE 0]
             none == [q \in Req |-> 0]
             both == [q \in Req |-> Ahead(m)[q] + only[q]]
  <2>3. Ahead(m) \in [Req -> 0..MaxContext] /\ Total(Ahead(m), MaxContext) \in Nat
        /\ BudgetLeft(m) = MaxTokens - Total(Ahead(m), MaxContext)
      BY <2>2, BudgetType
  <2>4. only \in [Req -> 0..MaxContext] /\ none \in [Req -> 0..MaxContext]
      BY <1>2, <1>5
  <2>5. Ahead(m)[m] = 0
      BY <2>2 DEF Ahead, Masked
  <2>6. \A q \in Req : both[q] \in 0..MaxContext /\ Masked(f, T)[q] <= both[q]
    <3> SUFFICES ASSUME NEW q \in Req
                 PROVE  /\ Ahead(m)[q] + only[q] \in 0..MaxContext
                        /\ Masked(f, T)[q] <= Ahead(m)[q] + only[q]
        OBVIOUS
    <3>1. Masked(f, T)[q] = IF q \in T THEN Granted(q) ELSE 0
        BY DEF Masked
    <3>2. Ahead(m)[q] \in 0..MaxContext /\ only[q] = IF q = m THEN Granted(m) ELSE 0
        BY <2>3
    <3>3. CASE q = m
        BY <1>2, <1>5, <2>5, <3>1, <3>2, <3>3
    <3>4. CASE q # m /\ q \in T
      <4>1. Ahead(m)[q] = Wanted(q)
          BY <1>1, <2>1, <3>4 DEF Ahead, Masked
      <4> QED
          BY <1>2, <1>5, <3>1, <3>2, <3>4, <4>1
    <3>5. CASE q # m /\ q \notin T
        BY <1>5, <3>1, <3>2, <3>5
    <3> QED
        BY <3>3, <3>4, <3>5
  <2>7. both \in [Req -> 0..MaxContext] /\ \A q \in Req : both[q] = Ahead(m)[q] + only[q]
      BY <2>6
  <2>8. only[m] = Granted(m) /\ none[m] = 0 /\ (\A q \in Req \ {m} : only[q] = none[q])
        /\ (\A q \in Req : none[q] = 0)
      BY <2>2
  <2> HIDE DEF only, none, both
  <2>9. Total(none, MaxContext) = 0
      BY <1>5, <2>4, <2>8, TotalZero
  <2>10. Total(only, MaxContext) = Total(none, MaxContext) - none[m] + only[m]
      BY <1>5, <2>2, <2>4, <2>8, TotalUpdate
  <2>11. Total(both, MaxContext) = Total(Ahead(m), MaxContext) + Total(only, MaxContext)
    <3>1. Ahead(m) \in [Req -> 0..MaxContext] /\ only \in [Req -> 0..MaxContext]
        BY <2>3, <2>4
    <3> QED
        BY <1>5, <2>7, <3>1, TotalPlus
  <2>12. Total(Masked(f, T), MaxContext) <= Total(both, MaxContext)
      BY <1>4, <1>5, <2>6, <2>7, TotalMonotone
  <2> QED
      BY <1>2, <1>4, <1>5, <2>3, <2>8, <2>9, <2>10, <2>11, <2>12
<1> QED
    BY <1>6, <1>7

\* What the batches in flight have scheduled depends on their requests only.
LEMMA SumFrame ==
    ASSUME NEW f, NEW g, NEW S, \A r \in Req : r \in S => f[r] = g[r]
    PROVE  Sum(f, S) = Sum(g, S)
<1>1. [r \in Req |-> IF r \in S THEN f[r] ELSE 0] = [r \in Req |-> IF r \in S THEN g[r] ELSE 0]
    OBVIOUS
<1> QED
    BY <1>1 DEF Sum

\* Signing a batch leaves the limits as they are.
LEMMA SignedLimits ==
    ASSUME IInv, WithinLimits, NEW b \in inflight, NEW c,
           c.requests = b.requests, inflight' = (inflight \ {b}) \cup {c}, chunk' = chunk
    PROVE  WithinLimits'
<1>1. Running' = Running
    BY DEF Running
<1>2. Cardinality(inflight') <= Cardinality(inflight)
  <2>1. IsFiniteSet(inflight) /\ IsFiniteSet(inflight \ {b})
      BY FS_RemoveElement DEF IInv, BatchesInv
  <2>2. Cardinality(inflight \ {b}) = Cardinality(inflight) - 1
      BY <2>1, FS_RemoveElement
  <2>3. /\ Cardinality(inflight') <= Cardinality(inflight \ {b}) + 1
        /\ Cardinality(inflight') \in Nat
    <3>1. IsFiniteSet((inflight \ {b}) \cup {c})
        BY <2>1, FS_AddElement
    <3>2. Cardinality((inflight \ {b}) \cup {c})
             = IF c \in inflight \ {b} THEN Cardinality(inflight \ {b})
               ELSE Cardinality(inflight \ {b}) + 1
        BY <2>1, FS_AddElement
    <3>3. Cardinality(inflight \ {b}) \in Nat
        BY <2>1, FS_CardinalityType
    <3> QED
        BY <3>1, <3>2, <3>3, FS_CardinalityType
  <2>4. Cardinality(inflight) \in Nat
      BY <2>1, FS_CardinalityType
  <2> QED
      BY <2>2, <2>3, <2>4
<1>3. Cardinality(inflight') <= PPSize
  <2>1. Cardinality(inflight) \in Nat /\ Cardinality(inflight') \in Nat
    <3>1. IsFiniteSet(inflight) /\ IsFiniteSet(inflight')
        BY FS_RemoveElement, FS_AddElement DEF IInv, BatchesInv
    <3> QED
        BY <3>1, FS_CardinalityType
  <2> QED
      BY <1>2, <2>1, SizeAssumption DEF WithinLimits
<1>4. \A e \in inflight' : Sum(chunk, e.requests) <= MaxTokens
    BY DEF WithinLimits
<1> QED
    BY <1>1, <1>3, <1>4 DEF WithinLimits

\* Completing a batch only makes room.
LEMMA CompleteLimits ==
    ASSUME IInv, WithinLimits, NEW b \in inflight, Complete(b)
    PROVE  WithinLimits'
<1>1. Running' \subseteq Running /\ inflight' = inflight \ {b}
    BY CompletePlaces DEF Complete
<1>2. IsFiniteSet(Running) /\ IsFiniteSet(inflight)
    BY SlotsKept DEF IInv, BatchesInv
<1>3. Cardinality(Running') <= Cardinality(Running) /\ Cardinality(Running') \in Nat
      /\ Cardinality(Running) \in Nat
    BY <1>1, <1>2, FS_Subset, FS_CardinalityType
<1>4. Cardinality(inflight') <= Cardinality(inflight) /\ Cardinality(inflight') \in Nat
      /\ Cardinality(inflight) \in Nat
    BY <1>1, <1>2, FS_Subset, FS_CardinalityType
<1>5. \A c \in inflight' : Sum(chunk', c.requests) = Sum(chunk, c.requests)
  <2> SUFFICES ASSUME NEW c \in inflight'
               PROVE  Sum(chunk', c.requests) = Sum(chunk, c.requests)
      OBVIOUS
  <2>1. c.requests \cap b.requests = {}
      BY <1>1 DEF IInv, OnePlace
  <2>2. \A r \in Req : r \in c.requests => chunk'[r] = chunk[r]
      BY <2>1 DEF Complete
  <2> QED
      BY <2>2, SumFrame
<1> QED
    BY <1>1, <1>3, <1>4, <1>5, SizeAssumption DEF WithinLimits

\* A new batch keeps to the slots and to the token budget.
LEMMA DispatchLimits ==
    ASSUME IInv, WithinLimits, CanForm, NEW T \in SUBSET Proposal, Dispatch(T)
    PROVE  WithinLimits'
<1> DEFINE new == [id |-> batchIds + 1, requests |-> T, fired |-> {StartNPU}, end |-> {}]
<1>1. /\ new.requests = T /\ inflight' = inflight \cup {new}
      /\ chunk' = [r \in Req |-> IF r \in T THEN Granted(r) ELSE chunk[r]]
    BY DEF Dispatch
<1> HIDE DEF new
<1>2. T \subseteq Req /\ T \subseteq BatchReq /\ T \subseteq request
    BY ProposalPlaces DEF IInv
<1>3. Running' = Running \cup T
    BY <1>1 DEF Running
<1>4. /\ IsFiniteSet(Running) /\ IsFiniteSet(BatchReq) /\ AvailableSlots \in Nat
      /\ Cardinality(BatchReq) <= AvailableSlots
    BY SlotsKept DEF IInv
<1>5. IsFiniteSet(T) /\ Cardinality(T) <= Cardinality(BatchReq)
    BY <1>2, <1>4, FS_Subset
<1>6. /\ Cardinality(Running) \in Nat /\ Cardinality(T) \in Nat
      /\ Cardinality(BatchReq) \in Nat
    BY <1>4, <1>5, FS_CardinalityType
<1>7. /\ Cardinality(Running \cup T) <= Cardinality(Running) + Cardinality(T)
      /\ Cardinality(Running \cup T) \in Nat
  <2>1. IsFiniteSet(Running \cup T)
      BY <1>4, <1>5, FS_Union
  <2>2. Cardinality(Running \cup T)
           = Cardinality(Running) + Cardinality(T) - Cardinality(Running \cap T)
      BY <1>4, <1>5, FS_Union
  <2>3. IsFiniteSet(Running \cap T)
      BY <1>5, FS_Subset
  <2>4. Cardinality(Running \cap T) \in Nat /\ Cardinality(Running \cup T) \in Nat
      BY <2>1, <2>3, FS_CardinalityType
  <2> QED
      BY <1>6, <2>2, <2>4
<1>8. Cardinality(Running') <= MaxSeqs
  <2>1. AvailableSlots <= MaxSeqs - Cardinality(Running)
      BY <1>6, SizeAssumption DEF AvailableSlots, Larger, WithinLimits
  <2> QED
      BY <1>3, <1>4, <1>5, <1>6, <1>7, <2>1, SizeAssumption
<1>9. Cardinality(inflight') <= PPSize
  <2>1. IsFiniteSet(inflight)
      BY DEF IInv, BatchesInv
  <2>2. Cardinality(inflight) \in Nat /\ Cardinality(inflight) < PPSize
      BY <2>1, FS_CardinalityType DEF CanForm
  <2>3. Cardinality(inflight') = IF new \in inflight THEN Cardinality(inflight)
                                 ELSE Cardinality(inflight) + 1
      BY <1>1, <2>1, FS_AddElement
  <2> QED
      BY <2>2, <2>3, SizeAssumption
<1>10. Sum(chunk', T) <= MaxTokens
  <2>1. \A r \in T : chunk'[r] = Granted(r)
      BY <1>1, <1>2
  <2> QED
      BY <2>1, BatchInBudget DEF IInv
<1>11. \A c \in inflight : Sum(chunk', c.requests) = Sum(chunk, c.requests)
  <2> SUFFICES ASSUME NEW c \in inflight
               PROVE  Sum(chunk', c.requests) = Sum(chunk, c.requests)
      OBVIOUS
  <2>1. c.requests \subseteq Running /\ Running \cap T = {}
      BY <1>2 DEF IInv, OnePlace, Running
  <2>2. \A r \in Req : r \in c.requests => chunk'[r] = chunk[r]
      BY <1>1, <2>1
  <2> QED
      BY <2>2, SumFrame
<1> QED
    BY <1>1, <1>8, <1>9, <1>10, <1>11 DEF WithinLimits

\* Never more than pp_size batches or max_num_seqs requests are in flight,
\* nor more than max_num_batched_tokens tokens in one batch.
THEOREM LimitsHold == Spec => []WithinLimits
<1>1. Init => WithinLimits
  <2> SUFFICES ASSUME Init PROVE WithinLimits
      OBVIOUS
  <2>1. inflight = {} /\ Running = {} /\ Cardinality({}) = 0
      BY FS_EmptySet DEF Init, Running
  <2> QED
      BY <2>1, SizeAssumption DEF WithinLimits
<1>2. IInv /\ WithinLimits /\ [Next]_vars => WithinLimits'
  <2> SUFFICES ASSUME IInv, WithinLimits, [Next]_vars PROVE WithinLimits'
      OBVIOUS
  <2>1. ASSUME inflight' = inflight, chunk' = chunk PROVE WithinLimits'
      BY <2>1 DEF WithinLimits, Running
  <2>2. ASSUME NEW r \in Req, Arrive(r) PROVE WithinLimits'
      BY <2>1, <2>2 DEF Arrive, tokenVars
  <2>3. ASSUME NEW n \in Endpoint, Report(n) PROVE WithinLimits'
    <3>1. CASE NothingReported(n)
        BY <2>1, <3>1 DEF NothingReported, queueVars, tokenVars
    <3>2. ASSUME NEW b \in inflight, EndReported(n, b) PROVE WithinLimits'
      <4>1. CASE ~IsLast(b, n)
        <5> DEFINE c == [b EXCEPT !.end = @ \cup {n}]
        <5>1. b \in Batch
            BY DEF IInv, TypeOK
        <5>2. c.requests = b.requests
            BY <5>1 DEF Batch
        <5>3. inflight' = (inflight \ {b}) \cup {c} /\ chunk' = chunk
            BY <3>2, <4>1 DEF EndReported, tokenVars
        <5> HIDE DEF c
        <5> QED
            BY <5>2, <5>3, SignedLimits
      <4>2. CASE IsLast(b, n)
          BY <3>2, <4>2, CompletionPasses, CompleteLimits DEF EndReported
      <4> QED
          BY <4>1, <4>2
    <3> QED
        BY <2>3, <3>1, <3>2 DEF Report
  <2>4. CASE Schedule
    <3>1. ASSUME NEW V, ScheduleBatch(V) PROVE WithinLimits'
      <4>1. PICK T \in SUBSET request : LongestFit(V, T) /\ Dispatch(T)
          BY <3>1 DEF ScheduleBatch
      <4>2. T \in SUBSET Proposal /\ CanForm
          BY <3>1, <4>1 DEF LongestFit, Prefixes, ScheduleBatch
      <4> QED
          BY <4>1, <4>2, DispatchLimits
    <3>2. ASSUME NEW V, ScheduleNothing(V) \/ ScheduleRaises(V) PROVE WithinLimits'
        BY <2>1, <3>2 DEF ScheduleNothing, ScheduleRaises, queueVars, tokenVars
    <3>3. CASE ScheduleIdle \/ FetchNothing
        BY <2>1, <3>3 DEF ScheduleIdle, FetchNothing, queueVars, tokenVars
    <3>4. CASE FetchBatch
      <4>1. PICK b \in inflight :
               inflight' = (inflight \ {b}) \cup {[b EXCEPT !.fired = @ \cup {caller}]}
          BY <3>4 DEF FetchBatch
      <4> DEFINE c == [b EXCEPT !.fired = @ \cup {caller}]
      <4>2. b \in Batch
          BY DEF IInv, TypeOK
      <4>3. c.requests = b.requests /\ inflight' = (inflight \ {b}) \cup {c} /\ chunk' = chunk
          BY <3>4, <4>1, <4>2 DEF Batch, FetchBatch, tokenVars
      <4> HIDE DEF c
      <4> QED
          BY <4>3, SignedLimits
    <3> QED
        BY <2>4, <3>1, <3>2, <3>3, <3>4 DEF Schedule
  <2>5. CASE UNCHANGED vars
      BY <2>1, <2>5 DEF vars, queueVars, tokenVars
  <2> QED
      BY <2>2, <2>3, <2>4, <2>5 DEF Next
<1> QED
    BY <1>1, <1>2, Invariance, PTL DEF Spec

-----------------------------------------------------------------------------
(* What a finished turn leaves behind.                                     *)

\* Swapping keeps every context whole: as long as contexts are swapped and
\* not discarded, a request that has produced tokens has the KV of its prompt
\* and of all of them but the last.
THEOREM SwappingKeepsContext ==
    ASSUME CpuSwap
    PROVE  Spec => []ContextMatchesOutput
<1>1. Init => ContextMatchesOutput
    BY DEF Init, ContextMatchesOutput
<1>2. IInv /\ ContextMatchesOutput /\ [Next]_vars => ContextMatchesOutput'
  <2> SUFFICES ASSUME IInv, ContextMatchesOutput, [Next]_vars
               PROVE  ContextMatchesOutput'
      OBVIOUS
  <2>1. ASSUME UNCHANGED <<input, computed, generated>> PROVE ContextMatchesOutput'
      BY <2>1 DEF ContextMatchesOutput
  <2>2. ASSUME NEW r \in Req, Arrive(r) PROVE ContextMatchesOutput'
      BY <2>1, <2>2 DEF Arrive, tokenVars
  <2>3. ASSUME NEW n \in Endpoint, Report(n) PROVE ContextMatchesOutput'
    <3>1. CASE NothingReported(n)
        BY <2>1, <2>3, <3>1 DEF Report, NothingReported, tokenVars
    <3>2. ASSUME NEW b \in inflight, EndReported(n, b) PROVE ContextMatchesOutput'
      <4>1. CASE ~IsLast(b, n)
          BY <2>1, <2>3, <3>2, <4>1 DEF Report, EndReported, tokenVars
      <4>2. CASE IsLast(b, n)
        <5>1. Complete(b) /\ input' = input
            BY <2>3, <3>2, <4>2, CompletionPasses DEF Report, EndReported
        <5> SUFFICES ASSUME NEW r \in Req, generated'[r] > 0
                     PROVE  computed'[r] = input[r] + generated'[r] - 1
            BY <5>1 DEF ContextMatchesOutput
        <5>2. /\ TypeOK /\ ReqInv /\ Context(r) /\ InBatch(r) /\ target[r] = 0
              /\ generated[r] > 0 => computed[r] = input[r] + generated[r] - 1
          <6>1. TypeOK /\ ReqInv /\ Context(r) /\ InBatch(r) /\ Preempted(r)
              BY DEF IInv, ReqInv
          <6>2. target[r] = 0
              BY <6>1, ReqTypes DEF Preempted
          <6> QED
              BY <6>1, <6>2 DEF ContextMatchesOutput
        <5>3. /\ computed'[r] = computed[r] + (IF r \in b.requests THEN chunk[r] ELSE 0)
              /\ generated'[r] = generated[r] + Emitted(b, r)
            BY <5>1 DEF Complete
        <5>4. CASE r \notin b.requests
            BY <5>2, <5>3, <5>4, ReqTypes DEF Emitted
        <5>5. CASE r \in b.requests
          <6>1. r \in Running
              BY <5>5 DEF Running
          <6>2. Emitted(b, r) = IF computed[r] + chunk[r] >= input[r] THEN 1 ELSE 0
              BY <5>2, <5>5 DEF Emitted, Emits, PrefillTarget
          <6>3. IsPrefill(r) <=> computed[r] < input[r]
              BY <5>2 DEF IsPrefill, PrefillTarget
          <6>4. PrefillTarget(r) = input[r]
              BY <5>2 DEF PrefillTarget
          <6>5. CASE generated[r] = 0
              BY <5>2, <5>3, <5>5, <6>1, <6>2, <6>3, <6>4, <6>5, ReqTypes
                 DEF InBatch, Context
          <6>6. CASE generated[r] > 0
            <7>1. ~IsPrefill(r) /\ chunk[r] = 1
                BY <5>2, <6>1, <6>3, <6>6, ReqTypes DEF InBatch
            <7>2. Emitted(b, r) = 1
                BY <5>2, <6>2, <6>3, <7>1, ReqTypes
            <7> QED
                BY <5>2, <5>3, <5>5, <6>6, <7>1, <7>2, ReqTypes
          <6> QED
              BY <5>2, <6>5, <6>6, ReqTypes
        <5> QED
            BY <5>4, <5>5
      <4> QED
          BY <4>1, <4>2
    <3> QED
        BY <2>3, <3>1, <3>2 DEF Report
  <2>4. CASE Schedule
    <3>1. input' = input
        BY <2>4 DEF Schedule
    <3>2. ASSUME NEW V, ScheduleBatch(V) \/ ScheduleNothing(V)
          PROVE  computed' = computed /\ generated' = generated
      <4>1. PICK T : MoveBlocks(V, T)
          BY <3>2 DEF ScheduleBatch, ScheduleNothing
      <4>2. computed' = [r \in Req |-> computed[r]]
          BY <4>1 DEF MoveBlocks, ComputedAfter
      <4> QED
          BY <3>2, <4>2 DEF ScheduleBatch, ScheduleNothing, IInv, TypeOK
    <3>3. ASSUME NEW V, ScheduleRaises(V)
          PROVE  computed' = computed /\ generated' = generated
        BY <3>3 DEF ScheduleRaises, tokenVars
    <3>4. CASE ScheduleIdle \/ FetchBatch \/ FetchNothing
        BY <2>1, <3>1, <3>4 DEF ScheduleIdle, FetchBatch, FetchNothing, tokenVars
    <3> QED
        BY <2>1, <2>4, <3>1, <3>2, <3>3, <3>4 DEF Schedule
  <2>5. CASE UNCHANGED vars
      BY <2>1, <2>5 DEF vars, tokenVars
  <2> QED
      BY <2>2, <2>3, <2>4, <2>5 DEF Next
<1> QED
    BY <1>1, <1>2, Invariance, PTL DEF Spec
=============================================================================
