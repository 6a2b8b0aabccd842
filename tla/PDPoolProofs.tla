----------------------------- MODULE PDPoolProofs -----------------------------
(***************************************************************************)
(* Theorems about PDPool for every number of requests, every output length *)
(* and every limit on the batches.  The lemmas are about single steps, so  *)
(* that they also serve the node around the pool.                          *)
(***************************************************************************)
EXTENDS PDPool, LedgerProofs

\* Where a request stands, by its state: a prompt in prefill has tokens left
\* and has produced none; afterwards nothing is left of it, and a request is
\* complete exactly with its last token.
RequestProgress ==
    \A r \in Req :
        /\ chunk[r] <= left[r]
        /\ state[r] = "waiting_p" => generated[r] = 0 /\ ~handoffDone[r]
        /\ state[r] = "p_prefill" => generated[r] = 0 /\ left[r] > 0
        /\ state[r] \in {"handoff", "d_decode", "complete"} => left[r] = 0
        /\ state[r] = "handoff" => generated[r] = 1 /\ output[r] > 1 /\ ~handoffDone[r]
        /\ state[r] = "d_decode" => 0 < generated[r] /\ generated[r] < output[r]
        /\ state[r] = "complete" => /\ generated[r] = output[r]
                                    /\ output[r] > 1 => handoffDone[r]

\* An event that is due has what it ends, and its instant forms batches later.
EventsHaveCauses ==
    /\ due # {} => open
    /\ "d batch" \in due => dBatch # <<>>
    /\ "p batch" \in due => pBatch # <<>>
    /\ "fabric" \in due => fabric # <<>>

\* The inductive invariant.
PoolInv ==
    /\ TypeOK /\ RequestProgress /\ EventsHaveCauses
    /\ OneQueue /\ HandoffOnce /\ WithinLimits /\ NeverIdleWithWork
-----------------------------------------------------------------------------
(* What the invariant says of a queue, a batch and the fabric.             *)

LEMMA ParametersOK ==
    /\ IsFiniteSet(Session) /\ IsFiniteSet(Req)
    /\ MaxCalls \in Nat /\ MaxFresh \in Nat /\ MaxHolds \in Nat
    /\ MaxTokens \in Nat \ {0} /\ MaxChunk \in 1..MaxTokens
    /\ PMaxSeqs \in Nat \ {0} /\ DMaxSeqs \in Nat \ {0}
    /\ Outputs \subseteq Nat \ {0}
<1>1. IsFiniteSet(1..MaxCalls)
    BY PoolAssumption, FS_Interval
<1>2. IsFiniteSet(Session \X (1..MaxCalls))
    BY <1>1, PoolAssumption, FS_Product
<1> QED
    BY <1>2, PoolAssumption DEF Req

\* A member of a queue is one that occurs in it.
LEMMA InQueue ==
    ASSUME NEW U, NEW s \in Seq(U)
    PROVE  /\ ElementsOf(s) \subseteq U
           /\ s # <<>> <=> ElementsOf(s) # {}
           /\ \A x : Occurrences(x, s) \in Nat /\ (x \in ElementsOf(s) <=> Occurrences(x, s) > 0)
           /\ s = <<>> => \A x : Occurrences(x, s) = 0
<1>1. DOMAIN s = 1..Len(s) /\ Len(s) \in Nat /\ \A i \in 1..Len(s) : s[i] \in U
    OBVIOUS
<1>2. ElementsOf(s) \subseteq U
    BY <1>1 DEF ElementsOf
<1>3. s # <<>> => s[1] \in ElementsOf(s)
  <2>1. s # <<>> => 1 \in DOMAIN s
      BY <1>1
  <2> QED
      BY <2>1 DEF ElementsOf
<1>4. s = <<>> => ElementsOf(s) = {}
  <2>1. s = <<>> => DOMAIN s = {}
      BY <1>1
  <2> QED
      BY <2>1 DEF ElementsOf
<1>5. ASSUME NEW x
      PROVE  Occurrences(x, s) \in Nat /\ (x \in ElementsOf(s) <=> Occurrences(x, s) > 0)
  <2>1. x \in ElementsOf(s) <=> \E i \in DOMAIN s : s[i] = x
      BY DEF ElementsOf
  <2> QED
      BY <2>1, OccType, OccMember
<1> QED
    BY <1>2, <1>3, <1>4, <1>5, OccEmpty

\* A request is waiting or running in at most one place, as its state says.
LEMMA WhereItIs ==
    ASSUME PoolInv
    PROVE  /\ ElementsOf(pBatch) \subseteq Req /\ ElementsOf(dBatch) \subseteq Req
           /\ pBatch # <<>> <=> ElementsOf(pBatch) # {}
           /\ dBatch # <<>> <=> ElementsOf(dBatch) # {}
           /\ \A r \in Req :
                  /\ Occurrences(r, pWaiting) \in Nat /\ Occurrences(r, pBatch) \in Nat
                  /\ Occurrences(r, dWaiting) \in Nat /\ Occurrences(r, dBatch) \in Nat
                  /\ Occurrences(<<"handoff", r>>, fabric) \in Nat
                  /\ r \in ElementsOf(pBatch) => /\ Occurrences(r, pBatch) = 1
                                                 /\ Occurrences(r, pWaiting) = 0
                                                 /\ state[r] = "p_prefill"
                                                 /\ chunk[r] > 0
                  /\ r \notin ElementsOf(pBatch) => /\ Occurrences(r, pBatch) = 0
                                                    /\ chunk[r] = 0
                  /\ r \in ElementsOf(dBatch) => /\ Occurrences(r, dBatch) = 1
                                                 /\ Occurrences(r, dWaiting) = 0
                                                 /\ state[r] = "d_decode"
                  /\ r \notin ElementsOf(dBatch) => Occurrences(r, dBatch) = 0
<1>1. /\ pWaiting \in Seq(Req) /\ dWaiting \in Seq(Req) /\ fabric \in Seq(Job)
      /\ pBatch \in Seq(Req) /\ dBatch \in Seq(Req) /\ chunk \in [Req -> 0..MaxChunk]
      /\ OneQueue
    BY DEF PoolInv, TypeOK
<1>2. /\ ElementsOf(pBatch) \subseteq Req /\ ElementsOf(dBatch) \subseteq Req
      /\ pBatch # <<>> <=> ElementsOf(pBatch) # {}
      /\ dBatch # <<>> <=> ElementsOf(dBatch) # {}
    BY <1>1, InQueue
<1>3. ASSUME NEW r \in Req
      PROVE  /\ Occurrences(r, pWaiting) \in Nat /\ Occurrences(r, pBatch) \in Nat
             /\ Occurrences(r, dWaiting) \in Nat /\ Occurrences(r, dBatch) \in Nat
             /\ Occurrences(<<"handoff", r>>, fabric) \in Nat
             /\ r \in ElementsOf(pBatch) <=> Occurrences(r, pBatch) > 0
             /\ r \in ElementsOf(dBatch) <=> Occurrences(r, dBatch) > 0
    BY <1>1, InQueue
<1>4. \A r \in Req : chunk[r] > 0 <=> r \in ElementsOf(pBatch)
    BY DEF PoolInv, WithinLimits
<1>5. \A r \in Req : chunk[r] \in Nat
    BY <1>1, ParametersOK
<1>6. ASSUME NEW r \in Req
      PROVE  /\ r \in ElementsOf(pBatch) => /\ Occurrences(r, pBatch) = 1
                                            /\ Occurrences(r, pWaiting) = 0
                                            /\ state[r] = "p_prefill"
                                            /\ chunk[r] > 0
             /\ r \notin ElementsOf(pBatch) => /\ Occurrences(r, pBatch) = 0
                                               /\ chunk[r] = 0
             /\ r \in ElementsOf(dBatch) => /\ Occurrences(r, dBatch) = 1
                                            /\ Occurrences(r, dWaiting) = 0
                                            /\ state[r] = "d_decode"
             /\ r \notin ElementsOf(dBatch) => Occurrences(r, dBatch) = 0
  <2>1. Occurrences(r, pWaiting) + Occurrences(r, pBatch)
            = (IF state[r] = "p_prefill" THEN 1 ELSE 0)
      BY <1>1 DEF OneQueue
  <2>2. Occurrences(r, dWaiting) + Occurrences(r, dBatch)
            = (IF state[r] = "d_decode" THEN 1 ELSE 0)
      BY <1>1 DEF OneQueue
  <2>3. /\ Occurrences(r, pWaiting) \in Nat /\ Occurrences(r, pBatch) \in Nat
        /\ Occurrences(r, dWaiting) \in Nat /\ Occurrences(r, dBatch) \in Nat
      BY <1>3
  <2>4. ASSUME r \in ElementsOf(pBatch)
        PROVE  /\ Occurrences(r, pBatch) = 1 /\ Occurrences(r, pWaiting) = 0
               /\ state[r] = "p_prefill" /\ chunk[r] > 0
    <3>1. Occurrences(r, pBatch) > 0 /\ chunk[r] > 0
        BY <1>3, <1>4, <2>4
    <3> QED
        BY <2>1, <2>3, <2>4, <3>1
  <2>5. ASSUME r \notin ElementsOf(pBatch)
        PROVE  Occurrences(r, pBatch) = 0 /\ chunk[r] = 0
    <3>1. ~(Occurrences(r, pBatch) > 0) /\ ~(chunk[r] > 0)
        BY <1>3, <1>4, <2>5
    <3>2. chunk[r] \in Nat
        BY <1>5
    <3> QED
        BY <2>3, <2>5, <3>1, <3>2
  <2>6. ASSUME r \in ElementsOf(dBatch)
        PROVE  /\ Occurrences(r, dBatch) = 1 /\ Occurrences(r, dWaiting) = 0
               /\ state[r] = "d_decode"
    <3>1. Occurrences(r, dBatch) > 0
        BY <1>3, <2>6
    <3> QED
        BY <2>2, <2>3, <2>6, <3>1
  <2>7. ASSUME r \notin ElementsOf(dBatch)
        PROVE  Occurrences(r, dBatch) = 0
    <3>1. ~(Occurrences(r, dBatch) > 0)
        BY <1>3, <2>7
    <3> QED
        BY <2>3, <2>7, <3>1
  <2> QED
      BY <2>4, <2>5, <2>6, <2>7
<1> QED
    BY <1>2, <1>3, <1>6

\* A request is in one queue or batch of the worker its state names.
LEMMA QueueSums ==
    ASSUME PoolInv, NEW r \in Req
    PROVE  /\ Occurrences(r, pWaiting) + Occurrences(r, pBatch)
                  = (IF state[r] = "p_prefill" THEN 1 ELSE 0)
           /\ Occurrences(r, dWaiting) + Occurrences(r, dBatch)
                  = (IF state[r] = "d_decode" THEN 1 ELSE 0)
           /\ Occurrences(r, pWaiting) \in Nat /\ Occurrences(r, pBatch) \in Nat
           /\ Occurrences(r, dWaiting) \in Nat /\ Occurrences(r, dBatch) \in Nat
BY WhereItIs DEF PoolInv, OneQueue

-----------------------------------------------------------------------------
(* The initial state.                                                      *)

LEMMA InitPoolInv == Init => PoolInv
<1> SUFFICES ASSUME Init PROVE PoolInv
    OBVIOUS
<1> USE DEF Init
<1>1. TypeOK
  <2>1. output \in [Req -> Outputs] /\ successor \in [Req -> BOOLEAN]
      OBVIOUS
  <2>2. state \in [Req -> State]
      BY DEF State
  <2>3. left \in [Req -> 0..MaxFresh] /\ covered \in [Req -> BOOLEAN]
      BY ParametersOK
  <2>4. chunk \in [Req -> 0..MaxChunk] /\ generated \in [Req -> Nat]
      BY ParametersOK
  <2>5. pWaiting \in Seq(Req) /\ dWaiting \in Seq(Req) /\ pBatch \in Seq(Req)
        /\ dBatch \in Seq(Req) /\ fabric \in Seq(Job)
      OBVIOUS
  <2>6. handoffDone \in [Req -> BOOLEAN] /\ holds \in 0..MaxHolds
      BY ParametersOK
  <2> QED
      BY <2>1, <2>2, <2>3, <2>4, <2>5, <2>6 DEF TypeOK
<1>2. \A x : Occurrences(x, <<>>) = 0
    BY OccEmpty
<1>3. OneQueue /\ HandoffOnce
    BY <1>2 DEF OneQueue, HandoffOnce
<1>4. WithinLimits
  <2>1. Total(chunk, MaxChunk) = 0
    <3>1. chunk \in [Req -> 0..MaxChunk] /\ MaxChunk \in Nat
        BY <1>1, ParametersOK DEF TypeOK
    <3> QED
        BY <3>1, ParametersOK, TotalZero
  <2>2. ElementsOf(<<>>) = {}
      BY DEF ElementsOf
  <2>3. Len(<<>>) = 0
      OBVIOUS
  <2> QED
      BY <2>1, <2>2, <2>3, ParametersOK DEF WithinLimits, Least
<1>5. RequestProgress /\ EventsHaveCauses /\ NeverIdleWithWork
    BY DEF RequestProgress, EventsHaveCauses, NeverIdleWithWork
<1> QED
    BY <1>1, <1>3, <1>4, <1>5 DEF PoolInv
-----------------------------------------------------------------------------
(* Every step preserves the invariant.                                     *)

\* A submitted request joins the P queue, where it was not before.
LEMMA SubmitStep ==
    ASSUME PoolInv, NEW r \in Req, NEW fresh \in 1..MaxFresh, NEW nothing \in BOOLEAN,
           Submit(r, fresh, nothing)
    PROVE  PoolInv'
<1>0. /\ TypeOK /\ RequestProgress /\ EventsHaveCauses
      /\ OneQueue /\ HandoffOnce /\ WithinLimits /\ NeverIdleWithWork
    BY DEF PoolInv
<1>1. /\ state[r] = "waiting_p" /\ due = {} /\ open' = TRUE
      /\ state' = [state EXCEPT ![r] = "p_prefill"]
      /\ left' = [left EXCEPT ![r] = fresh]
      /\ covered' = [covered EXCEPT ![r] = nothing]
      /\ pWaiting' = Append(pWaiting, r)
      /\ UNCHANGED <<requestVars, chunk, generated, handoffDone, dWaiting, pBatch, dBatch,
                     fabric, modelVars, due, handedOff, completed>>
    BY DEF Submit, NoLiveCall
<1>2. fresh \in 0..MaxFresh /\ fresh > 0 /\ MaxFresh \in Nat
    BY ParametersOK
<1>3. TypeOK'
  <2>1. state' \in [Req -> State] /\ left' \in [Req -> 0..MaxFresh]
        /\ covered' \in [Req -> BOOLEAN] /\ pWaiting' \in Seq(Req)
      BY <1>0, <1>1, <1>2 DEF TypeOK, State
  <2> QED
      BY <1>0, <1>1, <2>1 DEF TypeOK, requestVars, modelVars
<1>4. /\ state \in [Req -> State] /\ left \in [Req -> 0..MaxFresh] /\ pWaiting \in Seq(Req)
      /\ chunk \in [Req -> 0..MaxChunk]
    BY <1>0 DEF TypeOK
<1>5. /\ state'[r] = "p_prefill" /\ left'[r] = fresh
      /\ \A q \in Req \ {r} : state'[q] = state[q] /\ left'[q] = left[q]
    BY <1>1, <1>4
<1>6. /\ generated[r] = 0 /\ ~handoffDone[r] /\ chunk[r] = 0
      /\ Occurrences(r, pWaiting) = 0 /\ Occurrences(r, pBatch) = 0
      /\ Occurrences(r, dWaiting) = 0 /\ Occurrences(r, dBatch) = 0
      /\ Occurrences(<<"handoff", r>>, fabric) = 0
  <2>1. r \notin ElementsOf(pBatch)
      BY <1>1, WhereItIs
  <2>2. chunk[r] = 0
      BY <2>1, WhereItIs
  <2>3. generated[r] = 0 /\ ~handoffDone[r]
      BY <1>0, <1>1 DEF RequestProgress
  <2>4. Occurrences(<<"handoff", r>>, fabric) = 0
      BY <1>0, <1>1 DEF HandoffOnce
  <2>5. /\ Occurrences(r, pWaiting) = 0 /\ Occurrences(r, pBatch) = 0
        /\ Occurrences(r, dWaiting) = 0 /\ Occurrences(r, dBatch) = 0
      BY <1>1, QueueSums
  <2> QED
      BY <2>2, <2>3, <2>4, <2>5
<1>7. OneQueue'
  <2> SUFFICES ASSUME NEW q \in Req
               PROVE  /\ Occurrences(q, pWaiting') + Occurrences(q, pBatch')
                             = (IF state'[q] = "p_prefill" THEN 1 ELSE 0)
                      /\ Occurrences(q, dWaiting') + Occurrences(q, dBatch')
                             = (IF state'[q] = "d_decode" THEN 1 ELSE 0)
      BY DEF OneQueue
  <2>1. Occurrences(q, pWaiting') = Occurrences(q, pWaiting) + (IF q = r THEN 1 ELSE 0)
      BY <1>1, <1>4, OccAppend
  <2>2. CASE q = r
      BY <1>1, <1>5, <1>6, <2>1, <2>2
  <2>3. CASE q # r
      BY <1>1, <1>5, <2>1, <2>3, QueueSums
  <2> QED
      BY <2>2, <2>3
<1>8. HandoffOnce'
  <2> SUFFICES ASSUME NEW q \in Req
               PROVE  /\ Occurrences(<<"handoff", q>>, fabric') =
                             (IF /\ state'[q] \in {"handoff", "d_decode", "complete"}
                                 /\ NeededOnD(q)' /\ ~handoffDone'[q] THEN 1 ELSE 0)
                      /\ state'[q] = "d_decode" => handoffDone'[q]
                      /\ handoffDone'[q] => NeededOnD(q)' /\ left'[q] = 0
      BY DEF HandoffOnce
  <2>1. NeededOnD(q)' = NeededOnD(q)
      BY <1>1 DEF NeededOnD, requestVars
  <2>2. CASE q = r
      BY <1>1, <1>5, <1>6, <2>1, <2>2
  <2>3. CASE q # r
      BY <1>0, <1>1, <1>5, <2>1, <2>3 DEF HandoffOnce
  <2> QED
      BY <2>2, <2>3
<1>9. RequestProgress'
  <2> SUFFICES ASSUME NEW q \in Req
               PROVE  /\ chunk'[q] <= left'[q]
                      /\ state'[q] = "waiting_p" => generated'[q] = 0 /\ ~handoffDone'[q]
                      /\ state'[q] = "p_prefill" => generated'[q] = 0 /\ left'[q] > 0
                      /\ state'[q] \in {"handoff", "d_decode", "complete"} => left'[q] = 0
                      /\ state'[q] = "handoff" => /\ generated'[q] = 1 /\ output'[q] > 1
                                                  /\ ~handoffDone'[q]
                      /\ state'[q] = "d_decode" => 0 < generated'[q] /\ generated'[q] < output'[q]
                      /\ state'[q] = "complete" => /\ generated'[q] = output'[q]
                                                   /\ output'[q] > 1 => handoffDone'[q]
      BY DEF RequestProgress
  <2>1. CASE q = r
      BY <1>1, <1>2, <1>5, <1>6, <2>1 DEF requestVars
  <2>2. CASE q # r
      BY <1>0, <1>1, <1>5, <2>2 DEF RequestProgress, requestVars
  <2> QED
      BY <2>1, <2>2
<1>10. WithinLimits'
    BY <1>0, <1>1 DEF WithinLimits
<1>11. EventsHaveCauses' /\ NeverIdleWithWork'
    BY <1>0, <1>1 DEF EventsHaveCauses, NeverIdleWithWork, modelVars
<1> QED
    BY <1>3, <1>7, <1>8, <1>9, <1>10, <1>11 DEF PoolInv

\* A new instant has only events that something causes.
LEMMA TickStep ==
    ASSUME PoolInv, NEW E \in SUBSET Event, Tick(E)
    PROVE  PoolInv'
<1>1. /\ E \subseteq Pending /\ due' = E /\ open' = TRUE
      /\ UNCHANGED <<requestVars, state, tokenVars, handoffDone, workerVars, fabric,
                     modelVars, handedOff, completed>>
    BY DEF Tick
<1>2. UNCHANGED <<output, successor, state, left, covered, chunk, generated, handoffDone,
                  pWaiting, dWaiting, pBatch, dBatch, fabric, held, launch, holds,
                  handedOff, completed>>
    BY <1>1 DEF requestVars, tokenVars, workerVars, modelVars
<1>3. TypeOK'
    BY <1>1, <1>2 DEF PoolInv, TypeOK
<1>4. RequestProgress' /\ OneQueue' /\ WithinLimits'
    BY <1>2 DEF PoolInv, RequestProgress, OneQueue, WithinLimits
<1>5. HandoffOnce'
    BY <1>2 DEF PoolInv, HandoffOnce, NeededOnD
<1>6. EventsHaveCauses'
  <2>1. \A s \in Stage : LaunchEvent[s] \in {"p launch", "d launch"}
    <3>1. LaunchEvent["p"] = "p launch" /\ LaunchEvent["d"] = "d launch"
        BY DEF LaunchEvent
    <3> QED
        BY <3>1 DEF Stage
  <2>2. launch \subseteq Stage
      BY DEF PoolInv, TypeOK
  <2> QED
      BY <1>1, <1>2, <2>1, <2>2 DEF Pending, EventsHaveCauses
<1>7. NeverIdleWithWork'
    BY <1>1, <1>2 DEF PoolInv, NeverIdleWithWork
<1> QED
    BY <1>3, <1>4, <1>5, <1>6, <1>7 DEF PoolInv
\* A decode batch gives each member a token; a member with more to come goes
\* back to the queue, the others leave with their last.
LEMMA FinishDBatchStep ==
    ASSUME PoolInv, FinishDBatch
    PROVE  PoolInv'
<1> DEFINE batch  == ElementsOf(dBatch)
           ending == {r \in batch : LastToken(r)}
<1>0. /\ TypeOK /\ RequestProgress /\ EventsHaveCauses
      /\ OneQueue /\ HandoffOnce /\ WithinLimits /\ NeverIdleWithWork
    BY DEF PoolInv
<1>1. /\ generated' = [r \in Req |-> generated[r] + (IF r \in batch THEN 1 ELSE 0)]
      /\ state' = [r \in Req |-> IF r \in ending THEN "complete" ELSE state[r]]
      /\ completed' = completed \cup ending
      /\ dWaiting' = dWaiting \o Only(dBatch, batch \ ending)
      /\ dBatch' = <<>> /\ due' = due \ {"d batch"} /\ "d batch" \in due
    BY DEF FinishDBatch
<1>2. UNCHANGED <<output, successor, left, covered, chunk, handoffDone, pWaiting, pBatch,
                  fabric, held, launch, holds, open, handedOff>>
    BY DEF FinishDBatch, requestVars, modelVars
<1>3. batch \subseteq Req /\ ending \subseteq batch
    BY WhereItIs
<1>4. /\ Only(dBatch, batch \ ending) \in Seq(Req)
      /\ \A x : Occurrences(x, Only(dBatch, batch \ ending))
                    = IF x \in batch \ ending THEN Occurrences(x, dBatch) ELSE 0
  <2>1. dBatch \in Seq(Req)
      BY <1>0 DEF TypeOK
  <2> QED
      BY <2>1, OnlyFacts
<1>5. ASSUME NEW q \in Req, q \in batch
      PROVE  /\ state[q] = "d_decode" /\ state'[q] = IF q \in ending THEN "complete" ELSE "d_decode"
             /\ generated'[q] = generated[q] + 1 /\ handoffDone[q] /\ left[q] = 0
             /\ 0 < generated[q] /\ generated[q] < output[q]
             /\ generated[q] \in Nat /\ output[q] \in Nat
             /\ q \in ending <=> generated[q] + 1 = output[q]
  <2>1. state[q] = "d_decode"
      BY <1>5, WhereItIs
  <2>2. handoffDone[q] /\ left[q] = 0
      BY <1>0, <2>1 DEF HandoffOnce
  <2>3. 0 < generated[q] /\ generated[q] < output[q]
      BY <1>0, <2>1 DEF RequestProgress
  <2>4. generated[q] \in Nat /\ output[q] \in Nat
      BY <1>0, ParametersOK DEF TypeOK
  <2>5. q \in ending <=> generated[q] + 1 = output[q]
      BY <1>5 DEF LastToken
  <2>6. state'[q] = (IF q \in ending THEN "complete" ELSE "d_decode")
        /\ generated'[q] = generated[q] + 1
      BY <1>1, <1>5, <2>1
  <2> QED
      BY <2>1, <2>2, <2>3, <2>4, <2>5, <2>6
<1>6. ASSUME NEW q \in Req, q \notin batch
      PROVE  state'[q] = state[q] /\ generated'[q] = generated[q] /\ q \notin ending
  <2>1. generated[q] \in Nat
      BY <1>0 DEF TypeOK
  <2>2. q \notin ending
      BY <1>6
  <2> HIDE DEF batch, ending
  <2>3. state'[q] = state[q]
      BY <1>1, <2>2
  <2>4. generated'[q] = generated[q] + 0
      BY <1>1, <1>6
  <2> QED
      BY <2>1, <2>2, <2>3, <2>4
<1> HIDE DEF batch, ending
<1>7. TypeOK'
  <2>1. state' \in [Req -> State]
      BY <1>0, <1>1 DEF TypeOK, State
  <2>2. generated' \in [Req -> Nat]
    <3>1. \A r \in Req : generated[r] + (IF r \in batch THEN 1 ELSE 0) \in Nat
        BY <1>0 DEF TypeOK
    <3> QED
        BY <1>1, <3>1
  <2>3. dWaiting' \in Seq(Req) /\ dBatch' \in Seq(Req)
    <3>1. dWaiting \in Seq(Req) /\ Only(dBatch, batch \ ending) \in Seq(Req)
        BY <1>0, <1>4 DEF TypeOK
    <3>2. dWaiting \o Only(dBatch, batch \ ending) \in Seq(Req)
        BY <3>1
    <3>3. <<>> \in Seq(Req)
        OBVIOUS
    <3> QED
        BY <1>1, <3>2, <3>3
  <2>4. completed' \subseteq Req /\ due' \subseteq Event
      BY <1>0, <1>1, <1>3 DEF TypeOK
  <2> QED
      BY <1>0, <1>2, <2>1, <2>2, <2>3, <2>4 DEF TypeOK
<1>8. OneQueue'
  <2> SUFFICES ASSUME NEW q \in Req
               PROVE  /\ Occurrences(q, pWaiting') + Occurrences(q, pBatch')
                             = (IF state'[q] = "p_prefill" THEN 1 ELSE 0)
                      /\ Occurrences(q, dWaiting') + Occurrences(q, dBatch')
                             = (IF state'[q] = "d_decode" THEN 1 ELSE 0)
      BY DEF OneQueue
  <2>1. Occurrences(q, dWaiting') = Occurrences(q, dWaiting)
                                      + Occurrences(q, Only(dBatch, batch \ ending))
    <3>1. dWaiting \in Seq(Req)
        BY <1>0 DEF TypeOK
    <3> QED
        BY <1>1, <1>4, <3>1, OccConcat
  <2>2. Occurrences(q, dBatch') = 0
      BY <1>1, OccEmpty
  <2>3. CASE q \in batch
    <3>1. Occurrences(q, dBatch) = 1 /\ Occurrences(q, dWaiting) = 0
        BY <2>3, WhereItIs DEF batch
    <3>2. Occurrences(q, pWaiting) + Occurrences(q, pBatch) = 0
        BY <1>5, <2>3, QueueSums
    <3>3. Occurrences(q, Only(dBatch, batch \ ending)) = IF q \in ending THEN 0 ELSE 1
        BY <1>4, <2>3, <3>1
    <3>4. Occurrences(q, dWaiting') = IF q \in ending THEN 0 ELSE 1
        BY <2>1, <3>1, <3>3
    <3>5. state'[q] = IF q \in ending THEN "complete" ELSE "d_decode"
        BY <1>5, <2>3
    <3> QED
        BY <1>2, <2>2, <3>2, <3>4, <3>5
  <2>4. CASE q \notin batch
    <3>1. Occurrences(q, dBatch) = 0
        BY <2>4, WhereItIs DEF batch
    <3>2. Occurrences(q, Only(dBatch, batch \ ending)) = 0
        BY <1>4, <2>4
    <3> QED
        BY <1>2, <1>6, <2>1, <2>2, <2>4, <3>1, <3>2, QueueSums
  <2> QED
      BY <2>3, <2>4
<1>9. HandoffOnce'
  <2> SUFFICES ASSUME NEW q \in Req
               PROVE  /\ Occurrences(<<"handoff", q>>, fabric') =
                             (IF /\ state'[q] \in {"handoff", "d_decode", "complete"}
                                 /\ NeededOnD(q)' /\ ~handoffDone'[q] THEN 1 ELSE 0)
                      /\ state'[q] = "d_decode" => handoffDone'[q]
                      /\ handoffDone'[q] => NeededOnD(q)' /\ left'[q] = 0
      BY DEF HandoffOnce
  <2>1. NeededOnD(q)' = NeededOnD(q)
      BY <1>2 DEF NeededOnD
  <2>2. /\ Occurrences(<<"handoff", q>>, fabric) =
               (IF /\ state[q] \in {"handoff", "d_decode", "complete"}
                   /\ NeededOnD(q) /\ ~handoffDone[q] THEN 1 ELSE 0)
        /\ state[q] = "d_decode" => handoffDone[q]
        /\ handoffDone[q] => NeededOnD(q) /\ left[q] = 0
      BY <1>0 DEF HandoffOnce
  <2>3. CASE q \in batch
      BY <1>2, <1>5, <2>1, <2>2, <2>3
  <2>4. CASE q \notin batch
      BY <1>2, <1>6, <2>1, <2>2, <2>4
  <2> QED
      BY <2>3, <2>4
<1>10. RequestProgress'
  <2> SUFFICES ASSUME NEW q \in Req
               PROVE  /\ chunk'[q] <= left'[q]
                      /\ state'[q] = "waiting_p" => generated'[q] = 0 /\ ~handoffDone'[q]
                      /\ state'[q] = "p_prefill" => generated'[q] = 0 /\ left'[q] > 0
                      /\ state'[q] \in {"handoff", "d_decode", "complete"} => left'[q] = 0
                      /\ state'[q] = "handoff" => /\ generated'[q] = 1 /\ output'[q] > 1
                                                  /\ ~handoffDone'[q]
                      /\ state'[q] = "d_decode" => 0 < generated'[q] /\ generated'[q] < output'[q]
                      /\ state'[q] = "complete" => /\ generated'[q] = output'[q]
                                                   /\ output'[q] > 1 => handoffDone'[q]
      BY DEF RequestProgress
  <2>1. chunk[q] <= left[q]
      BY <1>0 DEF RequestProgress
  <2>2. CASE q \in batch
    <3>1. CASE q \in ending
      <4>1. state'[q] = "complete" /\ generated'[q] = output[q]
          BY <1>5, <2>2, <3>1
      <4> QED
          BY <1>2, <1>5, <2>1, <2>2, <4>1
    <3>2. CASE q \notin ending
      <4>1. state'[q] = "d_decode" /\ 0 < generated'[q] /\ generated'[q] < output[q]
          BY <1>5, <2>2, <3>2
      <4> QED
          BY <1>2, <1>5, <2>1, <2>2, <4>1
    <3> QED
        BY <3>1, <3>2
  <2>3. CASE q \notin batch
      BY <1>0, <1>2, <1>6, <2>3 DEF RequestProgress
  <2> QED
      BY <2>2, <2>3
<1>11. WithinLimits'
  <2>1. Len(dBatch') <= Least(DMaxSeqs, MaxTokens)
    <3>1. Len(<<>>) = 0
        OBVIOUS
    <3>2. 0 <= Least(DMaxSeqs, MaxTokens)
        BY ParametersOK DEF Least
    <3> QED
        BY <1>1, <3>1, <3>2
  <2> QED
      BY <1>0, <1>2, <2>1 DEF WithinLimits
<1>12. EventsHaveCauses' /\ NeverIdleWithWork'
    BY <1>0, <1>1, <1>2 DEF EventsHaveCauses, NeverIdleWithWork
<1> QED
    BY <1>7, <1>8, <1>9, <1>10, <1>11, <1>12 DEF PoolInv

\* What the fabric and the node around the pool do to the pool without touching
\* a request: copies to P start and end, and calls ask for a flush.
LEMMA PrepareStep ==
    ASSUME PoolInv,
           UNCHANGED <<output, successor, state, left, covered, chunk, generated, handoffDone,
                       pWaiting, dWaiting, pBatch, dBatch, held, launch, holds,
                       handedOff, completed>>,
           fabric' \in Seq(Job),
           \A r \in Req : Occurrences(<<"handoff", r>>, fabric')
                              = Occurrences(<<"handoff", r>>, fabric),
           due' \subseteq due, "fabric" \in due' => fabric' # <<>>,
           open' \in BOOLEAN, open => open'
    PROVE  PoolInv'
<1>1. TypeOK'
    BY DEF PoolInv, TypeOK
<1>2. RequestProgress' /\ OneQueue' /\ WithinLimits'
    BY DEF PoolInv, RequestProgress, OneQueue, WithinLimits
<1>3. HandoffOnce'
  <2> SUFFICES ASSUME NEW q \in Req
               PROVE  /\ Occurrences(<<"handoff", q>>, fabric') =
                             (IF /\ state'[q] \in {"handoff", "d_decode", "complete"}
                                 /\ NeededOnD(q)' /\ ~handoffDone'[q] THEN 1 ELSE 0)
                      /\ state'[q] = "d_decode" => handoffDone'[q]
                      /\ handoffDone'[q] => NeededOnD(q)' /\ left'[q] = 0
      BY DEF HandoffOnce
  <2>1. NeededOnD(q)' = NeededOnD(q)
      BY DEF NeededOnD
  <2> QED
      BY <2>1 DEF PoolInv, HandoffOnce
<1>4. EventsHaveCauses' /\ NeverIdleWithWork'
    BY DEF PoolInv, EventsHaveCauses, NeverIdleWithWork
<1> QED
    BY <1>1, <1>2, <1>3, <1>4 DEF PoolInv

LEMMA PrepareStarts ==
    ASSUME PoolInv, NEW r \in Req, fabric' = Append(fabric, <<"prepare", r>>),
           UNCHANGED <<output, successor, state, left, covered, chunk, generated, handoffDone,
                       pWaiting, dWaiting, pBatch, dBatch, held, launch, holds, due, open,
                       handedOff, completed>>
    PROVE  PoolInv'
<1>1. fabric \in Seq(Job) /\ <<"prepare", r>> \in Job /\ open \in BOOLEAN
    BY DEF PoolInv, TypeOK, Job
<1>2. ASSUME NEW q \in Req
      PROVE  Occurrences(<<"handoff", q>>, fabric') = Occurrences(<<"handoff", q>>, fabric)
  <2>1. Occurrences(<<"handoff", q>>, fabric')
            = Occurrences(<<"handoff", q>>, fabric)
                + (IF <<"handoff", q>> = <<"prepare", r>> THEN 1 ELSE 0)
      BY <1>1, OccAppend
  <2>2. Occurrences(<<"handoff", q>>, fabric) \in Nat
      BY <1>1, OccType
  <2>3. <<"handoff", q>> # <<"prepare", r>>
      OBVIOUS
  <2> QED
      BY <2>1, <2>2, <2>3
<1>3. fabric' \in Seq(Job) /\ fabric' # <<>>
    BY <1>1
<1> QED
    BY <1>1, <1>2, <1>3, PrepareStep

LEMMA PrepareEnds ==
    ASSUME PoolInv, FabricEnds("prepare"),
           UNCHANGED <<output, successor, state, left, covered, chunk, generated, handoffDone,
                       pWaiting, dWaiting, pBatch, dBatch, held, launch, holds, open,
                       handedOff, completed>>
    PROVE  PoolInv' /\ Head(fabric)[2] \in Req
<1>1. /\ "fabric" \in due /\ fabric' = Tail(fabric) /\ due' = due \ {"fabric"}
      /\ Head(fabric)[1] = "prepare"
    BY DEF FabricEnds
<1>2. fabric \in Seq(Job) /\ fabric # <<>> /\ open \in BOOLEAN
    BY <1>1 DEF PoolInv, TypeOK, EventsHaveCauses
<1>3. /\ Head(fabric) \in Job /\ fabric' \in Seq(Job)
      /\ \A x : Occurrences(x, fabric)
                    = (IF x = Head(fabric) THEN 1 ELSE 0) + Occurrences(x, fabric')
    BY <1>1, <1>2, OccTail
<1>4. ASSUME NEW q \in Req
      PROVE  Occurrences(<<"handoff", q>>, fabric') = Occurrences(<<"handoff", q>>, fabric)
  <2>1. <<"handoff", q>> # Head(fabric)
      BY <1>1
  <2>2. Occurrences(<<"handoff", q>>, fabric') \in Nat
      BY <1>3, OccType
  <2> QED
      BY <1>3, <2>1, <2>2
<1>5. PoolInv'
    BY <1>1, <1>2, <1>3, <1>4, PrepareStep
<1> QED
    BY <1>3, <1>5 DEF Job

\* The handoff at the head of the fabric is of a request whose prompt is done
\* and which is not being decoded yet.
LEMMA HandoffInFlight ==
    ASSUME PoolInv, FinishHandoff
    PROVE  LET r == Head(fabric)[2] IN
           /\ fabric # <<>> /\ r \in Req /\ Head(fabric) = <<"handoff", r>>
           /\ fabric' \in Seq(Job)
           /\ \A x : Occurrences(x, fabric)
                         = (IF x = Head(fabric) THEN 1 ELSE 0) + Occurrences(x, fabric')
           /\ \A x : Occurrences(x, fabric') \in Nat
           /\ state[r] \in {"handoff", "d_decode", "complete"} /\ NeededOnD(r) /\ ~handoffDone[r]
           /\ Occurrences(<<"handoff", r>>, fabric') = 0
           /\ state[r] # "d_decode" /\ left[r] = 0
           /\ output[r] > 1 => state[r] = "handoff" /\ generated[r] = 1
<1> DEFINE r == Head(fabric)[2]
<1>0. /\ TypeOK /\ RequestProgress /\ EventsHaveCauses /\ HandoffOnce
    BY DEF PoolInv
<1>1. "fabric" \in due /\ fabric' = Tail(fabric) /\ Head(fabric)[1] = "handoff"
    BY DEF FinishHandoff, FabricEnds
<1>3. fabric \in Seq(Job) /\ fabric # <<>>
    BY <1>0, <1>1 DEF TypeOK, EventsHaveCauses
<1>4. /\ Head(fabric) \in Job /\ fabric' \in Seq(Job)
      /\ \A x : Occurrences(x, fabric)
                    = (IF x = Head(fabric) THEN 1 ELSE 0) + Occurrences(x, fabric')
      /\ \A x : Occurrences(x, fabric') \in Nat
  <2>1. /\ Head(fabric) \in Job /\ fabric' \in Seq(Job)
        /\ \A x : Occurrences(x, fabric)
                    = (IF x = Head(fabric) THEN 1 ELSE 0) + Occurrences(x, fabric')
      BY <1>1, <1>3, OccTail
  <2> QED
      BY <2>1, OccType
<1>5. r \in Req /\ Head(fabric) = <<"handoff", r>>
  <2>1. \A j \in Job : j = <<j[1], j[2]>> /\ j[2] \in Req
      BY DEF Job
  <2> QED
      BY <1>1, <1>4, <2>1
<1> HIDE DEF r
<1>6. /\ state[r] \in {"handoff", "d_decode", "complete"} /\ NeededOnD(r) /\ ~handoffDone[r]
      /\ Occurrences(<<"handoff", r>>, fabric') = 0
  <2>1. Occurrences(<<"handoff", r>>, fabric) = 1 + Occurrences(<<"handoff", r>>, fabric')
      BY <1>4, <1>5
  <2>2. Occurrences(<<"handoff", r>>, fabric) =
               (IF /\ state[r] \in {"handoff", "d_decode", "complete"}
                   /\ NeededOnD(r) /\ ~handoffDone[r] THEN 1 ELSE 0)
      BY <1>0, <1>5 DEF HandoffOnce
  <2>3. Occurrences(<<"handoff", r>>, fabric') \in Nat
      BY <1>4
  <2> QED
      BY <2>1, <2>2, <2>3
<1>7. /\ state[r] # "d_decode" /\ left[r] = 0
      /\ output[r] > 1 => state[r] = "handoff" /\ generated[r] = 1
  <2>1. state[r] # "d_decode"
      BY <1>0, <1>5, <1>6 DEF HandoffOnce
  <2>2. left[r] = 0 /\ (state[r] = "handoff" => generated[r] = 1)
        /\ (state[r] = "complete" /\ output[r] > 1 => handoffDone[r])
      BY <1>0, <1>5, <1>6 DEF RequestProgress
  <2> QED
      BY <1>6, <2>1, <2>2
<1> QED
    BY <1>3, <1>4, <1>5, <1>6, <1>7 DEF r

\* The handoff at the head of the fabric arrives: its request, if it decodes,
\* was waiting for it in no queue.
LEMMA FinishHandoffStep ==
    ASSUME PoolInv, FinishHandoff
    PROVE  PoolInv'
<1> DEFINE r == Head(fabric)[2]
<1>0. /\ TypeOK /\ RequestProgress /\ EventsHaveCauses
      /\ OneQueue /\ HandoffOnce /\ WithinLimits /\ NeverIdleWithWork
    BY DEF PoolInv
<1>1. /\ "fabric" \in due /\ fabric' = Tail(fabric) /\ due' = due \ {"fabric"}
      /\ Head(fabric)[1] = "handoff"
      /\ handoffDone' = [handoffDone EXCEPT ![r] = TRUE]
      /\ handedOff' = handedOff \cup {r}
      /\ IF output[r] > 1
         THEN state' = [state EXCEPT ![r] = "d_decode"] /\ dWaiting' = Append(dWaiting, r)
         ELSE UNCHANGED <<state, dWaiting>>
    BY DEF FinishHandoff, FabricEnds
<1>2. UNCHANGED <<output, successor, left, covered, chunk, generated, pWaiting, pBatch, dBatch,
                  held, launch, holds, open, completed>>
    BY DEF FinishHandoff, requestVars, tokenVars, modelVars
<1>3. /\ fabric # <<>> /\ r \in Req /\ Head(fabric) = <<"handoff", r>>
      /\ fabric' \in Seq(Job)
      /\ \A x : Occurrences(x, fabric)
                    = (IF x = Head(fabric) THEN 1 ELSE 0) + Occurrences(x, fabric')
      /\ \A x : Occurrences(x, fabric') \in Nat
      /\ state[r] \in {"handoff", "d_decode", "complete"} /\ NeededOnD(r) /\ ~handoffDone[r]
      /\ Occurrences(<<"handoff", r>>, fabric') = 0
      /\ state[r] # "d_decode" /\ left[r] = 0
      /\ output[r] > 1 => state[r] = "handoff" /\ generated[r] = 1
    BY HandoffInFlight
<1> HIDE DEF r
<1>4. r \in Req
    BY <1>3
<1>8. /\ state \in [Req -> State] /\ handoffDone \in [Req -> BOOLEAN] /\ dWaiting \in Seq(Req)
      /\ state' \in [Req -> State] /\ handoffDone' \in [Req -> BOOLEAN] /\ dWaiting' \in Seq(Req)
  <2>1. state \in [Req -> State] /\ handoffDone \in [Req -> BOOLEAN] /\ dWaiting \in Seq(Req)
      BY <1>0 DEF TypeOK
  <2>2. handoffDone' \in [Req -> BOOLEAN]
      BY <1>1, <1>3, <2>1
  <2>3. CASE output[r] > 1
    <3>1. state' \in [Req -> State]
        BY <1>1, <1>3, <2>1, <2>3 DEF State
    <3>2. dWaiting' \in Seq(Req)
        BY <1>1, <1>4, <2>1, <2>3
    <3> QED
        BY <2>1, <2>2, <3>1, <3>2
  <2>4. CASE ~(output[r] > 1)
      BY <1>1, <2>1, <2>2, <2>4
  <2> QED
      BY <2>3, <2>4
<1>9. \A q \in Req : /\ handoffDone'[q] = (handoffDone[q] \/ q = r)
                     /\ q # r => state'[q] = state[q]
    BY <1>1, <1>8
<1>10. state'[r] = IF output[r] > 1 THEN "d_decode" ELSE state[r]
    BY <1>1, <1>3, <1>8
<1>11. TypeOK'
  <2>1. handedOff' \subseteq Req /\ due' \subseteq Event
      BY <1>0, <1>1, <1>3 DEF TypeOK
  <2> QED
      BY <1>0, <1>2, <1>3, <1>8, <2>1 DEF TypeOK
<1>12. OneQueue'
  <2> SUFFICES ASSUME NEW q \in Req
               PROVE  /\ Occurrences(q, pWaiting') + Occurrences(q, pBatch')
                             = (IF state'[q] = "p_prefill" THEN 1 ELSE 0)
                      /\ Occurrences(q, dWaiting') + Occurrences(q, dBatch')
                             = (IF state'[q] = "d_decode" THEN 1 ELSE 0)
      BY DEF OneQueue
  <2>1. CASE q = r /\ output[r] > 1
    <3>1. Occurrences(q, dWaiting') = Occurrences(q, dWaiting) + 1
        BY <1>1, <1>4, <1>8, <2>1, OccAppend, ZenonT(30)
    <3>2. state[q] = "handoff" /\ state'[q] = "d_decode"
        BY <1>3, <1>10, <2>1
    <3> QED
        BY <1>2, <3>1, <3>2, QueueSums
  <2>2. CASE ~(q = r /\ output[r] > 1)
    <3>1. Occurrences(q, dWaiting') = Occurrences(q, dWaiting)
      <4>1. CASE output[r] > 1
        <5>1. dWaiting' = Append(dWaiting, r) /\ q # r
            BY <1>1, <2>2, <4>1
        <5>2. Occurrences(q, Append(dWaiting, r))
                  = Occurrences(q, dWaiting) + (IF q = r THEN 1 ELSE 0)
            BY <1>3, <1>8, OccAppend
        <5>3. Occurrences(q, dWaiting) \in Nat
            BY QueueSums
        <5> QED
            BY <5>1, <5>2, <5>3
      <4>2. CASE ~(output[r] > 1)
          BY <1>1, <4>2
      <4> QED
          BY <4>1, <4>2
    <3>2. state'[q] = state[q]
        BY <1>9, <1>10, <2>2
    <3> QED
        BY <1>2, <3>1, <3>2, QueueSums
  <2> QED
      BY <2>1, <2>2
<1>13. HandoffOnce'
  <2> SUFFICES ASSUME NEW q \in Req
               PROVE  /\ Occurrences(<<"handoff", q>>, fabric') =
                             (IF /\ state'[q] \in {"handoff", "d_decode", "complete"}
                                 /\ NeededOnD(q)' /\ ~handoffDone'[q] THEN 1 ELSE 0)
                      /\ state'[q] = "d_decode" => handoffDone'[q]
                      /\ handoffDone'[q] => NeededOnD(q)' /\ left'[q] = 0
      BY DEF HandoffOnce
  <2>1. NeededOnD(q)' = NeededOnD(q)
      BY <1>2 DEF NeededOnD
  <2>2. CASE q = r
      BY <1>2, <1>3, <1>9, <2>1, <2>2
  <2>3. CASE q # r
    <3>1. /\ Occurrences(<<"handoff", q>>, fabric) =
               (IF /\ state[q] \in {"handoff", "d_decode", "complete"}
                   /\ NeededOnD(q) /\ ~handoffDone[q] THEN 1 ELSE 0)
          /\ state[q] = "d_decode" => handoffDone[q]
          /\ handoffDone[q] => NeededOnD(q) /\ left[q] = 0
        BY <1>0 DEF HandoffOnce
    <3>2. Occurrences(<<"handoff", q>>, fabric') = Occurrences(<<"handoff", q>>, fabric)
      <4>1. <<"handoff", q>> # Head(fabric)
          BY <1>3, <2>3
      <4>2. Occurrences(<<"handoff", q>>, fabric') \in Nat
          BY <1>3
      <4> QED
          BY <1>3, <4>1, <4>2
    <3>3. state'[q] = state[q] /\ handoffDone'[q] = handoffDone[q]
      <4>1. handoffDone[q] \in BOOLEAN
          BY <1>8
      <4> QED
          BY <1>9, <2>3, <4>1
    <3> QED
        BY <1>2, <2>1, <3>1, <3>2, <3>3
  <2> QED
      BY <2>2, <2>3
<1>14. RequestProgress'
  <2> SUFFICES ASSUME NEW q \in Req
               PROVE  /\ chunk'[q] <= left'[q]
                      /\ state'[q] = "waiting_p" => generated'[q] = 0 /\ ~handoffDone'[q]
                      /\ state'[q] = "p_prefill" => generated'[q] = 0 /\ left'[q] > 0
                      /\ state'[q] \in {"handoff", "d_decode", "complete"} => left'[q] = 0
                      /\ state'[q] = "handoff" => /\ generated'[q] = 1 /\ output'[q] > 1
                                                  /\ ~handoffDone'[q]
                      /\ state'[q] = "d_decode" => 0 < generated'[q] /\ generated'[q] < output'[q]
                      /\ state'[q] = "complete" => /\ generated'[q] = output'[q]
                                                   /\ output'[q] > 1 => handoffDone'[q]
      BY DEF RequestProgress
  <2>1. CASE q = r /\ output[r] > 1
    <3>1. state'[q] = "d_decode" /\ generated[q] = 1 /\ left[q] = 0
        BY <1>3, <1>10, <2>1
    <3>2. chunk[q] <= left[q]
        BY <1>0 DEF RequestProgress
    <3> QED
        BY <1>2, <2>1, <3>1, <3>2
  <2>2. CASE ~(q = r /\ output[r] > 1)
    <3>1. state'[q] = state[q] /\ (handoffDone[q] => handoffDone'[q])
          /\ (state[q] \in {"waiting_p", "handoff"} => handoffDone'[q] = handoffDone[q])
      <4>1. q = r => state[q] \notin {"waiting_p", "handoff"}
        <5>1. state[r] = "handoff" => output[r] > 1
            BY <1>0, <1>3 DEF RequestProgress
        <5> QED
            BY <1>3, <2>2, <5>1
      <4>2. handoffDone[q] \in BOOLEAN
          BY <1>8
      <4> QED
          BY <1>9, <1>10, <2>2, <4>1, <4>2
    <3> QED
        BY <1>0, <1>2, <3>1 DEF RequestProgress
  <2> QED
      BY <2>1, <2>2
<1>15. WithinLimits'
    BY <1>0, <1>2 DEF WithinLimits
<1>16. EventsHaveCauses' /\ NeverIdleWithWork'
    BY <1>0, <1>1, <1>2 DEF EventsHaveCauses, NeverIdleWithWork
<1> QED
    BY <1>11, <1>12, <1>13, <1>14, <1>15, <1>16 DEF PoolInv
\* Launches become possible and reservations come and go, which moves nothing.
LEMMA ModelStep ==
    ASSUME PoolInv,
           FinishLaunches \/ \E s \in Stage : Hold(s) \/ Unhold(s)
    PROVE  PoolInv'
<1>0. /\ TypeOK /\ EventsHaveCauses /\ NeverIdleWithWork
    BY DEF PoolInv
<1>1. UNCHANGED <<output, successor, state, left, covered, chunk, generated, handoffDone,
                  pWaiting, dWaiting, pBatch, dBatch, fabric, open, handedOff, completed>>
    BY DEF FinishLaunches, Hold, Unhold, requestVars, tokenVars, workerVars
<1>2. /\ held' \subseteq Stage /\ launch' \subseteq Stage /\ holds' \in 0..MaxHolds
      /\ due' \subseteq Event /\ (due' = {} \/ due' = due)
      /\ launch' \subseteq held' \cap launch /\ (~open => launch' = launch)
  <2>0. held \subseteq Stage /\ launch \subseteq held /\ launch \subseteq Stage
        /\ holds \in 0..MaxHolds /\ due \subseteq Event
      BY <1>0 DEF TypeOK, NeverIdleWithWork, Stage
  <2>1. CASE FinishLaunches
      BY <1>0, <2>0, <2>1 DEF FinishLaunches, EventsHaveCauses
  <2>2. ASSUME NEW s \in Stage, Hold(s)
        PROVE  /\ held' \subseteq Stage /\ launch' \subseteq Stage /\ holds' \in 0..MaxHolds
               /\ due' \subseteq Event /\ (due' = {} \/ due' = due)
               /\ launch' \subseteq held' \cap launch /\ (~open => launch' = launch)
    <3>1. holds + 1 \in 0..MaxHolds
        BY <2>0, <2>2, ParametersOK DEF Hold
    <3> QED
        BY <2>0, <2>2, <3>1 DEF Hold
  <2>3. ASSUME NEW s \in Stage, Unhold(s)
        PROVE  /\ held' \subseteq Stage /\ launch' \subseteq Stage /\ holds' \in 0..MaxHolds
               /\ due' \subseteq Event /\ (due' = {} \/ due' = due)
               /\ launch' \subseteq held' \cap launch /\ (~open => launch' = launch)
      BY <2>0, <2>3 DEF Unhold
  <2> QED
      BY <2>1, <2>2, <2>3
<1>3. TypeOK'
    BY <1>0, <1>1, <1>2 DEF TypeOK
<1>4. RequestProgress' /\ OneQueue' /\ WithinLimits'
    BY <1>1 DEF PoolInv, RequestProgress, OneQueue, WithinLimits
<1>5. HandoffOnce'
    BY <1>1 DEF PoolInv, HandoffOnce, NeededOnD
<1>6. EventsHaveCauses' /\ NeverIdleWithWork'
    BY <1>0, <1>1, <1>2 DEF EventsHaveCauses, NeverIdleWithWork
<1> QED
    BY <1>3, <1>4, <1>5, <1>6 DEF PoolInv

\* Reading a notification changes nothing else.
LEMMA PopStep ==
    ASSUME PoolInv, NEW r \in Req, PopHandoffCompleted(r) \/ PopCompleted(r)
    PROVE  PoolInv'
<1>1. /\ handedOff' \subseteq handedOff /\ completed' \subseteq completed
      /\ UNCHANGED <<output, successor, state, left, covered, chunk, generated, handoffDone,
                     pWaiting, dWaiting, pBatch, dBatch, fabric, held, launch, holds,
                     due, open>>
    BY DEF PopHandoffCompleted, PopCompleted, requestVars, tokenVars, workerVars, modelVars
<1>2. TypeOK'
    BY <1>1 DEF PoolInv, TypeOK
<1>3. RequestProgress' /\ OneQueue' /\ WithinLimits'
    BY <1>1 DEF PoolInv, RequestProgress, OneQueue, WithinLimits
<1>4. HandoffOnce'
    BY <1>1 DEF PoolInv, HandoffOnce, NeededOnD
<1>5. EventsHaveCauses' /\ NeverIdleWithWork'
    BY <1>1 DEF PoolInv, EventsHaveCauses, NeverIdleWithWork
<1> QED
    BY <1>2, <1>3, <1>4, <1>5 DEF PoolInv

\* What the end of a prefill batch does to a request.
LEMMA PrefillOutcome ==
    ASSUME PoolInv, FinishPBatch, NEW q \in Req
    PROVE  LET batch == ElementsOf(pBatch) IN
           /\ q \notin batch =>
                  /\ state'[q] = state[q] /\ left'[q] = left[q]
                  /\ generated'[q] = generated[q] /\ handoffDone'[q] = handoffDone[q]
           /\ q \in batch =>
                  /\ state[q] = "p_prefill" /\ ~handoffDone[q]
                  /\ generated[q] = 0
                  /\ ~Prefilled(q) => /\ state'[q] = "p_prefill" /\ left'[q] > 0
                                      /\ generated'[q] = 0 /\ ~handoffDone'[q]
                  /\ Prefilled(q) => /\ left'[q] = 0 /\ generated'[q] = 1
                                     /\ handoffDone'[q] = HandsOverAtOnce(q)
                                     /\ state'[q] = IF output[q] = 1 THEN "complete"
                                                    ELSE IF HandsOverAtOnce(q) THEN "d_decode"
                                                    ELSE "handoff"
<1> DEFINE batch  == ElementsOf(pBatch)
           first  == {r \in batch : Prefilled(r)}
           atOnce == {r \in batch : HandsOverAtOnce(r)}
<1>0. /\ TypeOK /\ RequestProgress /\ HandoffOnce
    BY DEF PoolInv
<1>1. /\ left' = [r \in Req |-> left[r] - (IF r \in batch THEN chunk[r] ELSE 0)]
      /\ generated' = [r \in Req |-> IF r \in first THEN 1 ELSE generated[r]]
      /\ state' = [r \in Req |->
                  IF r \notin first THEN state[r]
                  ELSE IF output[r] = 1 THEN "complete"
                  ELSE IF r \in atOnce THEN "d_decode" ELSE "handoff"]
      /\ handoffDone' = [r \in Req |-> handoffDone[r] \/ r \in atOnce]
    BY DEF FinishPBatch
<1>2. left[q] \in Nat /\ chunk[q] \in Nat /\ chunk[q] <= left[q] /\ handoffDone[q] \in BOOLEAN
    BY <1>0, ParametersOK DEF TypeOK, RequestProgress
<1>3. q \in first <=> q \in batch /\ Prefilled(q)
    OBVIOUS
<1>4. q \in atOnce <=> q \in batch /\ HandsOverAtOnce(q)
    OBVIOUS
<1> HIDE DEF batch, first, atOnce
<1>5. /\ left'[q] = left[q] - (IF q \in batch THEN chunk[q] ELSE 0)
      /\ generated'[q] = IF q \in first THEN 1 ELSE generated[q]
      /\ state'[q] = IF q \notin first THEN state[q]
                     ELSE IF output[q] = 1 THEN "complete"
                     ELSE IF q \in atOnce THEN "d_decode" ELSE "handoff"
      /\ handoffDone'[q] = (handoffDone[q] \/ q \in atOnce)
    BY <1>1
<1>6. ASSUME q \notin batch
      PROVE  /\ state'[q] = state[q] /\ left'[q] = left[q]
             /\ generated'[q] = generated[q] /\ handoffDone'[q] = handoffDone[q]
  <2>1. q \notin first /\ q \notin atOnce
      BY <1>3, <1>4, <1>6
  <2>2. left'[q] = left[q] - 0
      BY <1>5, <1>6
  <2>3. handoffDone'[q] = handoffDone[q]
      BY <1>2, <1>5, <2>1
  <2> QED
      BY <1>2, <1>5, <2>1, <2>2, <2>3
<1>7. ASSUME q \in batch
      PROVE  state[q] = "p_prefill" /\ generated[q] = 0 /\ left[q] > 0 /\ ~handoffDone[q]
  <2>1. state[q] = "p_prefill"
      BY <1>7, WhereItIs DEF batch
  <2>2. generated[q] = 0 /\ left[q] > 0
      BY <1>0, <2>1 DEF RequestProgress
  <2>3. ~handoffDone[q]
    <3>1. handoffDone[q] => left[q] = 0
        BY <1>0 DEF HandoffOnce
    <3> QED
        BY <1>2, <2>2, <3>1
  <2> QED
      BY <2>1, <2>2, <2>3
<1>8. ASSUME q \in batch, ~Prefilled(q)
      PROVE  state'[q] = "p_prefill" /\ left'[q] > 0 /\ generated'[q] = 0 /\ ~handoffDone'[q]
  <2>1. q \notin first /\ q \notin atOnce
      BY <1>3, <1>4, <1>8 DEF HandsOverAtOnce
  <2>2. left'[q] = left[q] - chunk[q] /\ left[q] # chunk[q]
      BY <1>5, <1>8 DEF Prefilled
  <2> QED
      BY <1>2, <1>5, <1>7, <1>8, <2>1, <2>2
<1>9. ASSUME q \in batch, Prefilled(q)
      PROVE  /\ left'[q] = 0 /\ generated'[q] = 1 /\ handoffDone'[q] = HandsOverAtOnce(q)
             /\ state'[q] = IF output[q] = 1 THEN "complete"
                            ELSE IF HandsOverAtOnce(q) THEN "d_decode" ELSE "handoff"
  <2>1. q \in first /\ (q \in atOnce <=> HandsOverAtOnce(q))
      BY <1>3, <1>4, <1>9
  <2>2. left'[q] = left[q] - chunk[q] /\ left[q] = chunk[q]
      BY <1>5, <1>9 DEF Prefilled
  <2>3. handoffDone'[q] = HandsOverAtOnce(q)
    <3>1. HandsOverAtOnce(q) \in BOOLEAN /\ (q \in atOnce) \in BOOLEAN
        BY DEF HandsOverAtOnce
    <3>2. (q \in atOnce) = HandsOverAtOnce(q)
        BY <2>1, <3>1
    <3>3. handoffDone'[q] = (q \in atOnce)
        BY <1>5, <1>7, <1>9
    <3> QED
        BY <3>2, <3>3
  <2> QED
      BY <1>2, <1>5, <2>1, <2>2, <2>3
<1> QED
    BY <1>6, <1>7, <1>8, <1>9 DEF batch
\* Where the members of a prefill batch go: back to the P queue, to the fabric,
\* or, with nothing to carry, to the D queue.
LEMMA PrefillMoves ==
    ASSUME PoolInv, FinishPBatch
    PROVE  /\ pWaiting' \in Seq(Req) /\ dWaiting' \in Seq(Req) /\ fabric' \in Seq(Job)
           /\ fabric # <<>> => fabric' # <<>>
           /\ \A q \in Req :
                  LET batch == ElementsOf(pBatch) IN
                  /\ Occurrences(q, pWaiting') = Occurrences(q, pWaiting)
                         + (IF q \in batch /\ ~Prefilled(q) THEN 1 ELSE 0)
                  /\ Occurrences(q, dWaiting') = Occurrences(q, dWaiting)
                         + (IF q \in batch /\ HandsOverAtOnce(q) /\ output[q] > 1 THEN 1 ELSE 0)
                  /\ Occurrences(<<"handoff", q>>, fabric') = Occurrences(<<"handoff", q>>, fabric)
                         + (IF /\ q \in batch /\ Prefilled(q) /\ NeedsHandoff(q)
                               /\ ~HandsOverAtOnce(q) THEN 1 ELSE 0)
                  /\ Occurrences(<<"prepare", q>>, fabric') = Occurrences(<<"prepare", q>>, fabric)
<1> DEFINE batch  == ElementsOf(pBatch)
           first  == {r \in batch : Prefilled(r)}
           atOnce == {r \in batch : HandsOverAtOnce(r)}
           toHand == {r \in first : NeedsHandoff(r)} \ atOnce
           queued == Only(pBatch, toHand)
           jobs   == [i \in DOMAIN queued |-> <<"handoff", queued[i]>>]
           again  == Only(pBatch, batch \ first)
           decode == {r \in atOnce : output[r] > 1}
           ready  == Only(pBatch, decode)
<1>1. /\ fabric' = fabric \o jobs
      /\ pWaiting' = pWaiting \o again
      /\ dWaiting' = dWaiting \o ready
    BY DEF FinishPBatch
<1>2. /\ pBatch \in Seq(Req) /\ pWaiting \in Seq(Req) /\ dWaiting \in Seq(Req)
      /\ fabric \in Seq(Job)
    BY DEF PoolInv, TypeOK
<1>3. /\ queued \in Seq(Req)
      /\ \A x : Occurrences(x, queued) = IF x \in toHand THEN Occurrences(x, pBatch) ELSE 0
  <2> HIDE DEF toHand
  <2> QED
      BY <1>2, OnlyFacts
<1>4. /\ again \in Seq(Req)
      /\ \A x : Occurrences(x, again) = IF x \in batch \ first THEN Occurrences(x, pBatch) ELSE 0
  <2> HIDE DEF batch, first
  <2> QED
      BY <1>2, OnlyFacts
<1>5. /\ ready \in Seq(Req)
      /\ \A x : Occurrences(x, ready) = IF x \in decode THEN Occurrences(x, pBatch) ELSE 0
  <2> HIDE DEF decode
  <2> QED
      BY <1>2, OnlyFacts
<1>6. /\ jobs \in Seq(Job)
      /\ \A x : /\ Occurrences(<<"handoff", x>>, jobs) = Occurrences(x, queued)
               /\ Occurrences(<<"prepare", x>>, jobs) = 0
  <2> HIDE DEF queued
  <2>1. "handoff" \in {"handoff", "prepare"} /\ "prepare" # "handoff"
      OBVIOUS
  <2>2. LET u == [i \in DOMAIN queued |-> <<"handoff", queued[i]>>]
        IN  /\ u \in Seq({"handoff", "prepare"} \X Req)
            /\ \A x : Occurrences(<<"handoff", x>>, u) = Occurrences(x, queued)
            /\ \A j, x : j # "handoff" => Occurrences(<<j, x>>, u) = 0
      BY <1>3, <2>1, OccTagged
  <2>3. \A x : Occurrences(<<"prepare", x>>, jobs) = 0
      BY <2>1, <2>2
  <2> QED
      BY <2>2, <2>3 DEF Job
<1>7. \A q \in batch : Occurrences(q, pBatch) = 1
    BY WhereItIs
<1>8. \A q : /\ q \in toHand <=> /\ q \in batch /\ Prefilled(q) /\ NeedsHandoff(q)
                                 /\ ~HandsOverAtOnce(q)
             /\ q \in batch \ first <=> q \in batch /\ ~Prefilled(q)
             /\ q \in decode <=> q \in batch /\ HandsOverAtOnce(q) /\ output[q] > 1
    OBVIOUS
<1>9. toHand \subseteq batch /\ decode \subseteq batch
    OBVIOUS
<1> HIDE DEF batch, first, atOnce, toHand, queued, jobs, again, decode, ready
<1>10. pWaiting' \in Seq(Req) /\ dWaiting' \in Seq(Req) /\ fabric' \in Seq(Job)
    BY <1>1, <1>2, <1>4, <1>5, <1>6
<1>11. fabric # <<>> => fabric' # <<>>
    BY <1>1, <1>2, <1>6
<1>12. ASSUME NEW q \in Req
       PROVE  /\ Occurrences(q, pWaiting') = Occurrences(q, pWaiting)
                     + (IF q \in batch /\ ~Prefilled(q) THEN 1 ELSE 0)
              /\ Occurrences(q, dWaiting') = Occurrences(q, dWaiting)
                     + (IF q \in batch /\ HandsOverAtOnce(q) /\ output[q] > 1 THEN 1 ELSE 0)
              /\ Occurrences(<<"handoff", q>>, fabric') = Occurrences(<<"handoff", q>>, fabric)
                     + (IF /\ q \in batch /\ Prefilled(q) /\ NeedsHandoff(q)
                           /\ ~HandsOverAtOnce(q) THEN 1 ELSE 0)
  <2>1. /\ Occurrences(q, pWaiting') = Occurrences(q, pWaiting) + Occurrences(q, again)
        /\ Occurrences(q, dWaiting') = Occurrences(q, dWaiting) + Occurrences(q, ready)
      BY <1>1, <1>2, <1>4, <1>5, OccConcat
  <2>2. Occurrences(<<"handoff", q>>, fabric') = Occurrences(<<"handoff", q>>, fabric)
                                                   + Occurrences(q, queued)
    <3>1. Occurrences(<<"handoff", q>>, fabric \o jobs)
              = Occurrences(<<"handoff", q>>, fabric) + Occurrences(<<"handoff", q>>, jobs)
        BY <1>2, <1>6, OccConcat
    <3> QED
        BY <1>1, <1>6, <3>1
  <2>3. Occurrences(q, again) = IF q \in batch /\ ~Prefilled(q) THEN 1 ELSE 0
      BY <1>4, <1>7, <1>8
  <2>4. Occurrences(q, ready) = IF q \in batch /\ HandsOverAtOnce(q) /\ output[q] > 1 THEN 1 ELSE 0
    <3>1. CASE q \in decode
        BY <1>5, <1>7, <1>8, <1>9, <3>1
    <3>2. CASE q \notin decode
        BY <1>5, <1>8, <3>2
    <3> QED
        BY <3>1, <3>2
  <2>5. Occurrences(q, queued) = IF /\ q \in batch /\ Prefilled(q) /\ NeedsHandoff(q)
                                    /\ ~HandsOverAtOnce(q) THEN 1 ELSE 0
    <3>1. CASE q \in toHand
        BY <1>3, <1>7, <1>8, <1>9, <3>1
    <3>2. CASE q \notin toHand
        BY <1>3, <1>8, <3>2
    <3> QED
        BY <3>1, <3>2
  <2> QED
      BY <2>1, <2>2, <2>3, <2>4, <2>5
<1>13. ASSUME NEW q \in Req
       PROVE  Occurrences(<<"prepare", q>>, fabric') = Occurrences(<<"prepare", q>>, fabric)
  <2>1. Occurrences(<<"prepare", q>>, fabric \o jobs)
            = Occurrences(<<"prepare", q>>, fabric) + Occurrences(<<"prepare", q>>, jobs)
      BY <1>2, <1>6, OccConcat
  <2>2. Occurrences(<<"prepare", q>>, fabric) \in Nat
      BY <1>2, OccType
  <2>3. Occurrences(<<"prepare", q>>, jobs) = 0
      BY <1>6
  <2> QED
      BY <1>1, <2>1, <2>2, <2>3
<1> QED
    BY <1>10, <1>11, <1>12, <1>13 DEF batch

\* A prefill batch leaves each member in the one place that its new state names.
LEMMA FinishPBatchStep ==
    ASSUME PoolInv, FinishPBatch
    PROVE  PoolInv'
<1> DEFINE batch == ElementsOf(pBatch)
<1>0. /\ TypeOK /\ RequestProgress /\ EventsHaveCauses
      /\ OneQueue /\ HandoffOnce /\ WithinLimits /\ NeverIdleWithWork
    BY DEF PoolInv
<1>1. /\ chunk' = [r \in Req |-> 0] /\ pBatch' = <<>> /\ due' = due \ {"p batch"}
      /\ "p batch" \in due
    BY DEF FinishPBatch
<1>2. UNCHANGED <<output, successor, covered, dBatch, held, launch, holds, open>>
    BY DEF FinishPBatch, requestVars, modelVars
<1>3. batch \subseteq Req
    BY WhereItIs
<1>4. \A q \in Req : output[q] \in Nat \ {0}
  <2>1. output \in [Req -> Outputs]
      BY <1>0 DEF TypeOK
  <2> QED
      BY <2>1, ParametersOK
<1>11. chunk' \in [Req -> 0..MaxChunk] /\ \A q \in Req : chunk'[q] = 0
  <2>1. chunk' = [r \in Req |-> 0]
      BY <1>1
  <2>2. 0 \in 0..MaxChunk
      BY ParametersOK
  <2> QED
      BY <2>1, <2>2
<1>12. Len(pBatch') = 0 /\ ElementsOf(pBatch') = {} /\ pBatch' \in Seq(Req)
  <2>1. Len(<<>>) = 0 /\ ElementsOf(<<>>) = {} /\ <<>> \in Seq(Req)
      BY DEF ElementsOf
  <2>2. pBatch' = <<>>
      BY <1>1
  <2> QED
      BY <2>1, <2>2
<1>5. TypeOK'
  <2>1. state' \in [Req -> State] /\ handoffDone' \in [Req -> BOOLEAN]
      BY <1>0 DEF FinishPBatch, TypeOK, State
  <2>2. generated' \in [Req -> Nat]
      BY <1>0 DEF FinishPBatch, TypeOK
  <2>3. left' \in [Req -> 0..MaxFresh]
    <3>1. \A r \in Req : left[r] - (IF r \in batch THEN chunk[r] ELSE 0) \in 0..MaxFresh
      <4> SUFFICES ASSUME NEW r \in Req
                   PROVE  left[r] - (IF r \in batch THEN chunk[r] ELSE 0) \in 0..MaxFresh
          OBVIOUS
      <4>1. left[r] \in 0..MaxFresh /\ chunk[r] \in 0..MaxChunk /\ chunk[r] <= left[r]
          BY <1>0 DEF TypeOK, RequestProgress
      <4> QED
          BY <4>1, ParametersOK
    <3>2. left' = [r \in Req |-> left[r] - (IF r \in batch THEN chunk[r] ELSE 0)]
        BY DEF FinishPBatch
    <3> HIDE DEF batch
    <3> QED
        BY <3>1, <3>2
  <2>4. chunk' \in [Req -> 0..MaxChunk]
      BY <1>11
  <2>5. pWaiting' \in Seq(Req) /\ dWaiting' \in Seq(Req) /\ fabric' \in Seq(Job)
      BY PrefillMoves
  <2>6. pBatch' \in Seq(Req)
      BY <1>12
  <2>7. handedOff' \subseteq Req /\ completed' \subseteq Req
      BY <1>0, <1>3 DEF FinishPBatch, TypeOK
  <2> QED
      BY <1>0, <1>1, <1>2, <2>1, <2>2, <2>3, <2>4, <2>5, <2>6, <2>7 DEF TypeOK
<1>6. OneQueue'
  <2> SUFFICES ASSUME NEW q \in Req
               PROVE  /\ Occurrences(q, pWaiting') + Occurrences(q, pBatch')
                             = (IF state'[q] = "p_prefill" THEN 1 ELSE 0)
                      /\ Occurrences(q, dWaiting') + Occurrences(q, dBatch')
                             = (IF state'[q] = "d_decode" THEN 1 ELSE 0)
      BY DEF OneQueue
  <2>1. Occurrences(q, pBatch') = 0
      BY <1>1, OccEmpty
  <2>2. /\ Occurrences(q, pWaiting') = Occurrences(q, pWaiting)
               + (IF q \in batch /\ ~Prefilled(q) THEN 1 ELSE 0)
        /\ Occurrences(q, dWaiting') = Occurrences(q, dWaiting)
               + (IF q \in batch /\ HandsOverAtOnce(q) /\ output[q] > 1 THEN 1 ELSE 0)
      BY PrefillMoves
  <2>3. CASE q \in batch
    <3>1. state[q] = "p_prefill" /\ Occurrences(q, pWaiting) = 0
        BY <2>3, WhereItIs
    <3>2. Occurrences(q, dWaiting) = 0 /\ Occurrences(q, dBatch) = 0
        BY <3>1, QueueSums
    <3>3. CASE ~Prefilled(q)
      <4>1. state'[q] = "p_prefill" /\ ~HandsOverAtOnce(q)
          BY <2>3, <3>3, PrefillOutcome DEF HandsOverAtOnce
      <4> QED
          BY <1>2, <2>1, <2>2, <2>3, <3>1, <3>2, <3>3, <4>1
    <3>4. CASE Prefilled(q)
      <4>1. state'[q] = IF output[q] = 1 THEN "complete"
                        ELSE IF HandsOverAtOnce(q) THEN "d_decode" ELSE "handoff"
          BY <2>3, <3>4, PrefillOutcome
      <4>2. output[q] > 1 <=> output[q] # 1
          BY <1>4
      <4> QED
          BY <1>2, <2>1, <2>2, <2>3, <3>1, <3>2, <3>4, <4>1, <4>2
    <3> QED
        BY <3>3, <3>4
  <2>4. CASE q \notin batch
    <3>1. state'[q] = state[q]
        BY <2>4, PrefillOutcome
    <3>2. Occurrences(q, pBatch) = 0
        BY <2>4, WhereItIs
    <3> QED
        BY <1>2, <2>1, <2>2, <2>4, <3>1, <3>2, QueueSums
  <2> QED
      BY <2>3, <2>4
<1>7. HandoffOnce'
  <2> SUFFICES ASSUME NEW q \in Req
               PROVE  /\ Occurrences(<<"handoff", q>>, fabric') =
                             (IF /\ state'[q] \in {"handoff", "d_decode", "complete"}
                                 /\ NeededOnD(q)' /\ ~handoffDone'[q] THEN 1 ELSE 0)
                      /\ state'[q] = "d_decode" => handoffDone'[q]
                      /\ handoffDone'[q] => NeededOnD(q)' /\ left'[q] = 0
      BY DEF HandoffOnce
  <2>1. NeededOnD(q)' = NeededOnD(q) /\ NeededOnD(q) = NeedsHandoff(q)
      BY <1>2 DEF NeededOnD, NeedsHandoff
  <2>2. Occurrences(<<"handoff", q>>, fabric') = Occurrences(<<"handoff", q>>, fabric)
             + (IF q \in batch /\ Prefilled(q) /\ NeedsHandoff(q) /\ ~HandsOverAtOnce(q)
                THEN 1 ELSE 0)
      BY PrefillMoves
  <2>3. /\ Occurrences(<<"handoff", q>>, fabric) =
               (IF /\ state[q] \in {"handoff", "d_decode", "complete"}
                   /\ NeededOnD(q) /\ ~handoffDone[q] THEN 1 ELSE 0)
        /\ state[q] = "d_decode" => handoffDone[q]
        /\ handoffDone[q] => NeededOnD(q) /\ left[q] = 0
      BY <1>0 DEF HandoffOnce
  <2>4. CASE q \in batch
    <3>1. state[q] = "p_prefill" /\ ~handoffDone[q]
        BY <2>4, PrefillOutcome
    <3>2. Occurrences(<<"handoff", q>>, fabric) = 0
        BY <2>3, <3>1
    <3>3. CASE ~Prefilled(q)
      <4>1. state'[q] = "p_prefill" /\ ~handoffDone'[q]
          BY <2>4, <3>3, PrefillOutcome
      <4> QED
          BY <2>2, <3>2, <3>3, <4>1
    <3>4. CASE Prefilled(q)
      <4>1. /\ left'[q] = 0 /\ handoffDone'[q] = HandsOverAtOnce(q)
            /\ state'[q] = IF output[q] = 1 THEN "complete"
                           ELSE IF HandsOverAtOnce(q) THEN "d_decode" ELSE "handoff"
          BY <2>4, <3>4, PrefillOutcome
      <4>2. HandsOverAtOnce(q) => NeedsHandoff(q)
          BY DEF HandsOverAtOnce
      <4> QED
          BY <2>1, <2>2, <2>4, <3>2, <3>4, <4>1, <4>2
    <3> QED
        BY <3>3, <3>4
  <2>5. CASE q \notin batch
    <3>1. state'[q] = state[q] /\ left'[q] = left[q] /\ handoffDone'[q] = handoffDone[q]
        BY <2>5, PrefillOutcome
    <3> QED
        BY <2>1, <2>2, <2>3, <2>5, <3>1
  <2> QED
      BY <2>4, <2>5
<1>8. RequestProgress'
  <2> SUFFICES ASSUME NEW q \in Req
               PROVE  /\ chunk'[q] <= left'[q]
                      /\ state'[q] = "waiting_p" => generated'[q] = 0 /\ ~handoffDone'[q]
                      /\ state'[q] = "p_prefill" => generated'[q] = 0 /\ left'[q] > 0
                      /\ state'[q] \in {"handoff", "d_decode", "complete"} => left'[q] = 0
                      /\ state'[q] = "handoff" => /\ generated'[q] = 1 /\ output'[q] > 1
                                                  /\ ~handoffDone'[q]
                      /\ state'[q] = "d_decode" => 0 < generated'[q] /\ generated'[q] < output'[q]
                      /\ state'[q] = "complete" => /\ generated'[q] = output'[q]
                                                   /\ output'[q] > 1 => handoffDone'[q]
      BY DEF RequestProgress
  <2>1. chunk'[q] = 0 /\ left'[q] \in Nat
    <3>1. left' \in [Req -> 0..MaxFresh]
        BY <1>5 DEF TypeOK
    <3> QED
        BY <1>11, <3>1, ParametersOK
  <2>2. CASE q \in batch
    <3>1. CASE ~Prefilled(q)
      <4>1. state'[q] = "p_prefill" /\ left'[q] > 0 /\ generated'[q] = 0
          BY <2>2, <3>1, PrefillOutcome
      <4> QED
          BY <2>1, <4>1
    <3>2. CASE Prefilled(q)
      <4>1. /\ left'[q] = 0 /\ generated'[q] = 1 /\ handoffDone'[q] = HandsOverAtOnce(q)
            /\ state'[q] = IF output[q] = 1 THEN "complete"
                           ELSE IF HandsOverAtOnce(q) THEN "d_decode" ELSE "handoff"
          BY <2>2, <3>2, PrefillOutcome
      <4>2. output'[q] = output[q] /\ (output[q] = 1 \/ output[q] > 1)
          BY <1>2, <1>4
      <4> QED
          BY <2>1, <4>1, <4>2
    <3> QED
        BY <3>1, <3>2
  <2>3. CASE q \notin batch
    <3>1. state'[q] = state[q] /\ left'[q] = left[q] /\ generated'[q] = generated[q]
          /\ handoffDone'[q] = handoffDone[q]
        BY <2>3, PrefillOutcome
    <3> QED
        BY <1>0, <1>2, <2>1, <3>1 DEF RequestProgress
  <2> QED
      BY <2>2, <2>3
<1>9. WithinLimits'
  <2>1. Total(chunk', MaxChunk) = 0
    <3>1. MaxChunk \in Nat
        BY ParametersOK
    <3> QED
        BY <1>11, <3>1, ParametersOK, TotalZero
  <2>2. \A r \in Req : chunk'[r] > 0 <=> r \in ElementsOf(pBatch')
      BY <1>11, <1>12
  <2> QED
      BY <1>0, <1>2, <1>12, <2>1, <2>2, ParametersOK DEF WithinLimits
<1>10. EventsHaveCauses' /\ NeverIdleWithWork'
  <2>1. fabric # <<>> => fabric' # <<>>
      BY PrefillMoves
  <2> QED
      BY <1>0, <1>1, <1>2, <2>1 DEF EventsHaveCauses, NeverIdleWithWork
<1> QED
    BY <1>5, <1>6, <1>7, <1>8, <1>9, <1>10 DEF PoolInv
-----------------------------------------------------------------------------
(* Forming batches.                                                        *)

LEMMA WantBounds ==
    ASSUME PoolInv, NEW r \in Req
    PROVE  /\ Want(r) \in 0..MaxFresh /\ Want(r) \in 0..MaxChunk /\ Want(r) <= left[r]
           /\ left[r] > 0 => Want(r) > 0
<1>1. left[r] \in 0..MaxFresh
    BY DEF PoolInv, TypeOK
<1> QED
    BY <1>1, ParametersOK DEF Want, Least

\* The budget only shrinks along the queue, by what the requests ahead want.
LEMMA Budgets ==
    ASSUME PoolInv
    PROVE  LET w(i) == [j \in 1..(i - 1) |-> Want(pWaiting[j])] IN
           /\ \A i \in DOMAIN pWaiting :
                  /\ w(i) \in [1..(i - 1) -> 0..MaxFresh]
                  /\ BudgetAt(i) \in Int
                  /\ BudgetAt(i) = MaxTokens - Total(w(i), MaxFresh)
           /\ \A i, j \in DOMAIN pWaiting : j <= i => BudgetAt(i) <= BudgetAt(j)
           /\ 1 \in DOMAIN pWaiting => BudgetAt(1) = MaxTokens
<1> DEFINE w(i) == [j \in 1..(i - 1) |-> Want(pWaiting[j])]
<1>1. pWaiting \in Seq(Req) /\ DOMAIN pWaiting = 1..Len(pWaiting) /\ Len(pWaiting) \in Nat
    BY DEF PoolInv, TypeOK
<1>2. \A j \in DOMAIN pWaiting : Want(pWaiting[j]) \in 0..MaxFresh
    BY <1>1, WantBounds
<1>3. ASSUME NEW i \in DOMAIN pWaiting
      PROVE  /\ w(i) \in [1..(i - 1) -> 0..MaxFresh] /\ IsFiniteSet(1..(i - 1))
             /\ Total(w(i), MaxFresh) \in Nat
             /\ BudgetAt(i) = MaxTokens - Total(w(i), MaxFresh)
  <2>1. 1..(i - 1) \subseteq DOMAIN pWaiting
      BY <1>1
  <2>2. w(i) \in [1..(i - 1) -> 0..MaxFresh]
      BY <1>2, <2>1
  <2>3. IsFiniteSet(1..(i - 1))
      BY <1>1, FS_Interval
  <2>4. Total(w(i), MaxFresh) \in Nat
    <3> HIDE DEF w
    <3> QED
      BY <2>2, <2>3, ParametersOK, CellsFinite
  <2> QED
      BY <2>2, <2>3, <2>4 DEF BudgetAt
<1>4. ASSUME NEW i \in DOMAIN pWaiting, NEW j \in DOMAIN pWaiting, j <= i
      PROVE  BudgetAt(i) <= BudgetAt(j)
  <2> DEFINE e == [k \in 1..(j - 1) |-> k]
  <2>1. \A k \in 1..(j - 1) : w(j)[k] > 0 => e[k] \in 1..(i - 1) /\ w(j)[k] <= w(i)[e[k]]
    <3> SUFFICES ASSUME NEW k \in 1..(j - 1)
                 PROVE  e[k] \in 1..(i - 1) /\ w(j)[k] <= w(i)[e[k]]
        OBVIOUS
    <3>1. k \in 1..(i - 1) /\ k \in DOMAIN pWaiting
        BY <1>1, <1>4
    <3> QED
        BY <1>2, <3>1
  <2>2. \A k, l \in 1..(j - 1) : e[k] = e[l] => k = l
      OBVIOUS
  <2>3. /\ w(i) \in [1..(i - 1) -> 0..MaxFresh] /\ IsFiniteSet(1..(i - 1))
        /\ w(j) \in [1..(j - 1) -> 0..MaxFresh] /\ IsFiniteSet(1..(j - 1))
      BY <1>3
  <2>4. Total(w(j), MaxFresh) <= Total(w(i), MaxFresh)
    <3> DEFINE f == w(j)
               g == w(i)
    <3>1. /\ f \in [1..(j - 1) -> 0..MaxFresh] /\ g \in [1..(i - 1) -> 0..MaxFresh]
          /\ \A k \in 1..(j - 1) : f[k] > 0 => e[k] \in 1..(i - 1) /\ f[k] <= g[e[k]]
          /\ \A k, l \in 1..(j - 1) : f[k] > 0 /\ f[l] > 0 /\ e[k] = e[l] => k = l
        BY <2>1, <2>2, <2>3
    <3> HIDE DEF w, e, f, g
    <3>2. Total(f, MaxFresh) <= Total(g, MaxFresh)
        BY <2>3, <3>1, ParametersOK, TotalInto, ZenonT(30)
    <3> QED
        BY <3>2 DEF f, g
  <2> HIDE DEF w
  <2> QED
      BY <1>3, <2>4, ParametersOK
<1>5. ASSUME 1 \in DOMAIN pWaiting
      PROVE  BudgetAt(1) = MaxTokens
  <2>1. 1..(1 - 1) = {}
      OBVIOUS
  <2>2. \A k \in 1..(1 - 1) : w(1)[k] = 0
      BY <2>1
  <2>3. Total(w(1), MaxFresh) = 0
    <3>1. w(1) \in [1..(1 - 1) -> 0..MaxFresh] /\ IsFiniteSet(1..(1 - 1))
        BY <1>3, <1>5
    <3> HIDE DEF w
    <3> QED
        BY <2>2, <3>1, ParametersOK, TotalZero
  <2> HIDE DEF w
  <2> QED
      BY <1>3, <1>5, <2>3, ParametersOK
<1> HIDE DEF w
<1>6. /\ \A i \in DOMAIN pWaiting :
             /\ w(i) \in [1..(i - 1) -> 0..MaxFresh]
             /\ BudgetAt(i) \in Int
             /\ BudgetAt(i) = MaxTokens - Total(w(i), MaxFresh)
      /\ \A i, j \in DOMAIN pWaiting : j <= i => BudgetAt(i) <= BudgetAt(j)
      /\ 1 \in DOMAIN pWaiting => BudgetAt(1) = MaxTokens
    BY <1>3, <1>4, <1>5, ParametersOK
<1> QED
    BY <1>6 DEF w

\* Both selections take the requests at the head of the queue, at least one.
LEMMA Selections ==
    ASSUME PoolInv
    PROVE  LET n == Cardinality(PSelected)
               m == Cardinality(DSelected)
           IN  /\ n \in 0..Len(pWaiting) /\ PSelected = 1..n /\ n <= PMaxSeqs
               /\ pWaiting # <<>> => n > 0
               /\ m \in 0..Len(dWaiting) /\ DSelected = 1..m
               /\ m <= Least(DMaxSeqs, MaxTokens)
               /\ dWaiting # <<>> => m > 0
<1> DEFINE n == Cardinality(PSelected)
           m == Cardinality(DSelected)
<1>1. /\ pWaiting \in Seq(Req) /\ DOMAIN pWaiting = 1..Len(pWaiting) /\ Len(pWaiting) \in Nat
      /\ dWaiting \in Seq(Req) /\ DOMAIN dWaiting = 1..Len(dWaiting) /\ Len(dWaiting) \in Nat
      /\ pWaiting # <<>> => 1 \in DOMAIN pWaiting
      /\ dWaiting # <<>> => 1 \in DOMAIN dWaiting
    BY DEF PoolInv, TypeOK
<1>2. PSelected \in SUBSET (1..Len(pWaiting)) /\ DSelected \in SUBSET (1..Len(dWaiting))
    BY <1>1 DEF PSelected, DSelected
<1>3. \A i \in PSelected, j \in 1..Len(pWaiting) : j <= i => j \in PSelected
  <2> SUFFICES ASSUME NEW i \in PSelected, NEW j \in 1..Len(pWaiting), j <= i
               PROVE  j \in PSelected
      OBVIOUS
  <2>1. i \in DOMAIN pWaiting /\ i <= PMaxSeqs /\ BudgetAt(i) > 0
      BY DEF PSelected
  <2>2. j \in DOMAIN pWaiting /\ j <= PMaxSeqs
      BY <1>1, <2>1, ParametersOK
  <2>3. BudgetAt(i) <= BudgetAt(j) /\ BudgetAt(i) \in Int /\ BudgetAt(j) \in Int
      BY <2>1, <2>2, Budgets
  <2> QED
      BY <2>1, <2>2, <2>3 DEF PSelected
<1>4. \A i \in DSelected, j \in 1..Len(dWaiting) : j <= i => j \in DSelected
    BY <1>1, ParametersOK DEF DSelected
<1>5. n \in 0..Len(pWaiting) /\ PSelected = 1..n
    BY <1>1, <1>2, <1>3, InitialSegment
<1>6. m \in 0..Len(dWaiting) /\ DSelected = 1..m
    BY <1>1, <1>2, <1>4, InitialSegment
<1>7. pWaiting # <<>> => 1 \in PSelected
    BY <1>1, Budgets, ParametersOK DEF PSelected
<1>8. dWaiting # <<>> => 1 \in DSelected
    BY <1>1, ParametersOK DEF DSelected
<1>9. n > 0 => n <= PMaxSeqs
  <2>1. n > 0 => n \in PSelected
      BY <1>5
  <2> QED
      BY <2>1 DEF PSelected
<1>10. m > 0 => m <= DMaxSeqs /\ m <= MaxTokens
  <2>1. m > 0 => m \in DSelected
      BY <1>6
  <2> QED
      BY <2>1 DEF DSelected
<1> HIDE DEF n, m
<1>11. n <= PMaxSeqs /\ (pWaiting # <<>> => n > 0)
    BY <1>5, <1>7, <1>9, ParametersOK
<1>12. m <= Least(DMaxSeqs, MaxTokens) /\ (dWaiting # <<>> => m > 0)
    BY <1>6, <1>8, <1>10, ParametersOK DEF Least
<1> QED
    BY <1>5, <1>6, <1>11, <1>12 DEF n, m
\* A prefill batch is the head of the queue, each member with a share of the
\* token budget that is positive, at most what it wants and fits the batch.
LEMMA LaunchPStep ==
    ASSUME PoolInv, pBatch = <<>>, pWaiting # <<>>, "p" \notin held, LaunchP
    PROVE  /\ pBatch' \in Seq(Req) /\ pBatch' # <<>> /\ pWaiting' \in Seq(Req)
           /\ \A q \in Req : Occurrences(q, pWaiting') + Occurrences(q, pBatch')
                                 = Occurrences(q, pWaiting)
           /\ chunk' \in [Req -> 0..MaxChunk]
           /\ \A q \in Req : chunk'[q] <= left[q] /\ (chunk'[q] > 0 <=> q \in ElementsOf(pBatch'))
           /\ Len(pBatch') <= PMaxSeqs /\ Total(chunk', MaxChunk) <= MaxTokens
<1> DEFINE n == Cardinality(PSelected)
           share(q) == IF \E i \in PSelected : pWaiting[i] = q
                       THEN LET i == CHOOSE i \in PSelected : pWaiting[i] = q
                            IN  Least(Want(q), BudgetAt(i))
                       ELSE 0
<1>1. /\ pBatch' = SubSeq(pWaiting, 1, n) /\ pWaiting' = SubSeq(pWaiting, n + 1, Len(pWaiting))
      /\ chunk' = [q \in Req |-> share(q)]
    BY DEF LaunchP, TakeBatch, LeaveRest
<1>2. n \in 1..Len(pWaiting) /\ PSelected = 1..n /\ n <= PMaxSeqs /\ n \in 0..Len(pWaiting)
    BY Selections
<1> HIDE DEF n
<1>3. /\ pWaiting \in Seq(Req) /\ DOMAIN pWaiting = 1..Len(pWaiting) /\ Len(pWaiting) \in Nat
      /\ \A i \in DOMAIN pWaiting : pWaiting[i] \in Req
    BY DEF PoolInv, TypeOK
<1>4. /\ pBatch' \in Seq(Req) /\ Len(pBatch') = n /\ \A i \in 1..n : pBatch'[i] = pWaiting[i]
      /\ pWaiting' \in Seq(Req)
      /\ \A q : Occurrences(q, pWaiting) = Occurrences(q, pBatch') + Occurrences(q, pWaiting')
    BY <1>1, <1>2, <1>3, OccCut
<1>5. \A i \in 1..n : /\ i \in DOMAIN pWaiting /\ pWaiting[i] \in Req
                      /\ BudgetAt(i) > 0 /\ BudgetAt(i) \in Int
                      /\ left[pWaiting[i]] > 0
  <2> SUFFICES ASSUME NEW i \in 1..n
               PROVE  /\ i \in DOMAIN pWaiting /\ pWaiting[i] \in Req
                      /\ BudgetAt(i) > 0 /\ BudgetAt(i) \in Int
                      /\ left[pWaiting[i]] > 0
      OBVIOUS
  <2>1. i \in DOMAIN pWaiting /\ BudgetAt(i) > 0
      BY <1>2 DEF PSelected
  <2>2. BudgetAt(i) \in Int /\ pWaiting[i] \in Req
      BY <1>3, <2>1, Budgets
  <2>3. Occurrences(pWaiting[i], pWaiting) > 0
      BY <1>3, <2>1, OccMember
  <2>4. state[pWaiting[i]] = "p_prefill"
      BY <2>2, <2>3, QueueSums
  <2>5. left[pWaiting[i]] > 0
      BY <2>2, <2>4 DEF PoolInv, RequestProgress
  <2> QED
      BY <2>1, <2>2, <2>5
<1>6. \A i, j \in 1..n : pWaiting[i] = pWaiting[j] => i = j
  <2> SUFFICES ASSUME NEW i \in 1..n, NEW j \in 1..n, pWaiting[i] = pWaiting[j]
               PROVE  i = j
      OBVIOUS
  <2>1. Occurrences(pWaiting[i], pWaiting) <= 1
    <3>1. pWaiting[i] \in Req
        BY <1>5
    <3> QED
        BY <3>1, QueueSums
  <2> QED
      BY <1>3, <1>5, <2>1, OccOnce
<1>7. ASSUME NEW i \in 1..n
      PROVE  chunk'[pWaiting[i]] = Least(Want(pWaiting[i]), BudgetAt(i))
  <2>1. i \in PSelected /\ pWaiting[i] \in Req
      BY <1>2, <1>5
  <2>2. (CHOOSE k \in PSelected : pWaiting[k] = pWaiting[i]) = i
      BY <1>2, <1>6, <2>1
  <2>3. chunk'[pWaiting[i]] = share(pWaiting[i])
      BY <1>1, <2>1
  <2> QED
      BY <2>1, <2>2, <2>3
<1>8. ASSUME NEW q \in Req, \A i \in 1..n : pWaiting[i] # q
      PROVE  chunk'[q] = 0
    BY <1>1, <1>2, <1>8
<1> HIDE DEF share
<1>9. ASSUME NEW i \in 1..n
      PROVE  /\ chunk'[pWaiting[i]] \in 1..MaxChunk /\ chunk'[pWaiting[i]] \in 0..MaxFresh
             /\ chunk'[pWaiting[i]] <= Want(pWaiting[i])
             /\ chunk'[pWaiting[i]] <= left[pWaiting[i]]
             /\ chunk'[pWaiting[i]] <= BudgetAt(i)
  <2>1. /\ Want(pWaiting[i]) \in 0..MaxFresh /\ Want(pWaiting[i]) \in 0..MaxChunk
        /\ Want(pWaiting[i]) <= left[pWaiting[i]] /\ Want(pWaiting[i]) > 0
      BY <1>5, WantBounds
  <2>2. left[pWaiting[i]] \in Nat
      BY <1>5, ParametersOK DEF PoolInv, TypeOK
  <2> QED
      BY <1>5, <1>7, <2>1, <2>2, ParametersOK DEF Least
<1>10. ASSUME NEW q \in Req
       PROVE  /\ chunk'[q] \in 0..MaxChunk /\ chunk'[q] <= left[q]
              /\ chunk'[q] > 0 <=> \E i \in 1..n : pWaiting[i] = q
  <2>1. left[q] \in Nat
      BY ParametersOK DEF PoolInv, TypeOK
  <2>2. CASE \E i \in 1..n : pWaiting[i] = q
    <3>1. PICK i \in 1..n : pWaiting[i] = q
        BY <2>2
    <3>2. chunk'[q] \in 1..MaxChunk /\ chunk'[q] <= left[q]
        BY <1>9, <3>1
    <3> QED
        BY <2>2, <3>2, ParametersOK
  <2>3. CASE \A i \in 1..n : pWaiting[i] # q
    <3>1. chunk'[q] = 0
        BY <1>8, <2>3
    <3> QED
        BY <2>1, <2>3, <3>1, ParametersOK
  <2> QED
      BY <2>2, <2>3
<1>11. chunk' \in [Req -> 0..MaxChunk]
  <2>1. DOMAIN chunk' = Req /\ chunk' = [q \in Req |-> chunk'[q]]
      BY <1>1
  <2> QED
      BY <1>10, <2>1
<1>12. \A q \in Req : q \in ElementsOf(pBatch') <=> \E i \in 1..n : pWaiting[i] = q
  <2>1. DOMAIN pBatch' = 1..n
      BY <1>2, <1>4
  <2>2. ElementsOf(pBatch') = {pBatch'[i] : i \in 1..n}
      BY <2>1 DEF ElementsOf
  <2> QED
      BY <1>4, <2>2
<1>13. Total(chunk', MaxChunk) <= MaxTokens
  <2> DEFINE g == [j \in 1..n |-> chunk'[pWaiting[j]]]
             h == [j \in 1..n |-> IF j = n THEN 0 ELSE chunk'[pWaiting[j]]]
             w == [j \in 1..(n - 1) |-> Want(pWaiting[j])]
             e == [q \in Req |-> CHOOSE i \in 1..n : pWaiting[i] = q]
             at == [j \in 1..n |-> j]
  <2>1. n \in Nat /\ n \in 1..n /\ IsFiniteSet(1..n) /\ IsFiniteSet(1..(n - 1))
      BY <1>2, FS_Interval
  <2>2. g \in [1..n -> 0..MaxFresh] /\ h \in [1..n -> 0..MaxFresh]
      BY <1>9, ParametersOK
  <2>3. w \in [1..(n - 1) -> 0..MaxFresh] /\ BudgetAt(n) = MaxTokens - Total(w, MaxFresh)
    <3>1. n \in DOMAIN pWaiting
        BY <1>5, <2>1
    <3> QED
        BY <3>1, Budgets
  <2>4. \A q \in Req : chunk'[q] > 0 => e[q] \in 1..n /\ pWaiting[e[q]] = q
      BY <1>10
  <2>5. \A q \in Req : chunk'[q] > 0 => e[q] \in 1..n /\ chunk'[q] <= g[e[q]]
    <3> SUFFICES ASSUME NEW q \in Req, chunk'[q] > 0
                 PROVE  e[q] \in 1..n /\ chunk'[q] <= g[e[q]]
        OBVIOUS
    <3>1. e[q] \in 1..n /\ pWaiting[e[q]] = q
        BY <2>4
    <3> HIDE DEF e
    <3>2. g[e[q]] = chunk'[q] /\ chunk'[q] \in Nat
        BY <1>10, <3>1, ParametersOK
    <3> QED
        BY <3>1, <3>2
  <2>6. \A q, r \in Req : chunk'[q] > 0 /\ chunk'[r] > 0 /\ e[q] = e[r] => q = r
    <3> HIDE DEF e
    <3> QED
        BY <2>4
  <2>7. Total(chunk', MaxChunk) <= Total(g, MaxFresh)
    <3>1. MaxChunk \in Nat /\ MaxFresh \in Nat /\ IsFiniteSet(Req)
        BY ParametersOK
    <3> HIDE DEF e, g
    <3> QED
        BY <1>11, <2>1, <2>2, <2>5, <2>6, <3>1, TotalInto
  <2>8. Total(g, MaxFresh) = Total(h, MaxFresh) - h[n] + g[n]
    <3>1. \A j \in (1..n) \ {n} : g[j] = h[j]
        OBVIOUS
    <3>2. MaxFresh \in Nat
        BY ParametersOK
    <3> DEFINE S == 1..n
    <3>3. /\ n \in S /\ IsFiniteSet(S) /\ g \in [S -> 0..MaxFresh] /\ h \in [S -> 0..MaxFresh]
          /\ \A j \in S \ {n} : g[j] = h[j]
        BY <2>1, <2>2, <3>1
    <3> HIDE DEF g, h, S
    <3> QED
        BY <3>2, <3>3, TotalUpdate
  <2>9. Total(h, MaxFresh) <= Total(w, MaxFresh)
    <3>1. \A j \in 1..n : h[j] > 0 => at[j] \in 1..(n - 1) /\ h[j] <= w[at[j]]
      <4> SUFFICES ASSUME NEW j \in 1..n, h[j] > 0
                   PROVE  at[j] \in 1..(n - 1) /\ h[j] <= w[at[j]]
          OBVIOUS
      <4>1. j # n
          OBVIOUS
      <4>2. j \in 1..(n - 1) /\ h[j] = chunk'[pWaiting[j]]
          BY <2>1, <4>1
      <4> QED
          BY <1>9, <4>2
    <3>2. \A j, k \in 1..n : h[j] > 0 /\ h[k] > 0 /\ at[j] = at[k] => j = k
        OBVIOUS
    <3>3. MaxFresh \in Nat
        BY ParametersOK
    <3> HIDE DEF h, w, at
    <3> QED
        BY <2>1, <2>2, <2>3, <3>1, <3>2, <3>3, TotalInto
  <2>10. h[n] = 0 /\ g[n] = chunk'[pWaiting[n]] /\ g[n] <= BudgetAt(n)
      BY <1>9, <2>1
  <2>11. /\ Total(h, MaxFresh) \in Nat /\ Total(w, MaxFresh) \in Nat
         /\ Total(g, MaxFresh) \in Nat /\ Total(chunk', MaxChunk) \in Nat
    <3>1. MaxChunk \in Nat /\ MaxFresh \in Nat /\ IsFiniteSet(Req)
        BY ParametersOK
    <3> HIDE DEF g, h, w
    <3> QED
        BY <1>11, <2>1, <2>2, <2>3, <3>1, CellsFinite
  <2>12. g[n] \in Nat
      BY <2>1, <2>2, ParametersOK
  <2> HIDE DEF g, h, w
  <2> QED
      BY <2>3, <2>7, <2>8, <2>9, <2>10, <2>11, <2>12, ParametersOK
<1>14. pBatch' # <<>>
    BY <1>2, <1>4
<1>15. \A q \in Req : Occurrences(q, pWaiting') + Occurrences(q, pBatch')
                          = Occurrences(q, pWaiting)
  <2>1. \A q \in Req : Occurrences(q, pWaiting') \in Nat /\ Occurrences(q, pBatch') \in Nat
      BY <1>4, OccType
  <2> QED
      BY <1>4, <2>1
<1> QED
    BY <1>2, <1>4, <1>10, <1>11, <1>12, <1>13, <1>14, <1>15
\* A decode batch is the head of the queue as well.
LEMMA LaunchDStep ==
    ASSUME PoolInv, dBatch = <<>>, dWaiting # <<>>, "d" \notin held, LaunchD
    PROVE  /\ dBatch' \in Seq(Req) /\ dBatch' # <<>> /\ dWaiting' \in Seq(Req)
           /\ \A q \in Req : Occurrences(q, dWaiting') + Occurrences(q, dBatch')
                                 = Occurrences(q, dWaiting)
           /\ Len(dBatch') <= Least(DMaxSeqs, MaxTokens)
<1> DEFINE m == Cardinality(DSelected)
<1>1. dBatch' = SubSeq(dWaiting, 1, m) /\ dWaiting' = SubSeq(dWaiting, m + 1, Len(dWaiting))
    BY DEF LaunchD, TakeBatch, LeaveRest
<1>2. m \in 0..Len(dWaiting) /\ m > 0 /\ m <= Least(DMaxSeqs, MaxTokens)
    BY Selections
<1> HIDE DEF m
<1>3. dWaiting \in Seq(Req)
    BY DEF PoolInv, TypeOK
<1>4. /\ dBatch' \in Seq(Req) /\ Len(dBatch') = m /\ dWaiting' \in Seq(Req)
      /\ \A q : Occurrences(q, dWaiting) = Occurrences(q, dBatch') + Occurrences(q, dWaiting')
    BY <1>1, <1>2, <1>3, OccCut
<1>5. dBatch' # <<>>
    BY <1>2, <1>4
<1>6. \A q \in Req : Occurrences(q, dWaiting') + Occurrences(q, dBatch')
                         = Occurrences(q, dWaiting)
  <2>1. \A q \in Req : Occurrences(q, dWaiting') \in Nat /\ Occurrences(q, dBatch') \in Nat
      BY <1>4, OccType
  <2> QED
      BY <1>4, <2>1
<1> QED
    BY <1>2, <1>4, <1>5, <1>6

\* What a flush does to either worker, whether or not it launches a batch: no
\* request is lost, and a worker left with work runs or waits for its model.
LEMMA FlushP ==
    ASSUME PoolInv, LaunchP
    PROVE  /\ pBatch' \in Seq(Req) /\ pWaiting' \in Seq(Req)
           /\ \A q \in Req : Occurrences(q, pWaiting') + Occurrences(q, pBatch')
                                 = Occurrences(q, pWaiting) + Occurrences(q, pBatch)
           /\ chunk' \in [Req -> 0..MaxChunk]
           /\ \A q \in Req : chunk'[q] <= left[q] /\ (chunk'[q] > 0 <=> q \in ElementsOf(pBatch'))
           /\ Len(pBatch') <= PMaxSeqs /\ Total(chunk', MaxChunk) <= MaxTokens
           /\ pWaiting' # <<>> => \/ pBatch' # <<>>
                                  \/ pBatch = <<>> /\ pWaiting # <<>> /\ "p" \in held
           /\ "p" \in held => pBatch' = pBatch
<1>1. CASE pBatch # <<>> \/ pWaiting = <<>> \/ "p" \in held
    BY <1>1 DEF LaunchP, PoolInv, TypeOK, WithinLimits, RequestProgress
<1>2. CASE ~(pBatch # <<>> \/ pWaiting = <<>> \/ "p" \in held)
  <2>1. \A q \in Req : Occurrences(q, pBatch) = 0 /\ Occurrences(q, pWaiting) \in Nat
      BY <1>2, OccEmpty, WhereItIs
  <2>2. /\ pBatch' \in Seq(Req) /\ pBatch' # <<>> /\ pWaiting' \in Seq(Req)
        /\ \A q \in Req : Occurrences(q, pWaiting') + Occurrences(q, pBatch')
                              = Occurrences(q, pWaiting)
        /\ chunk' \in [Req -> 0..MaxChunk]
        /\ \A q \in Req : chunk'[q] <= left[q] /\ (chunk'[q] > 0 <=> q \in ElementsOf(pBatch'))
        /\ Len(pBatch') <= PMaxSeqs /\ Total(chunk', MaxChunk) <= MaxTokens
      BY <1>2, LaunchPStep
  <2>3. \A q \in Req : Occurrences(q, pWaiting') + Occurrences(q, pBatch')
                           = Occurrences(q, pWaiting) + Occurrences(q, pBatch)
      BY <2>1, <2>2
  <2> QED
      BY <1>2, <2>2, <2>3
<1> QED
    BY <1>1, <1>2

LEMMA FlushD ==
    ASSUME PoolInv, LaunchD
    PROVE  /\ dBatch' \in Seq(Req) /\ dWaiting' \in Seq(Req)
           /\ \A q \in Req : Occurrences(q, dWaiting') + Occurrences(q, dBatch')
                                 = Occurrences(q, dWaiting) + Occurrences(q, dBatch)
           /\ Len(dBatch') <= Least(DMaxSeqs, MaxTokens)
           /\ dWaiting' # <<>> => \/ dBatch' # <<>>
                                  \/ dBatch = <<>> /\ dWaiting # <<>> /\ "d" \in held
           /\ "d" \in held => dBatch' = dBatch
<1>1. CASE dBatch # <<>> \/ dWaiting = <<>> \/ "d" \in held
    BY <1>1 DEF LaunchD, PoolInv, TypeOK, WithinLimits
<1>2. CASE ~(dBatch # <<>> \/ dWaiting = <<>> \/ "d" \in held)
  <2>1. \A q \in Req : Occurrences(q, dBatch) = 0 /\ Occurrences(q, dWaiting) \in Nat
      BY <1>2, OccEmpty, WhereItIs
  <2>2. /\ dBatch' \in Seq(Req) /\ dBatch' # <<>> /\ dWaiting' \in Seq(Req)
        /\ \A q \in Req : Occurrences(q, dWaiting') + Occurrences(q, dBatch')
                              = Occurrences(q, dWaiting)
        /\ Len(dBatch') <= Least(DMaxSeqs, MaxTokens)
      BY <1>2, LaunchDStep
  <2>3. \A q \in Req : Occurrences(q, dWaiting') + Occurrences(q, dBatch')
                           = Occurrences(q, dWaiting) + Occurrences(q, dBatch)
      BY <2>1, <2>2
  <2> QED
      BY <1>2, <2>2, <2>3
<1> QED
    BY <1>1, <1>2

LEMMA FlushStep ==
    ASSUME PoolInv, Flush
    PROVE  PoolInv'
<1>0. /\ TypeOK /\ RequestProgress /\ EventsHaveCauses
      /\ OneQueue /\ HandoffOnce /\ WithinLimits /\ NeverIdleWithWork
    BY DEF PoolInv
<1>1. /\ due = {} /\ open' = FALSE /\ LaunchP /\ LaunchD
      /\ launch' = {s \in Stage :
                    \/ s = "p" /\ pBatch = <<>> /\ WaitForModel(pWaiting, s)
                    \/ s = "d" /\ dBatch = <<>> /\ WaitForModel(dWaiting, s)}
    BY DEF Flush
<1>2. UNCHANGED <<output, successor, state, left, covered, generated, handoffDone, fabric,
                  held, holds, due, handedOff, completed>>
    BY DEF Flush, requestVars
<1>3. /\ launch' \subseteq Stage
      /\ "p" \in launch' <=> pBatch = <<>> /\ pWaiting # <<>> /\ "p" \in held
      /\ "d" \in launch' <=> dBatch = <<>> /\ dWaiting # <<>> /\ "d" \in held
    BY <1>1 DEF Stage, WaitForModel
<1>4. /\ pBatch' \in Seq(Req) /\ pWaiting' \in Seq(Req)
      /\ \A q \in Req : Occurrences(q, pWaiting') + Occurrences(q, pBatch')
                            = Occurrences(q, pWaiting) + Occurrences(q, pBatch)
      /\ chunk' \in [Req -> 0..MaxChunk]
      /\ \A q \in Req : chunk'[q] <= left[q] /\ (chunk'[q] > 0 <=> q \in ElementsOf(pBatch'))
      /\ Len(pBatch') <= PMaxSeqs /\ Total(chunk', MaxChunk) <= MaxTokens
      /\ pWaiting' # <<>> => \/ pBatch' # <<>>
                             \/ pBatch = <<>> /\ pWaiting # <<>> /\ "p" \in held
      /\ "p" \in held => pBatch' = pBatch
    BY <1>1, FlushP
<1>5. /\ dBatch' \in Seq(Req) /\ dWaiting' \in Seq(Req)
      /\ \A q \in Req : Occurrences(q, dWaiting') + Occurrences(q, dBatch')
                            = Occurrences(q, dWaiting) + Occurrences(q, dBatch)
      /\ Len(dBatch') <= Least(DMaxSeqs, MaxTokens)
      /\ dWaiting' # <<>> => \/ dBatch' # <<>>
                             \/ dBatch = <<>> /\ dWaiting # <<>> /\ "d" \in held
      /\ "d" \in held => dBatch' = dBatch
    BY <1>1, FlushD
<1>6. TypeOK'
    BY <1>0, <1>1, <1>2, <1>3, <1>4, <1>5 DEF TypeOK
<1>7. OneQueue'
  <2> SUFFICES ASSUME NEW q \in Req
               PROVE  /\ Occurrences(q, pWaiting') + Occurrences(q, pBatch')
                             = (IF state'[q] = "p_prefill" THEN 1 ELSE 0)
                      /\ Occurrences(q, dWaiting') + Occurrences(q, dBatch')
                             = (IF state'[q] = "d_decode" THEN 1 ELSE 0)
      BY DEF OneQueue
  <2>1. state'[q] = state[q]
      BY <1>2
  <2> QED
      BY <1>4, <1>5, <2>1, QueueSums
<1>8. RequestProgress'
    BY <1>0, <1>2, <1>4 DEF RequestProgress
<1>9. HandoffOnce'
    BY <1>0, <1>2 DEF HandoffOnce, NeededOnD
<1>10. WithinLimits'
    BY <1>4, <1>5 DEF WithinLimits
<1>11. EventsHaveCauses'
    BY <1>1, <1>2 DEF EventsHaveCauses
<1>12. NeverIdleWithWork'
    BY <1>2, <1>3, <1>4, <1>5 DEF NeverIdleWithWork
<1> QED
    BY <1>6, <1>7, <1>8, <1>9, <1>10, <1>11, <1>12 DEF PoolInv

\* One step of the pool or of its surroundings.
LEMMA NextPoolInv == PoolInv /\ [Next]_vars => PoolInv'
<1> SUFFICES ASSUME PoolInv, [Next]_vars PROVE PoolInv'
    OBVIOUS
<1>1. ASSUME NEW r \in Req, NEW fresh \in 1..MaxFresh, NEW nothing \in BOOLEAN,
             Submit(r, fresh, nothing)
      PROVE  PoolInv'
    BY <1>1, SubmitStep
<1>2. ASSUME NEW E \in SUBSET Event, Tick(E) PROVE PoolInv'
    BY <1>2, TickStep
<1>3. CASE FinishDBatch
    BY <1>3, FinishDBatchStep
<1>4. CASE FinishPBatch
    BY <1>4, FinishPBatchStep
<1>5. CASE FinishHandoff
    BY <1>5, FinishHandoffStep
<1>6. CASE FinishLaunches
    BY <1>6, ModelStep
<1>7. CASE Flush
    BY <1>7, FlushStep
<1>8. CASE \E s \in Stage : Hold(s) \/ Unhold(s)
    BY <1>8, ModelStep
<1>9. ASSUME NEW r \in Req, PopHandoffCompleted(r) \/ PopCompleted(r) PROVE PoolInv'
    BY <1>9, PopStep
<1>10. CASE UNCHANGED vars
  <2>1. UNCHANGED <<output, successor, state, left, covered, chunk, generated, handoffDone,
                    pWaiting, dWaiting, pBatch, dBatch, fabric, held, launch, holds, due, open,
                    handedOff, completed>>
      BY <1>10 DEF vars, requestVars, tokenVars, workerVars, modelVars
  <2> QED
      BY <2>1 DEF PoolInv, TypeOK, RequestProgress, EventsHaveCauses, OneQueue, HandoffOnce,
                  NeededOnD, WithinLimits, NeverIdleWithWork
<1> QED
    BY <1>1, <1>2, <1>3, <1>4, <1>5, <1>6, <1>7, <1>8, <1>9, <1>10 DEF Next

-----------------------------------------------------------------------------
(* What the events mean to the node around the pool.                       *)

\* A request is reported complete, or handed over, when it becomes so, and never
\* becomes anything else afterwards; the copies of others on the fabric and the
\* requests' parameters are left alone.
Reported(r) ==
    /\ state'[r] = "waiting_p" <=> state[r] = "waiting_p"
    /\ state[r] = "complete" => state'[r] = "complete"
    /\ r \in completed' <=> r \in completed \/ (state[r] # "complete" /\ state'[r] = "complete")
    /\ handoffDone[r] => handoffDone'[r]
    /\ r \in handedOff' <=> r \in handedOff \/ (~handoffDone[r] /\ handoffDone'[r])
    /\ Occurrences(<<"prepare", r>>, fabric') = Occurrences(<<"prepare", r>>, fabric)

LEMMA QuietReported ==
    ASSUME PoolInv, UNCHANGED <<state, handoffDone, fabric, handedOff, completed>>, NEW q \in Req
    PROVE  Reported(q)
<1>1. state'[q] = state[q] /\ handoffDone'[q] = handoffDone[q]
    OBVIOUS
<1>2. fabric' = fabric /\ handedOff' = handedOff /\ completed' = completed
    OBVIOUS
<1> QED
    BY <1>1, <1>2 DEF Reported

LEMMA DBatchReported ==
    ASSUME PoolInv, FinishDBatch, NEW q \in Req
    PROVE  Reported(q)
<1> DEFINE batch  == ElementsOf(dBatch)
           ending == {r \in batch : LastToken(r)}
<1>1. /\ state' = [r \in Req |-> IF r \in ending THEN "complete" ELSE state[r]]
      /\ completed' = completed \cup ending
    BY DEF FinishDBatch
<1>2. fabric' = fabric /\ handoffDone' = handoffDone /\ handedOff' = handedOff
    BY DEF FinishDBatch
<1>3. q \in ending => state[q] = "d_decode"
    BY WhereItIs
<1> HIDE DEF batch, ending
<1>4. state'[q] = IF q \in ending THEN "complete" ELSE state[q]
    BY <1>1
<1>5. q \in completed' <=> q \in completed \/ q \in ending
    BY <1>1
<1>6. handoffDone'[q] = handoffDone[q]
    BY <1>2
<1> QED
    BY <1>2, <1>3, <1>4, <1>5, <1>6 DEF Reported

LEMMA PBatchReported ==
    ASSUME PoolInv, FinishPBatch, NEW q \in Req
    PROVE  Reported(q)
<1> DEFINE batch  == ElementsOf(pBatch)
           first  == {r \in batch : Prefilled(r)}
           atOnce == {r \in batch : HandsOverAtOnce(r)}
           single == {r \in first : output[r] = 1}
<1>1. completed' = completed \cup single /\ handedOff' = handedOff \cup atOnce
    BY DEF FinishPBatch
<1>2. Occurrences(<<"prepare", q>>, fabric') = Occurrences(<<"prepare", q>>, fabric)
    BY PrefillMoves
<1>3. /\ q \in single <=> q \in batch /\ Prefilled(q) /\ output[q] = 1
      /\ q \in atOnce <=> q \in batch /\ HandsOverAtOnce(q)
    OBVIOUS
<1>4. /\ q \notin batch => state'[q] = state[q] /\ handoffDone'[q] = handoffDone[q]
      /\ q \in batch => state[q] = "p_prefill" /\ ~handoffDone[q]
      /\ q \in batch /\ ~Prefilled(q) => state'[q] = "p_prefill" /\ ~handoffDone'[q]
      /\ q \in batch /\ Prefilled(q)
             => /\ handoffDone'[q] = HandsOverAtOnce(q)
                /\ state'[q] = IF output[q] = 1 THEN "complete"
                               ELSE IF HandsOverAtOnce(q) THEN "d_decode" ELSE "handoff"
    BY PrefillOutcome
<1>5. HandsOverAtOnce(q) => Prefilled(q)
    BY DEF HandsOverAtOnce
<1> HIDE DEF batch, first, atOnce, single
<1>6. /\ q \in completed' <=> q \in completed \/ q \in single
      /\ q \in handedOff' <=> q \in handedOff \/ q \in atOnce
    BY <1>1
<1>7. CASE q \notin batch
    BY <1>2, <1>3, <1>4, <1>6, <1>7 DEF Reported
<1>8. CASE q \in batch /\ ~Prefilled(q)
    BY <1>2, <1>3, <1>4, <1>5, <1>6, <1>8 DEF Reported
<1>9. CASE q \in batch /\ Prefilled(q)
  <2>1. state[q] = "p_prefill" /\ state'[q] # "waiting_p" /\ ~handoffDone[q]
        /\ (state'[q] = "complete" <=> output[q] = 1)
        /\ (handoffDone'[q] <=> HandsOverAtOnce(q))
      BY <1>4, <1>9
  <2> QED
      BY <1>2, <1>3, <1>6, <1>9, <2>1 DEF Reported
<1> QED
    BY <1>7, <1>8, <1>9

LEMMA HandoffReported ==
    ASSUME PoolInv, FinishHandoff, NEW q \in Req
    PROVE  Reported(q)
<1> DEFINE r == Head(fabric)[2]
<1>1. /\ r \in Req /\ Head(fabric) = <<"handoff", r>>
      /\ state[r] \in {"handoff", "d_decode", "complete"} /\ ~handoffDone[r]
      /\ state[r] # "d_decode"
    BY HandoffInFlight
<1>2. /\ handoffDone' = [handoffDone EXCEPT ![r] = TRUE]
      /\ handedOff' = handedOff \cup {r} /\ completed' = completed
      /\ output[r] > 1 => state' = [state EXCEPT ![r] = "d_decode"]
      /\ ~(output[r] > 1) => state' = state
    BY DEF FinishHandoff
<1>3. Occurrences(<<"prepare", q>>, fabric') = Occurrences(<<"prepare", q>>, fabric)
  <2>1. Occurrences(<<"prepare", q>>, fabric)
            = (IF <<"prepare", q>> = Head(fabric) THEN 1 ELSE 0)
                  + Occurrences(<<"prepare", q>>, fabric')
      BY HandoffInFlight
  <2>2. <<"prepare", q>> # Head(fabric)
      BY <1>1
  <2>3. Occurrences(<<"prepare", q>>, fabric') \in Nat
      BY HandoffInFlight
  <2> QED
      BY <2>1, <2>2, <2>3
<1>4. output[r] > 1 => state[r] = "handoff"
  <2>1. state[r] = "complete" /\ output[r] > 1 => handoffDone[r]
      BY <1>1 DEF PoolInv, RequestProgress
  <2> QED
      BY <1>1, <2>1
<1>5. state \in [Req -> State] /\ handoffDone \in [Req -> BOOLEAN]
    BY DEF PoolInv, TypeOK
<1> HIDE DEF r
<1>6. CASE q = r
  <2>1. handoffDone'[q] /\ ~handoffDone[q] /\ q \in handedOff'
      BY <1>1, <1>2, <1>5, <1>6
  <2>2. IF output[r] > 1 THEN state[q] = "handoff" /\ state'[q] = "d_decode"
                         ELSE state'[q] = state[q]
      BY <1>2, <1>4, <1>5, <1>6
  <2> QED
      BY <1>1, <1>2, <1>3, <1>6, <2>1, <2>2 DEF Reported
<1>7. CASE q # r
  <2>1. handoffDone'[q] = handoffDone[q] /\ state'[q] = state[q]
      BY <1>2, <1>5, <1>7
  <2> QED
      BY <1>2, <1>3, <1>7, <2>1 DEF Reported
<1> QED
    BY <1>6, <1>7

LEMMA EventReported ==
    ASSUME PoolInv, NEW q \in Req,
           \/ \E E \in SUBSET Event : Tick(E)
           \/ FinishDBatch \/ FinishPBatch \/ FinishHandoff \/ Flush
    PROVE  Reported(q) /\ UNCHANGED <<output, successor>>
<1>1. ASSUME NEW E \in SUBSET Event, Tick(E)
      PROVE  Reported(q) /\ UNCHANGED <<output, successor>>
  <2>1. UNCHANGED <<output, successor, state, handoffDone, fabric, handedOff, completed>>
      BY <1>1 DEF Tick, requestVars
  <2> QED
      BY <2>1, QuietReported
<1>2. CASE Flush
  <2>1. UNCHANGED <<output, successor, state, handoffDone, fabric, handedOff, completed>>
      BY <1>2 DEF Flush, requestVars
  <2> QED
      BY <2>1, QuietReported
<1>3. CASE FinishDBatch
    BY <1>3, DBatchReported DEF FinishDBatch, requestVars
<1>4. CASE FinishPBatch
    BY <1>4, PBatchReported DEF FinishPBatch, requestVars
<1>5. CASE FinishHandoff
    BY <1>5, HandoffReported DEF FinishHandoff, requestVars
<1> QED
    BY <1>1, <1>2, <1>3, <1>4, <1>5

-----------------------------------------------------------------------------
(* The theorems.                                                           *)

\* Whatever events an instant brings, the queues, batches and fabric of the
\* pool and the progress of its requests stay consistent.
THEOREM PoolConsistent == Spec => []PoolInv
<1> QED
    BY InitPoolInv, NextPoolInv, PTL DEF Spec

\* The state of the pool is well typed.
THEOREM PoolTypeCorrect == Spec => []TypeOK
<1>1. PoolInv => TypeOK
    BY DEF PoolInv
<1> QED
    BY <1>1, PoolConsistent, PTL

\* However batches are cut and queues rejoined, no request is lost or served
\* twice: it is in one queue or batch of the worker its state names.
THEOREM NoRequestLost == Spec => []OneQueue
<1>1. PoolInv => OneQueue
    BY DEF PoolInv
<1> QED
    BY <1>1, PoolConsistent, PTL

\* A finished prompt that D needs is carried over exactly once, and D decodes
\* nothing that has not arrived.
THEOREM HandedOverOnce == Spec => []HandoffOnce
<1>1. PoolInv => HandoffOnce
    BY DEF PoolInv
<1> QED
    BY <1>1, PoolConsistent, PTL

\* No batch exceeds the configured sequences or prompt tokens, although the
\* budget is shared out one request at a time.
THEOREM BatchesWithinLimits == Spec => []WithinLimits
<1>1. PoolInv => WithinLimits
    BY DEF PoolInv
<1> QED
    BY <1>1, PoolConsistent, PTL

\* No wakeup is lost: between instants a worker with work runs a batch, or its
\* launch is pending for when its model is free.
THEOREM NoWakeupLost == Spec => []NeverIdleWithWork
<1>1. PoolInv => NeverIdleWithWork
    BY DEF PoolInv
<1> QED
    BY <1>1, PoolConsistent, PTL
-----------------------------------------------------------------------------
(* The pool is a token service.                                            *)

\* What the clients of the service see.
Accepted == {r \in Req : state[r] # "waiting_p"}
Finished == {r \in Req : state[r] = "complete"}
clientVars == <<output, Accepted, generated, Finished>>

LEMMA ServiceInit == Init => Service!Init
<1> SUFFICES ASSUME Init PROVE Service!Init
    OBVIOUS
<1>1. output \in [Req -> Nat \ {0}]
    BY ParametersOK DEF Init
<1>2. {r \in Req : state[r] # "waiting_p"} = {}
    BY DEF Init
<1>3. {r \in Req : state[r] = "complete"} = {}
    BY DEF Init
<1>4. generated = [r \in Req |-> 0]
    BY DEF Init
<1> QED
    BY <1>1, <1>2, <1>3, <1>4 DEF Service!Init

\* The step that gives the members of a batch their next token.
LEMMA TokenStep ==
    ASSUME PoolInv, NEW S \in SUBSET Req, S # {}, output' = output,
           \A q \in Req : IF q \in S
                          THEN /\ state[q] \notin {"waiting_p", "complete"}
                               /\ state'[q] # "waiting_p"
                               /\ generated'[q] = generated[q] + 1
                               /\ state'[q] = "complete" <=> generated[q] + 1 = output[q]
                          ELSE state'[q] = state[q] /\ generated'[q] = generated[q],
           PoolInv'
    PROVE  Service!Next
<1>1. S \subseteq Accepted \ Finished
    BY DEF Accepted, Finished
<1>2. generated' = [q \in Req |-> IF q \in S THEN generated[q] + 1 ELSE generated[q]]
  <2>1. generated' \in [Req -> Nat]
      BY DEF PoolInv, TypeOK
  <2> QED
      BY <2>1
<1>3. Finished' = Finished \cup {q \in S : generated[q] + 1 = output[q]}
    BY DEF Finished
<1>4. Accepted' = Accepted
    BY DEF Accepted
<1>5. Service!Emit(S)
    BY <1>1, <1>2, <1>3, <1>4 DEF Service!Emit, Accepted, Finished
<1> QED
    BY <1>5 DEF Service!Next

LEMMA ServiceStep == PoolInv /\ [Next]_vars => [Service!Next]_clientVars
<1> SUFFICES ASSUME PoolInv, [Next]_vars PROVE Service!Next \/ UNCHANGED clientVars
    OBVIOUS
<1>0. /\ TypeOK /\ RequestProgress /\ EventsHaveCauses
    BY DEF PoolInv
<1>1. ASSUME NEW r \in Req, NEW fresh \in 1..MaxFresh, NEW nothing \in BOOLEAN,
             Submit(r, fresh, nothing)
      PROVE  Service!Next
  <2>1. /\ state[r] = "waiting_p" /\ state' = [state EXCEPT ![r] = "p_prefill"]
        /\ UNCHANGED <<output, generated>> /\ state \in [Req -> State]
      BY <1>0, <1>1 DEF Submit, NoLiveCall, requestVars, TypeOK
  <2>2. r \notin Accepted /\ Accepted' = Accepted \cup {r} /\ Finished' = Finished
      BY <2>1 DEF Accepted, Finished
  <2> QED
      BY <2>1, <2>2 DEF Service!Next, Service!Accept, Accepted, Finished
<1>2. CASE FinishDBatch
  <2> DEFINE batch == ElementsOf(dBatch)
  <2>1. batch \subseteq Req /\ batch # {}
      BY <1>0, <1>2, WhereItIs DEF FinishDBatch, EventsHaveCauses
  <2>2. ASSUME NEW q \in Req
        PROVE  IF q \in batch
               THEN /\ state[q] \notin {"waiting_p", "complete"} /\ state'[q] # "waiting_p"
                    /\ generated'[q] = generated[q] + 1
                    /\ state'[q] = "complete" <=> generated[q] + 1 = output[q]
               ELSE state'[q] = state[q] /\ generated'[q] = generated[q]
    <3>1. /\ generated'[q] = generated[q] + (IF q \in batch THEN 1 ELSE 0)
          /\ state'[q] = IF q \in batch /\ LastToken(q) THEN "complete" ELSE state[q]
        BY <1>2 DEF FinishDBatch
    <3>2. q \in batch => state[q] = "d_decode"
        BY WhereItIs
    <3>3. generated[q] \in Nat
        BY <1>0 DEF TypeOK
    <3>4. CASE q \in batch
      <4>1. generated'[q] = generated[q] + 1 /\ state[q] = "d_decode"
          BY <3>1, <3>2, <3>4
      <4>2. state'[q] = IF LastToken(q) THEN "complete" ELSE "d_decode"
          BY <3>1, <3>4, <4>1
      <4> QED
          BY <3>4, <4>1, <4>2 DEF LastToken
    <3>5. CASE q \notin batch
      <4>1. generated'[q] = generated[q] + 0
          BY <3>1, <3>5
      <4> QED
          BY <3>1, <3>3, <3>5, <4>1
    <3> QED
        BY <3>4, <3>5
  <2>3. output' = output
      BY <1>2 DEF FinishDBatch, requestVars
  <2>4. PoolInv'
      BY <1>2, FinishDBatchStep
  <2> HIDE DEF batch
  <2> QED
      BY <2>1, <2>2, <2>3, <2>4, TokenStep
<1>3. CASE FinishPBatch
  <2> DEFINE first == {r \in ElementsOf(pBatch) : Prefilled(r)}
  <2>1. first \subseteq Req
      BY WhereItIs
  <2>2. ASSUME NEW q \in Req
        PROVE  IF q \in first
               THEN /\ state[q] \notin {"waiting_p", "complete"} /\ state'[q] # "waiting_p"
                    /\ generated'[q] = generated[q] + 1
                    /\ state'[q] = "complete" <=> generated[q] + 1 = output[q]
               ELSE /\ state'[q] = state[q] /\ generated'[q] = generated[q]
    <3>1. CASE q \in first
      <4>1. q \in ElementsOf(pBatch) /\ Prefilled(q)
          BY <3>1
      <4>2. /\ state[q] = "p_prefill" /\ generated[q] = 0 /\ generated'[q] = 1
            /\ state'[q] = IF output[q] = 1 THEN "complete"
                           ELSE IF HandsOverAtOnce(q) THEN "d_decode" ELSE "handoff"
          BY <1>3, <4>1, PrefillOutcome
      <4>3. output[q] \in Nat
          BY <1>0, ParametersOK DEF TypeOK
      <4> QED
          BY <3>1, <4>2, <4>3
    <3>2. CASE q \notin first
      <4>1. CASE q \in ElementsOf(pBatch)
        <5>1. ~Prefilled(q)
            BY <3>2, <4>1
        <5>2. /\ state[q] = "p_prefill" /\ generated[q] = 0
              /\ state'[q] = "p_prefill" /\ generated'[q] = 0
            BY <1>3, <4>1, <5>1, PrefillOutcome
        <5> QED
            BY <3>2, <5>2
      <4>2. CASE q \notin ElementsOf(pBatch)
        <5>1. state'[q] = state[q] /\ generated'[q] = generated[q]
            BY <1>3, <4>2, PrefillOutcome
        <5> QED
            BY <3>2, <5>1
      <4> QED
          BY <4>1, <4>2
    <3> QED
        BY <3>1, <3>2
  <2>3. output' = output
      BY <1>3 DEF FinishPBatch, requestVars
  <2>4. PoolInv'
      BY <1>3, FinishPBatchStep
  <2> HIDE DEF first
  <2>5. CASE first # {}
      BY <2>1, <2>2, <2>3, <2>4, <2>5, TokenStep
  <2>6. CASE first = {}
    <3>1. \A q \in Req : state'[q] = state[q] /\ generated'[q] = generated[q]
        BY <2>2, <2>6
    <3>2. generated' = generated
      <4>1. generated \in [Req -> Nat] /\ generated' \in [Req -> Nat]
          BY <2>4 DEF PoolInv, TypeOK
      <4> QED
          BY <3>1, <4>1
    <3>3. Accepted' = Accepted /\ Finished' = Finished
        BY <3>1 DEF Accepted, Finished
    <3> QED
        BY <2>3, <3>2, <3>3 DEF clientVars
  <2> QED
      BY <2>5, <2>6
<1>4. CASE FinishHandoff
  <2> DEFINE r == Head(fabric)[2]
  <2>1. UNCHANGED <<output, generated>>
      BY <1>4 DEF FinishHandoff, requestVars, tokenVars
  <2>2. \/ state' = state
        \/ output[r] > 1 /\ state' = [state EXCEPT ![r] = "d_decode"]
      BY <1>4 DEF FinishHandoff
  <2>3. ASSUME output[r] > 1, r \in Req
        PROVE  state[r] \notin {"waiting_p", "complete"}
      BY <1>4, <2>3, HandoffInFlight
  <2>4. state \in [Req -> State]
      BY <1>0 DEF TypeOK
  <2>5. Accepted' = Accepted /\ Finished' = Finished
    <3> SUFFICES ASSUME NEW q \in Req
                 PROVE  /\ state'[q] # "waiting_p" <=> state[q] # "waiting_p"
                        /\ state'[q] = "complete" <=> state[q] = "complete"
        BY DEF Accepted, Finished
    <3> HIDE DEF r
    <3>1. CASE q = r
        BY <2>2, <2>3, <2>4, <3>1
    <3>2. CASE q # r
        BY <2>2, <2>4, <3>2
    <3> QED
        BY <3>1, <3>2
  <2> QED
      BY <2>1, <2>5 DEF clientVars
<1>5. ASSUME UNCHANGED <<output, state, generated>> PROVE UNCHANGED clientVars
    BY <1>5 DEF clientVars, Accepted, Finished
<1>6. CASE \/ \E E \in SUBSET Event : Tick(E)
           \/ FinishLaunches \/ Flush
           \/ \E s \in Stage : Hold(s) \/ Unhold(s)
           \/ \E r \in Req : PopHandoffCompleted(r) \/ PopCompleted(r)
  <2>1. UNCHANGED <<output, state, generated>>
      BY <1>6 DEF Tick, FinishLaunches, Flush, Hold, Unhold, PopHandoffCompleted, PopCompleted,
                  requestVars, tokenVars
  <2> QED
      BY <1>5, <2>1
<1>7. CASE UNCHANGED vars
  <2>1. UNCHANGED <<output, state, generated>>
      BY <1>7 DEF vars, requestVars, tokenVars
  <2> QED
      BY <1>5, <2>1
<1> QED
    BY <1>1, <1>2, <1>3, <1>4, <1>6, <1>7 DEF Next

\* The split over two workers and the handoff between them are invisible: no
\* step takes a token back, gives one too many or finishes a request early.
THEOREM PoolServesTokens == Spec => ServesTokens
<1>1. Init => Service!Init
    BY ServiceInit
<1>2. PoolInv /\ [Next]_vars
        => [Service!Next]_<<output, {r \in Req : state[r] # "waiting_p"}, generated,
                            {r \in Req : state[r] = "complete"}>>
    BY ServiceStep DEF clientVars, Accepted, Finished
<1> QED
    BY <1>1, <1>2, PoolConsistent, PTL DEF Spec, ServesTokens, Service!Spec
=============================================================================
