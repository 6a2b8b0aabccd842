-------------------------------- MODULE PDPool --------------------------------
(***************************************************************************)
(* P4D4ServingPool of serving/core/gpu_pd_pool.py: one prefill worker (P)  *)
(* and one decode worker (D), each running one batch at a time, and the    *)
(* peer fabric that carries the KV of a prefilled request from P to D.     *)
(*                                                                         *)
(* The pool is driven by a single-threaded event loop.  What happens at    *)
(* one instant of simulated time happens in a fixed order: the D batch     *)
(* that ends, the P batch that ends, the handoff that ends, the launches   *)
(* that were waiting for a model to become free, the submissions of that   *)
(* instant, and last the forming of new batches (flush_scheduling).  Every *)
(* service time is positive and otherwise unknown, so any of the pending   *)
(* events may be the ones of the next instant; jobs on the fabric end in   *)
(* the order in which they reserved it.                                    *)
(***************************************************************************)
EXTENDS BoundedTotals, Queues

CONSTANTS
    Session,     \* session identifiers
    MaxCalls,    \* bound on the requests of one session
    MaxFresh,    \* bound on p_fresh_tokens
    Outputs,     \* output lengths
    MaxTokens,   \* max_num_batched_tokens
    MaxChunk,    \* max_prefill_chunk_tokens
    PMaxSeqs,    \* p_max_num_seqs
    DMaxSeqs,    \* d_max_num_seqs
    MaxHolds     \* bound on the reservations others make on a model

ASSUME PoolAssumption ==
    /\ IsFiniteSet(Session) /\ MaxCalls \in Nat /\ MaxFresh \in Nat /\ MaxHolds \in Nat
    /\ Outputs \subseteq Nat \ {0}
    /\ MaxTokens \in Nat \ {0} /\ MaxChunk \in 1..MaxTokens
    /\ PMaxSeqs \in Nat \ {0} /\ DMaxSeqs \in Nat \ {0}

\* A request is one call of a session, the session's calls numbered in order.
Req   == Session \X (1..MaxCalls)
Stage == {"p", "d"}
State == {"waiting_p", "p_prefill", "handoff", "d_decode", "complete"}
Event == {"d batch", "p batch", "fabric", "p launch", "d launch"}
LaunchEvent == [p |-> "p launch", d |-> "d launch"]

VARIABLES
    output,      \* output_tokens of each request
    successor,   \* has_successor
    state,       \* PDRequestState, "waiting_p" until it is submitted
    left,        \* p_remaining_tokens
    covered,     \* handoff_tokens = 0: D has the whole prompt already
    chunk,       \* query_tokens of the request in the running P batch
    generated,   \* generated_tokens
    handoffDone, \* handoff_done
    pWaiting, dWaiting,  \* the queues of the two workers
    pBatch, dBatch,      \* their running batches, <<>> when idle
    fabric,      \* the jobs on the peer fabric, in the order they reserved it
    held,        \* the models reserved by another user of the calendar
    launch,      \* the workers with a pending launch
    holds,       \* how many such reservations there have been
    due,         \* the events of this instant still to be processed
    open,        \* batches of this instant are still to be formed
    handedOff,   \* _completed_handoff_request_ids
    completed    \* _completed_request_ids

requestVars == <<output, successor>>
tokenVars   == <<left, covered, chunk, generated>>
workerVars  == <<pWaiting, dWaiting, pBatch, dBatch>>
modelVars   == <<held, launch, holds>>
vars == <<requestVars, state, tokenVars, handoffDone, workerVars, fabric,
          modelVars, due, open, handedOff, completed>>

Least(a, b) == IF a <= b THEN a ELSE b
ElementsOf(s) == {s[i] : i \in DOMAIN s}

\* The fabric carries handoffs and, for the node around the pool, the copies
\* of a resumed session's prefix from D to P.
Job == {"handoff", "prepare"} \X Req

Init ==
    /\ output \in [Req -> Outputs] /\ successor \in [Req -> BOOLEAN]
    /\ state = [r \in Req |-> "waiting_p"]
    /\ left = [r \in Req |-> 0] /\ covered = [r \in Req |-> FALSE]
    /\ chunk = [r \in Req |-> 0] /\ generated = [r \in Req |-> 0]
    /\ handoffDone = [r \in Req |-> FALSE]
    /\ pWaiting = <<>> /\ dWaiting = <<>> /\ pBatch = <<>> /\ dBatch = <<>>
    /\ fabric = <<>>
    /\ held = {} /\ launch = {} /\ holds = 0
    /\ due = {} /\ open = FALSE
    /\ handedOff = {} /\ completed = {}

-----------------------------------------------------------------------------
(* Submissions. *)

\* The session's earlier request is complete, which does not mean that its
\* handoff is.
NoLiveCall(r) ==
    /\ state[r] = "waiting_p"
    /\ \A k \in 1..(r[2] - 1) : state[<<r[1], k>>] = "complete"

(***************************************************************************)
(* submit_many, up to its flush: r has fresh prompt tokens to compute on P *)
(* and joins the tail of the P queue.  The events of the instant have been *)
(* processed before.                                                       *)
(***************************************************************************)
Submit(r, fresh, nothingToHand) ==
    /\ due = {} /\ NoLiveCall(r)
    /\ state' = [state EXCEPT ![r] = "p_prefill"]
    /\ left' = [left EXCEPT ![r] = fresh]
    /\ covered' = [covered EXCEPT ![r] = nothingToHand]
    /\ pWaiting' = Append(pWaiting, r)
    /\ open' = TRUE
    /\ UNCHANGED <<requestVars, chunk, generated, handoffDone, dWaiting, pBatch, dBatch,
                   fabric, modelVars, due, handedOff, completed>>

-----------------------------------------------------------------------------
(* Forming batches. *)

Want(r) == Least(left[r], MaxChunk)

\* What the requests ahead of position i leave of the token budget.
BudgetAt(i) ==
    MaxTokens - Total([j \in 1..(i - 1) |-> Want(pWaiting[j])], MaxFresh)

\* _select_p_batch: the head of the queue, while sequences and tokens last.
PSelected == {i \in DOMAIN pWaiting : i <= PMaxSeqs /\ BudgetAt(i) > 0}

\* _select_d_batch: every decode takes one token.
DSelected == {i \in DOMAIN dWaiting : i <= DMaxSeqs /\ i <= MaxTokens}

\* Mutant: a launch that has to wait is not remembered.
WaitForModelForgets(waiting, stage) == FALSE

\* _try_schedule finds work for an idle worker whose model is in use.
WaitForModel(waiting, stage) == waiting # <<>> /\ stage \in held

TakeBatch(selected, waiting) == SubSeq(waiting, 1, Cardinality(selected))

LeaveRest(selected, waiting) == SubSeq(waiting, Cardinality(selected) + 1, Len(waiting))

LaunchP ==
    IF pBatch # <<>> \/ pWaiting = <<>> \/ "p" \in held
    THEN UNCHANGED <<pBatch, pWaiting, chunk>>
    ELSE /\ pBatch' = TakeBatch(PSelected, pWaiting)
         /\ pWaiting' = LeaveRest(PSelected, pWaiting)
         /\ chunk' = [r \in Req |->
                IF \E i \in PSelected : pWaiting[i] = r
                THEN LET i == CHOOSE i \in PSelected : pWaiting[i] = r
                     IN  Least(Want(r), BudgetAt(i))
                ELSE 0]

\* Mutant: decodes wait for a running prefill to end.
LaunchDAfterP ==
    IF dBatch # <<>> \/ dWaiting = <<>> \/ "d" \in held \/ pBatch # <<>>
    THEN UNCHANGED <<dBatch, dWaiting>>
    ELSE /\ dBatch' = TakeBatch(DSelected, dWaiting)
         /\ dWaiting' = LeaveRest(DSelected, dWaiting)

LaunchD ==
    IF dBatch # <<>> \/ dWaiting = <<>> \/ "d" \in held
    THEN UNCHANGED <<dBatch, dWaiting>>
    ELSE /\ dBatch' = TakeBatch(DSelected, dWaiting)
         /\ dWaiting' = LeaveRest(DSelected, dWaiting)

(***************************************************************************)
(* flush_scheduling: each idle worker with work starts a batch, or asks to *)
(* be launched when its model becomes free.                                *)
(***************************************************************************)
Flush ==
    /\ open /\ due = {}
    /\ LaunchP /\ LaunchD
    /\ launch' = {s \in Stage :
                    \/ s = "p" /\ pBatch = <<>> /\ WaitForModel(pWaiting, s)
                    \/ s = "d" /\ dBatch = <<>> /\ WaitForModel(dWaiting, s)}
    /\ open' = FALSE
    /\ UNCHANGED <<requestVars, state, left, covered, generated, handoffDone, fabric,
                   held, holds, due, handedOff, completed>>

-----------------------------------------------------------------------------
(* The events of an instant. *)

Pending ==
    {e \in Event : \/ e = "d batch" /\ dBatch # <<>>
                   \/ e = "p batch" /\ pBatch # <<>>
                   \/ e = "fabric" /\ fabric # <<>>
                   \/ \E s \in launch : e = LaunchEvent[s]}

\* advance: the next instant at which something happens.
Tick(E) ==
    /\ ~open /\ due = {}
    /\ E # {} /\ E \subseteq Pending
    /\ due' = E /\ open' = TRUE
    /\ UNCHANGED <<requestVars, state, tokenVars, handoffDone, workerVars, fabric,
                   modelVars, handedOff, completed>>

\* Mutant: a request is only complete with the token after its last.
LastTokenLate(r) == generated[r] = output[r]

LastToken(r) == generated[r] + 1 = output[r]

\* _finish_d_batch: every member gets a token; those with all of them leave.
FinishDBatch ==
    /\ "d batch" \in due
    /\ LET batch  == ElementsOf(dBatch)
           ending == {r \in batch : LastToken(r)}
       IN  /\ generated' = [r \in Req |-> generated[r] + (IF r \in batch THEN 1 ELSE 0)]
           /\ state' = [r \in Req |-> IF r \in ending THEN "complete" ELSE state[r]]
           /\ completed' = completed \cup ending
           /\ dWaiting' = dWaiting \o Only(dBatch, batch \ ending)
    /\ dBatch' = <<>>
    /\ due' = due \ {"d batch"}
    /\ UNCHANGED <<requestVars, left, covered, chunk, handoffDone, pWaiting, pBatch,
                   fabric, modelVars, open, handedOff>>

\* D needs the prompt's KV to decode, or to keep it for the session's next call.
NeedsHandoff(r) == output[r] > 1 \/ successor[r]

Prefilled(r) == left[r] = chunk[r]

\* A handoff with nothing to carry ends where it starts.
HandsOverAtOnce(r) == Prefilled(r) /\ NeedsHandoff(r) /\ covered[r]

(***************************************************************************)
(* _finish_p_batch: an unfinished prompt goes to the tail of the queue.  A *)
(* finished one has produced the first token: it completes if that was its *)
(* only one, and its KV is handed to D.                                    *)
(***************************************************************************)
FinishPBatch ==
    /\ "p batch" \in due /\ "d batch" \notin due
    /\ LET batch  == ElementsOf(pBatch)
           first  == {r \in batch : Prefilled(r)}
           atOnce == {r \in batch : HandsOverAtOnce(r)}
           queued == Only(pBatch, {r \in first : NeedsHandoff(r)} \ atOnce)
       IN  /\ left' = [r \in Req |-> left[r] - (IF r \in batch THEN chunk[r] ELSE 0)]
           /\ generated' = [r \in Req |-> IF r \in first THEN 1 ELSE generated[r]]
           /\ state' = [r \in Req |->
                  IF r \notin first THEN state[r]
                  ELSE IF output[r] = 1 THEN "complete"
                  ELSE IF r \in atOnce THEN "d_decode" ELSE "handoff"]
           /\ completed' = completed \cup {r \in first : output[r] = 1}
           /\ handoffDone' = [r \in Req |-> handoffDone[r] \/ r \in atOnce]
           /\ handedOff' = handedOff \cup atOnce
           /\ fabric' = fabric \o [i \in DOMAIN queued |-> <<"handoff", queued[i]>>]
           /\ pWaiting' = pWaiting \o Only(pBatch, batch \ first)
           /\ dWaiting' = dWaiting \o Only(pBatch, {r \in atOnce : output[r] > 1})
    /\ chunk' = [r \in Req |-> 0]
    /\ pBatch' = <<>>
    /\ due' = due \ {"p batch"}
    /\ UNCHANGED <<requestVars, covered, dBatch, modelVars, open>>

\* The batches of the instant are processed: the job that ends on the fabric.
FabricEnds(kind) ==
    /\ "fabric" \in due /\ due \cap {"d batch", "p batch"} = {}
    /\ Head(fabric)[1] = kind
    /\ fabric' = Tail(fabric)
    /\ due' = due \ {"fabric"}

\* _finish_handoff: D may decode the request, if anything is left to decode.
FinishHandoff ==
    /\ FabricEnds("handoff")
    /\ LET r == Head(fabric)[2] IN
       /\ handoffDone' = [handoffDone EXCEPT ![r] = TRUE]
       /\ handedOff' = handedOff \cup {r}
       /\ IF output[r] > 1
          THEN /\ state' = [state EXCEPT ![r] = "d_decode"]
               /\ dWaiting' = Append(dWaiting, r)
          ELSE UNCHANGED <<state, dWaiting>>
    /\ UNCHANGED <<requestVars, tokenVars, pWaiting, pBatch, dBatch, modelVars, open, completed>>

\* The models that launches wait for are free, the last events of an instant.
FinishLaunches ==
    /\ due # {} /\ due \subseteq {"p launch", "d launch"}
    /\ LET freed == {s \in Stage : LaunchEvent[s] \in due}
       IN  held' = held \ freed /\ launch' = launch \ freed
    /\ due' = {}
    /\ UNCHANGED <<requestVars, state, tokenVars, handoffDone, workerVars, fabric,
                   holds, open, handedOff, completed>>

-----------------------------------------------------------------------------
(* The pool's surroundings. *)

\* Another user of the resource calendar reserves a worker's model; when
\* nothing waits for the model the reservation ends unnoticed.
Hold(s) ==
    /\ ~open /\ holds < MaxHolds /\ s \notin held
    /\ held' = held \cup {s} /\ holds' = holds + 1
    /\ UNCHANGED <<requestVars, state, tokenVars, handoffDone, workerVars, fabric,
                   launch, due, open, handedOff, completed>>

Unhold(s) ==
    /\ ~open /\ s \in held \ launch
    /\ held' = held \ {s}
    /\ UNCHANGED <<requestVars, state, tokenVars, handoffDone, workerVars, fabric,
                   launch, holds, due, open, handedOff, completed>>

\* pop_handoff_completed and pop_completed, one notification at a time.
PopHandoffCompleted(r) ==
    /\ r \in handedOff
    /\ handedOff' = handedOff \ {r}
    /\ UNCHANGED <<requestVars, state, tokenVars, handoffDone, workerVars, fabric,
                   modelVars, due, open, completed>>

PopCompleted(r) ==
    /\ r \in completed
    /\ completed' = completed \ {r}
    /\ UNCHANGED <<requestVars, state, tokenVars, handoffDone, workerVars, fabric,
                   modelVars, due, open, handedOff>>

Next ==
    \/ \E r \in Req, fresh \in 1..MaxFresh, nothingToHand \in BOOLEAN :
           Submit(r, fresh, nothingToHand)
    \/ \E E \in SUBSET Event : Tick(E)
    \/ FinishDBatch \/ FinishPBatch \/ FinishHandoff \/ FinishLaunches
    \/ Flush
    \/ \E s \in Stage : Hold(s) \/ Unhold(s)
    \/ \E r \in Req : PopHandoffCompleted(r) \/ PopCompleted(r)

Spec == Init /\ [][Next]_vars

(***************************************************************************)
(* run_until_idle, and the nodes, advance the pool from event to event     *)
(* while there is one and process what an instant brings.  Nobody has to   *)
(* submit, to reserve or to end a reservation.                             *)
(***************************************************************************)
Advance ==
    \/ \E E \in SUBSET Event : Tick(E)
    \/ FinishDBatch \/ FinishPBatch \/ FinishHandoff \/ FinishLaunches
    \/ Flush

FairSpec == Spec /\ WF_vars(Advance)

-----------------------------------------------------------------------------
(* Correctness *)

\* Every variable of the pool keeps its type.
TypeOK ==
    /\ output \in [Req -> Outputs] /\ successor \in [Req -> BOOLEAN]
    /\ state \in [Req -> State]
    /\ left \in [Req -> 0..MaxFresh] /\ covered \in [Req -> BOOLEAN]
    /\ chunk \in [Req -> 0..MaxChunk] /\ generated \in [Req -> Nat]
    /\ handoffDone \in [Req -> BOOLEAN]
    /\ pWaiting \in Seq(Req) /\ dWaiting \in Seq(Req)
    /\ pBatch \in Seq(Req) /\ dBatch \in Seq(Req)
    /\ fabric \in Seq(Job)
    /\ held \subseteq Stage /\ launch \subseteq Stage /\ holds \in 0..MaxHolds
    /\ due \subseteq Event /\ open \in BOOLEAN
    /\ handedOff \subseteq Req /\ completed \subseteq Req

\* However batches and queues are cut and rejoined, a live request is queued or
\* running exactly once, on the worker its state names, and a request that is
\* handing over or complete is not (assert_invariants: "live request queue
\* multiplicity is not one").
OneQueue ==
    \A r \in Req :
        /\ Occurrences(r, pWaiting) + Occurrences(r, pBatch)
               = (IF state[r] = "p_prefill" THEN 1 ELSE 0)
        /\ Occurrences(r, dWaiting) + Occurrences(r, dBatch)
               = (IF state[r] = "d_decode" THEN 1 ELSE 0)

\* D will read r's prompt, to decode it or to serve the session's next call.
NeededOnD(r) == output[r] > 1 \/ successor[r]

\* A finished prompt that D needs is on the fabric exactly once or has arrived,
\* also when its request is already complete; D decodes nothing that has not
\* arrived, and nothing is handed over that D does not need.
HandoffOnce ==
    \A r \in Req :
        /\ Occurrences(<<"handoff", r>>, fabric) =
               (IF /\ state[r] \in {"handoff", "d_decode", "complete"}
                   /\ NeededOnD(r) /\ ~handoffDone[r] THEN 1 ELSE 0)
        /\ state[r] = "d_decode" => handoffDone[r]
        /\ handoffDone[r] => NeededOnD(r) /\ left[r] = 0

\* What runs fits the configured batch: sequences on either side, and on P the
\* prompt tokens of all members together.
WithinLimits ==
    /\ Len(pBatch) <= PMaxSeqs /\ Total(chunk, MaxChunk) <= MaxTokens
    /\ Len(dBatch) <= Least(DMaxSeqs, MaxTokens)
    /\ \A r \in Req : chunk[r] > 0 <=> r \in ElementsOf(pBatch)

\* No wakeup is lost: once an instant is over, a worker with work runs a batch
\* or has a launch pending for when its model is free, and never both
\* (run_until_idle: "P/D pool became idle with queued work").
NeverIdleWithWork ==
    /\ ~open => /\ pWaiting # <<>> => pBatch # <<>> \/ "p" \in launch
                /\ dWaiting # <<>> => dBatch # <<>> \/ "d" \in launch
    /\ "p" \in launch => pBatch = <<>> /\ "p" \in held
    /\ "d" \in launch => dBatch = <<>> /\ "d" \in held

\* The pool is a token service, the same a single-instance scheduler is: the
\* split over two workers and the handoff between them stay invisible.
Service == INSTANCE TokenService WITH
    wanted <- output, accepted <- {r \in Req : state[r] # "waiting_p"},
    emitted <- generated, finished <- {r \in Req : state[r] = "complete"}

ServesTokens == Service!Spec

Settled(r) == state[r] = "complete" /\ (NeededOnD(r) => handoffDone[r])

\* Every submitted request completes, and its KV reaches D if D needs it.
EveryRequestSettled == \A r \in Req : state[r] = "p_prefill" ~> Settled(r)
=============================================================================
