------------------------------ MODULE StrictNode ------------------------------
(***************************************************************************)
(* StrictInfiniteHBMNode of serving/core/gpu_pd_oracle_node.py: the calls  *)
(* of agent sessions on one P4D4 node whose memory never runs out.  The    *)
(* node composes the serving pool (PDPool) with the HBM transactions       *)
(* (PDHBM) and the peer fabric the two share:                              *)
(*                                                                         *)
(*   released call -> admitted -> prefix copied from D back to P, if any   *)
(*     -> pool: prefill, handoff, decode -> user-complete -> drained       *)
(*                                                                         *)
(* A one-token call is user-complete at its prefill; its session's next    *)
(* call may be released while its KV is still on the way to D, and waits.  *)
(* Within one instant the node runs the pool's events, the copies that     *)
(* end, the pool's notifications, the calls released, and then             *)
(* flush_scheduling: admissions, submissions to the pool, new batches.     *)
(***************************************************************************)
EXTENDS BoundedTotals, Queues

CONSTANTS
    Session,     \* session identifiers
    MaxCalls,    \* bound on the calls of a session
    Inputs, Outputs,     \* prompt and output lengths
    Prefixes,    \* prefix_reuse_tokens a call may ask for
    MaxContext,  \* bound on input + output - 1
    BlockSize,   \* tokens in one KV block
    MaxTokens, MaxChunk, PMaxSeqs, DMaxSeqs  \* the limits of the pool

VARIABLES
    output, successor, state, left, covered, chunk, generated, handoffDone,
    pWaiting, dWaiting, pBatch, dBatch, fabric, held, launch, holds, due, open,
    handedOff, completed,             \* the pool
    p, d, active, nextId, issued,     \* the HBM books
    callState,     \* OracleCallState, "unreleased" before submit_many
    input,         \* input_tokens
    reuse,         \* prefix_reuse_tokens
    hit,           \* operational_hit_tokens
    pendingCalls,  \* _pending_call_ids
    readyCalls,    \* _ready_call_ids
    activeCall,    \* active_request_id of each session, NoCall for None
    materialized,  \* materialized_tokens
    resident,      \* d_resident
    ended          \* ended

poolVars == <<output, successor, state, left, covered, chunk, generated, handoffDone,
              pWaiting, dWaiting, pBatch, dBatch, fabric, held, launch, holds, due,
              open, handedOff, completed>>
hbmVars  == <<p, d, active, nextId, issued>>
callVars == <<callState, input, reuse, hit, pendingCalls, readyCalls>>
placementVars == <<activeCall, materialized, resident, ended>>
vars == <<poolVars, hbmVars, callVars, placementVars>>

\* The node's capacity, a stand-in for INFINITE_HBM_PROOF_BYTES_PER_RANK: the
\* largest context of every session at once.
Capacity == Cardinality(Session) * (MaxContext + BlockSize)

Pool == INSTANCE PDPool WITH MaxFresh <- MaxContext, MaxHolds <- 0
HBM  == INSTANCE PDHBM WITH
    PCap <- Capacity, DCap <- Capacity,
    MaxAdmissions <- MaxCalls * Cardinality(Session), LateCancel <- FALSE

ASSUME NodeAssumption ==
    /\ IsFiniteSet(Session) /\ Session # {} /\ MaxCalls \in Nat /\ MaxContext \in Nat
    /\ BlockSize \in Nat \ {0}
    /\ MaxTokens \in Nat \ {0} /\ MaxChunk \in 1..MaxTokens
    /\ PMaxSeqs \in Nat \ {0} /\ DMaxSeqs \in Nat \ {0}
    /\ Inputs \subseteq Nat \ {0} /\ Outputs \subseteq Nat \ {0}
    /\ Prefixes \subseteq 0..MaxContext
    /\ \A i \in Inputs, o \in Outputs : i + o - 1 <= MaxContext

Req == Session \X (1..MaxCalls)
CallState == {"unreleased", "pending", "preparing", "executing",
              "user_complete", "internal_complete"}
NoCall == 0

Init ==
    /\ Pool!Init /\ HBM!Init
    /\ callState = [r \in Req |-> "unreleased"]
    /\ input = [r \in Req |-> 0] /\ reuse = [r \in Req |-> 0] /\ hit = [r \in Req |-> 0]
    /\ pendingCalls = <<>> /\ readyCalls = <<>>
    /\ activeCall = [s \in Session |-> NoCall]
    /\ materialized = [s \in Session |-> 0]
    /\ resident = [s \in Session |-> FALSE]
    /\ ended = [s \in Session |-> FALSE]

-----------------------------------------------------------------------------
(* The events of an instant, in the order of advance. *)

\* The pool's own part of the instant.
PoolEvent ==
    /\ \/ \E E \in SUBSET Pool!Event : Pool!Tick(E)
       \/ Pool!FinishDBatch \/ Pool!FinishPBatch \/ Pool!FinishHandoff
    /\ UNCHANGED <<hbmVars, callVars, placementVars>>

(***************************************************************************)
(* _process_prepare_completions: the prefix has been copied from D to P,   *)
(* so the old context on D shrinks to what the new turn will need there.   *)
(***************************************************************************)
FinishPrepare ==
    /\ Pool!FabricEnds("prepare")
    /\ LET r == Head(fabric)[2] IN
       /\ HBM!ReleaseDSource(active[r[1]])
       /\ readyCalls' = Append(readyCalls, r)
    /\ UNCHANGED <<output, successor, state, left, covered, chunk, generated, handoffDone,
                   pWaiting, dWaiting, pBatch, dBatch, held, launch, holds, open,
                   handedOff, completed, callState, input, reuse, hit, pendingCalls,
                   placementVars>>

UserComplete(r) == callState[r] \in {"user_complete", "internal_complete"}

\* final_materialized_kv_tokens.
Materialized(r) == input[r] + output[r] - 1

\* _finish_internal, the part that concerns the session.
ReleaseSession(r) ==
    /\ callState' = [callState EXCEPT ![r] = "internal_complete"]
    /\ activeCall' = [activeCall EXCEPT ![r[1]] = NoCall]
    /\ materialized' = [materialized EXCEPT ![r[1]] = Materialized(r)]
    /\ resident' = [resident EXCEPT ![r[1]] = successor[r]]
    /\ ended' = [ended EXCEPT ![r[1]] = ~successor[r]]

(***************************************************************************)
(* _consume_pool_notifications for a handoff: the prompt leaves P.  If the *)
(* call is user-complete it ends here, and finish, called right after      *)
(* release_p, gives back P as well.                                        *)
(***************************************************************************)
ConsumeHandoff(r) ==
    /\ due = {}
    /\ Pool!PopHandoffCompleted(r)
    /\ IF UserComplete(r)
       THEN HBM!Finish(active[r[1]], successor[r]) /\ ReleaseSession(r)
       ELSE HBM!ReleaseP(active[r[1]]) /\ UNCHANGED <<callState, placementVars>>
    /\ UNCHANGED <<input, reuse, hit, pendingCalls, readyCalls>>

\* Mutants: a one-token call ends although D is still being sent its prompt,
\* or waits for a handoff that a session's last call does not make.
DrainedEarly(r)     == TRUE
DrainedByHandoff(r) == handoffDone[r]

\* The call ends with its last token unless D still has to receive its prompt.
Drained(r) == handoffDone[r] \/ ~(output[r] = 1 /\ successor[r])

\* The same method for a completion, after all the handoffs.
ConsumeCompleted(r) ==
    /\ due = {} /\ handedOff = {}
    /\ Pool!PopCompleted(r)
    /\ IF Drained(r)
       THEN HBM!Finish(active[r[1]], successor[r]) /\ ReleaseSession(r)
       ELSE /\ callState' = [callState EXCEPT ![r] = "user_complete"]
            /\ UNCHANGED <<hbmVars, placementVars>>
    /\ UNCHANGED <<input, reuse, hit, pendingCalls, readyCalls>>

-----------------------------------------------------------------------------
(* Calls released at this instant. *)

InstantProcessed == due = {} /\ handedOff = {} /\ completed = {}

\* submit_many, up to its flush.  A session's calls come in order, each after
\* the one before it is user-complete.
Release(r, tokens, prefix) ==
    /\ InstantProcessed
    /\ callState[r] = "unreleased"
    /\ r[2] > 1 => /\ UserComplete(<<r[1], r[2] - 1>>)
                   /\ successor[<<r[1], r[2] - 1>>]
    /\ prefix <= (IF r[2] = 1 THEN 0 ELSE tokens)
    /\ callState' = [callState EXCEPT ![r] = "pending"]
    /\ input' = [input EXCEPT ![r] = tokens]
    /\ reuse' = [reuse EXCEPT ![r] = prefix]
    /\ pendingCalls' = Append(pendingCalls, r)
    /\ open' = TRUE
    /\ UNCHANGED <<output, successor, state, left, covered, chunk, generated, handoffDone,
                   pWaiting, dWaiting, pBatch, dBatch, fabric, held, launch, holds, due,
                   handedOff, completed, hbmVars, hit, readyCalls, placementVars>>

-----------------------------------------------------------------------------
(* flush_scheduling *)

Admissible(i) == activeCall[pendingCalls[i][1]] = NoCall
NoneAdmissible == \A i \in DOMAIN pendingCalls : ~Admissible(i)

\* Mutant: the copy from D may be as long as the whole prompt.
OperationalHitWhole(r) ==
    IF r[2] = 1 \/ ~resident[r[1]] THEN 0
    ELSE Pool!Least(reuse[r], materialized[r[1]])

\* _operational_hit: the prefix of the prompt that D still has, leaving P at
\* least one token to compute.
OperationalHit(r) ==
    IF r[2] = 1 \/ ~resident[r[1]] THEN 0
    ELSE Pool!Least(Pool!Least(reuse[r], materialized[r[1]]), input[r] - 1)

NeedsD(r) == output[r] > 1 \/ successor[r]

\* Mutants: the old context on D is given up before it is copied, or kept next
\* to the new one.
SourceDuringCopyDropped(a, hitTokens) == a.target
SourceDuringCopyTwice(a, hitTokens)   == IF hitTokens > 0 THEN a.prior + a.target ELSE a.target

\* try_admit keeps the old context on D for the copy; without one to make,
\* release_d_source follows at once.
SourceDuringCopy(a, hitTokens) == IF hitTokens > 0 THEN a.held ELSE a.target

(***************************************************************************)
(* _admit_pending, for the first call whose session is idle.  The calls it *)
(* passes over stay in their order.                                        *)
(***************************************************************************)
Admit(i) ==
    LET r == pendingCalls[i]
        a == HBM!Proposal(r[1], input[r], output[r], NeedsD(r))
        h == OperationalHit(r)
    IN
    /\ open /\ InstantProcessed
    /\ Admissible(i) /\ \A j \in 1..(i - 1) : ~Admissible(j)
    /\ HBM!Feasible(a) /\ HBM!Fits(a)
    /\ p' = [p EXCEPT ![r[1]] = a.p]
    /\ d' = [d EXCEPT ![r[1]] = SourceDuringCopy(a, h)]
    /\ active' = [active EXCEPT ![r[1]] = a]
    /\ issued' = issued \cup {a} /\ nextId' = nextId + 1
    /\ pendingCalls' = SubSeq(pendingCalls, 1, i - 1)
                         \o SubSeq(pendingCalls, i + 1, Len(pendingCalls))
    /\ activeCall' = [activeCall EXCEPT ![r[1]] = r[2]]
    /\ hit' = [hit EXCEPT ![r] = h]
    /\ IF h > 0
       THEN /\ fabric' = Append(fabric, <<"prepare", r>>)
            /\ callState' = [callState EXCEPT ![r] = "preparing"]
            /\ UNCHANGED readyCalls
       ELSE /\ readyCalls' = Append(readyCalls, r)
            /\ UNCHANGED <<fabric, callState>>
    /\ UNCHANGED <<output, successor, state, left, covered, chunk, generated, handoffDone,
                   pWaiting, dWaiting, pBatch, dBatch, held, launch, holds, due, open,
                   handedOff, completed, input, reuse, materialized, resident, ended>>

\* _submit_ready, for the call at the head: D is only sent what it lacks.
SubmitReady ==
    /\ open /\ InstantProcessed /\ NoneAdmissible /\ readyCalls # <<>>
    /\ LET r == Head(readyCalls) IN
       /\ Pool!Submit(r, input[r] - hit[r], input[r] = hit[r])
       /\ callState' = [callState EXCEPT ![r] = "executing"]
    /\ readyCalls' = Tail(readyCalls)
    /\ UNCHANGED <<hbmVars, input, reuse, hit, pendingCalls, placementVars>>

FlushPool ==
    /\ InstantProcessed /\ NoneAdmissible /\ readyCalls = <<>>
    /\ Pool!Flush
    /\ UNCHANGED <<hbmVars, callVars, placementVars>>

Next ==
    \/ PoolEvent
    \/ FinishPrepare
    \/ \E r \in Req : ConsumeHandoff(r)
    \/ \E r \in Req : ConsumeCompleted(r)
    \/ \E r \in Req, tokens \in Inputs, prefix \in Prefixes : Release(r, tokens, prefix)
    \/ \E i \in DOMAIN pendingCalls : Admit(i)
    \/ SubmitReady
    \/ FlushPool

Spec == Init /\ [][Next]_vars

(***************************************************************************)
(* The driver advances the node from event to event while there is one     *)
(* (run_until_idle), and each instant is processed to its end.  Nobody has *)
(* to release another call.                                                *)
(***************************************************************************)
Advance ==
    \/ PoolEvent \/ FinishPrepare
    \/ \E r \in Req : ConsumeHandoff(r) \/ ConsumeCompleted(r)
    \/ \E i \in DOMAIN pendingCalls : Admit(i)
    \/ SubmitReady \/ FlushPool

FairSpec == Spec /\ WF_vars(Advance)

-----------------------------------------------------------------------------
(* Correctness *)

\* Every variable of the node keeps its type; the pool's and the books' have
\* their own invariants.
TypeOK ==
    /\ Pool!TypeOK
    /\ callState \in [Req -> CallState]
    /\ input \in [Req -> Inputs \cup {0}] /\ reuse \in [Req -> 0..MaxContext]
    /\ hit \in [Req -> 0..MaxContext]
    /\ pendingCalls \in Seq(Req) /\ readyCalls \in Seq(Req)
    /\ activeCall \in [Session -> (1..MaxCalls) \cup {NoCall}]
    /\ materialized \in [Session -> 0..MaxContext]
    /\ resident \in [Session -> BOOLEAN] /\ ended \in [Session -> BOOLEAN]

\* The HBM books stay exact when the node drives them: each live admission is
\* the active call's, P and D hold what it says, and capacity is never the
\* issue on this node.
BooksFollowCalls ==
    /\ HBM!PCapacity /\ HBM!DCapacity
    /\ HBM!BooksMatchAdmissions /\ HBM!FinalContextReserved
    /\ \A s \in Session : active[s] = HBM!NoAdmission <=> activeCall[s] = NoCall

\* The context that a resumed call copies from D is there until the copy ends,
\* and an idle session's lineage is there for a call that may come.
SourceKept ==
    \A s \in Session :
        /\ resident[s] /\ activeCall[s] = NoCall => d[s] = HBM!KVBytes(materialized[s])
        /\ \A i \in DOMAIN fabric : fabric[i][1] = "prepare" /\ fabric[i][2][1] = s
               => d[s] >= HBM!KVBytes(materialized[s])

PromptKept ==
    \A r \in Req :
        \/ state[r] \in {"p_prefill", "handoff"}
        \/ \E i \in DOMAIN fabric : fabric[i] = <<"handoff", r>>
        => p[r[1]] = HBM!KVBytes(input[r])
DecodeHasRoom ==
    \A r \in Req :
        \/ state[r] \in {"handoff", "d_decode"}
        \/ \E i \in DOMAIN fabric : fabric[i] = <<"handoff", r>>
        => d[r[1]] >= HBM!KVBytes(Materialized(r))

\* The prompt's KV is on P for as long as P computes it or the fabric sends it
\* to D, also when the user already has the call's only token; and D has room
\* for the call's whole final context from before that handoff until the
\* session's next call takes over.
RoomKept == PromptKept /\ DecodeHasRoom

\* The node uses the pool as the pool requires: a call it submits has prompt
\* tokens left for P and no live predecessor, so the pool's own invariants hold.
PoolIntact == Pool!OneQueue /\ Pool!HandoffOnce /\ Pool!WithinLimits /\ Pool!NeverIdleWithWork

\* Every released call is drained: no call is stranded behind its session's
\* earlier one, a copy or a handoff, and no runtime check stops the node
\* (run_until_idle: "oracle node became idle before full internal drain").
EveryCallDrained ==
    \A r \in Req : callState[r] = "pending" ~> callState[r] = "internal_complete"
=============================================================================
