-------------------------------- MODULE PDHBM --------------------------------
(***************************************************************************)
(* AtomicPDHBM of serving/core/gpu_pd_hbm.py: the per-rank HBM bookkeeping *)
(* of one P4D4 node.  A request is admitted by one transaction that        *)
(* reserves its input KV on the prefill ranks (P) and the KV of its whole  *)
(* final context on the decode ranks (D).  The D reservation of a finished *)
(* turn stays behind for the session's next turn.                          *)
(*                                                                         *)
(* Quantities are in bytes per rank, one unit per token.  Admissions are   *)
(* handles: a caller may keep one after the transaction it names has ended *)
(* and present it again.                                                   *)
(***************************************************************************)
EXTENDS BoundedTotals

CONSTANTS
    Session,        \* session identifiers
    PCap, DCap,     \* p_capacity_bytes_per_rank, d_capacity_bytes_per_rank
    BlockSize,      \* tokens in one KV block
    Inputs,         \* prompt lengths, in tokens, the callers may ask for
    Outputs,        \* output lengths the callers may ask for
    MaxAdmissions,  \* bound on the admissions handed out
    LateCancel      \* whether callers cancel after the D source was released

ASSUME SessionAssumption  == IsFiniteSet(Session)
ASSUME CapAssumption      == PCap \in Nat \ {0} /\ DCap \in Nat \ {0}
ASSUME BlockAssumption    == BlockSize \in Nat \ {0}
ASSUME TokenAssumption    == Inputs \subseteq Nat \ {0} /\ Outputs \subseteq Nat \ {0}
ASSUME BoundAssumption    == MaxAdmissions \in Nat
ASSUME LateCancelAssumption == LateCancel \in BOOLEAN

VARIABLES
    p,        \* _p_by_session, 0 where the dict has no key
    d,        \* _d_by_session, 0 where the dict has no key
    active,   \* the admission _active_by_id[_active_id_by_session[s]], if any
    nextId,   \* _next_admission_id
    issued    \* every admission handed out: the handles callers can present

vars == <<p, d, active, nextId, issued>>

Admission == [id: Nat, session: Session, p: Nat, target: Nat, held: Nat, prior: Nat]

NoAdmission == [id |-> 0]

\* kv_capacity_bytes_per_rank: token counts are charged in whole blocks.
KVBytes(tokens) == ((tokens + BlockSize - 1) \div BlockSize) * BlockSize

Larger(a, b) == IF a >= b THEN a ELSE b

\* The free bytes of P and D.
PFree == PCap - Total(p, PCap)
DFree == DCap - Total(d, DCap)

\* Mutant: a session that retains anything keeps just that, however far the
\* next turn grows.
ProposalWithoutGrowth(s, input, output, needsD) ==
    LET target == IF needsD THEN KVBytes(input + output - 1) ELSE 0
    IN  [id |-> nextId, session |-> s, p |-> KVBytes(input),
         target |-> target, held |-> IF d[s] > 0 THEN d[s] ELSE target, prior |-> d[s]]

(***************************************************************************)
(* The admission try_admit computes for a request before it is known       *)
(* whether it fits: P pays for the input, D for the final context, and D   *)
(* never gives up what the session already holds there.                    *)
(***************************************************************************)
Proposal(s, input, output, needsD) ==
    LET target == IF needsD THEN KVBytes(input + output - 1) ELSE 0
    IN  [id |-> nextId, session |-> s, p |-> KVBytes(input),
         target |-> target, held |-> Larger(d[s], target), prior |-> d[s]]

Feasible(a) == a.p <= PCap /\ a.target <= DCap

\* Mutants: the projection forgets D, or charges what the session retains a
\* second time.
FitsOnlyP(a)   == a.p <= PFree
FitsTwice(a)   == a.p <= PFree /\ a.held <= DFree

Fits(a) == a.p <= PFree /\ a.held - a.prior <= DFree

\* _require_active: the presented handle names the session's live admission.
IsActive(a) == active[a.session] = a

Init ==
    /\ p = [s \in Session |-> 0]
    /\ d = [s \in Session |-> 0]
    /\ active = [s \in Session |-> NoAdmission]
    /\ nextId = 1
    /\ issued = {}

\* Mutant: admission ids are not advanced.
TryAdmitSameId(s, input, output, needsD) ==
    LET a == Proposal(s, input, output, needsD) IN
    /\ nextId <= MaxAdmissions
    /\ active[s] = NoAdmission
    /\ Feasible(a)
    /\ Fits(a)
    /\ p' = [p EXCEPT ![s] = a.p]
    /\ d' = [d EXCEPT ![s] = a.held]
    /\ active' = [active EXCEPT ![s] = a]
    /\ issued' = issued \cup {a}
    /\ nextId' = nextId

(***************************************************************************)
(* try_admit.  A request that is infeasible or does not fit now leaves the *)
(* bookkeeping untouched, so only the admitting outcome is a step.         *)
(***************************************************************************)
TryAdmit(s, input, output, needsD) ==
    LET a == Proposal(s, input, output, needsD) IN
    /\ nextId <= MaxAdmissions
    /\ active[s] = NoAdmission
    /\ Feasible(a)
    /\ Fits(a)
    /\ p' = [p EXCEPT ![s] = a.p]
    /\ d' = [d EXCEPT ![s] = a.held]
    /\ active' = [active EXCEPT ![s] = a]
    /\ issued' = issued \cup {a}
    /\ nextId' = nextId + 1

\* release_p: after the P-to-D handoff the prompt's KV leaves P.
ReleaseP(a) ==
    /\ IsActive(a)
    /\ p' = [p EXCEPT ![a.session] = 0]
    /\ UNCHANGED <<d, active, nextId, issued>>

(***************************************************************************)
(* release_d_source: an old, larger D source shrinks to the final target.  *)
(* It raises, changing nothing, when the reservation was already shrunk.   *)
(***************************************************************************)
ReleaseDSource(a) ==
    /\ IsActive(a)
    /\ d[a.session] = a.held
    /\ d' = [d EXCEPT ![a.session] = a.target]
    /\ UNCHANGED <<p, active, nextId, issued>>

(***************************************************************************)
(* cancel: give P back and put D where it was before the admission.  The   *)
(* code accepts the call at any time; LateCancel says whether callers make *)
(* it after the D source has been released.                                *)
(***************************************************************************)
Cancel(a) ==
    /\ IsActive(a)
    /\ LateCancel \/ d[a.session] = a.held
    /\ p' = [p EXCEPT ![a.session] = 0]
    /\ d' = [d EXCEPT ![a.session] = a.prior]
    /\ active' = [active EXCEPT ![a.session] = NoAdmission]
    /\ UNCHANGED <<nextId, issued>>

\* Mutant: finish leaves an unreleased prompt on P.
FinishKeepsP(a, hasSuccessor) ==
    /\ IsActive(a)
    /\ d' = [d EXCEPT ![a.session] = IF hasSuccessor THEN a.target ELSE 0]
    /\ active' = [active EXCEPT ![a.session] = NoAdmission]
    /\ UNCHANGED <<p, nextId, issued>>

\* finish: the session keeps its final context on D only for a successor.
Finish(a, hasSuccessor) ==
    /\ IsActive(a)
    /\ p' = [p EXCEPT ![a.session] = 0]
    /\ d' = [d EXCEPT ![a.session] = IF hasSuccessor THEN a.target ELSE 0]
    /\ active' = [active EXCEPT ![a.session] = NoAdmission]
    /\ UNCHANGED <<nextId, issued>>

\* release_idle_session: drop what an idle session retains on D.
ReleaseIdleSession(s) ==
    /\ active[s] = NoAdmission
    /\ d' = [d EXCEPT ![s] = 0]
    /\ UNCHANGED <<p, active, nextId, issued>>

Next ==
    \/ \E s \in Session, input \in Inputs, output \in Outputs, needsD \in BOOLEAN :
           TryAdmit(s, input, output, needsD)
    \/ \E a \in issued : ReleaseP(a)
    \/ \E a \in issued : ReleaseDSource(a)
    \/ \E a \in issued : Cancel(a)
    \/ \E a \in issued, hasSuccessor \in BOOLEAN : Finish(a, hasSuccessor)
    \/ \E s \in Session : ReleaseIdleSession(s)

Spec == Init /\ [][Next]_vars

-----------------------------------------------------------------------------
(* Properties.                                                             *)

\* The state is well typed: reservations fit their ranks one by one, and a
\* live admission is one that was handed out for that very session.
TypeOK ==
    /\ p \in [Session -> 0..PCap]
    /\ d \in [Session -> 0..DCap]
    /\ issued \subseteq Admission
    /\ active \in [Session -> issued \cup {NoAdmission}]
    /\ nextId \in Nat \ {0}

PCapacity == Total(p, PCap) <= PCap
DCapacity == Total(d, DCap) <= DCap

\* The reservations of all the sessions together never exceed the P ranks or
\* the D ranks, whatever the order of admissions, releases, cancellations and
\* finishes (the first two checks of assert_invariants).
Capacity == PCapacity /\ DCapacity

\* The books agree with the live admissions: P holds nothing or the prompt of
\* the live admission, and D holds what was reserved or what is needed; once
\* the admission is over nothing of it is left on P (the per-session checks of
\* assert_invariants, and the P leak they do not look for).
BooksMatchAdmissions ==
    \A s \in Session :
        IF active[s] = NoAdmission
        THEN p[s] = 0
        ELSE /\ active[s].session = s
             /\ p[s] \in {0, active[s].p}
             /\ d[s] \in {active[s].held, active[s].target}

\* Room for the final context, promised at admission, is still there at every
\* moment of the request's life: decode never has to ask for memory.
FinalContextReserved ==
    \A s \in Session : active[s] # NoAdmission => d[s] >= active[s].target

\* A deferral is always somebody else's doing: if no other session holds
\* anything, a feasible request of s fits.  So the memory s itself retained
\* can never keep s out.
DeferralBlamesOthers ==
    \A s \in Session, input \in Inputs, output \in Outputs, needsD \in BOOLEAN :
        LET a == Proposal(s, input, output, needsD) IN
        /\ active[s] = NoAdmission
        /\ Feasible(a)
        /\ \A t \in Session \ {s} : p[t] = 0 /\ d[t] = 0
        => Fits(a)

\* A handle works once: when an admission has ended, by cancel or finish, it
\* is never live again, so no reservation is released twice through it.
EndedForGood ==
    [][\A a \in issued : ~IsActive(a) => active'[a.session] # a]_vars
=============================================================================
