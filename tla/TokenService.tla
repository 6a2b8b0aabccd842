---------------------------- MODULE TokenService ----------------------------
(***************************************************************************)
(* What a serving instance promises to its clients, whatever it does with  *)
(* batches and memory: an accepted request is given its output tokens one  *)
(* at a time, never one more than it asked for, and is reported finished   *)
(* exactly with the last of them.  No step of the instance may take a      *)
(* token back, forget a request or finish it early.                        *)
(***************************************************************************)
EXTENDS Naturals

CONSTANT Req

VARIABLES wanted, accepted, emitted, finished

Init ==
    /\ wanted \in [Req -> Nat \ {0}]
    /\ accepted = {}
    /\ emitted = [r \in Req |-> 0]
    /\ finished = {}

Accept(r) ==
    /\ r \notin accepted
    /\ accepted' = accepted \cup {r}
    /\ UNCHANGED <<wanted, emitted, finished>>

\* One step of the model gives each request of S its next token.
Emit(S) ==
    /\ S # {} /\ S \subseteq accepted \ finished
    /\ emitted' = [r \in Req |-> IF r \in S THEN emitted[r] + 1 ELSE emitted[r]]
    /\ finished' = finished \cup {r \in S : emitted[r] + 1 = wanted[r]}
    /\ UNCHANGED <<wanted, accepted>>

Next ==
    \/ \E r \in Req : Accept(r)
    \/ \E S \in SUBSET Req : Emit(S)

Spec == Init /\ [][Next]_<<wanted, accepted, emitted, finished>>
=============================================================================
