------------------------------- MODULE Queues -------------------------------
(***************************************************************************)
(* Python lists used as queues and batches, for the modules with proofs:   *)
(* how often a member occurs, and a list comprehension that keeps the      *)
(* members of a set in their order.                                        *)
(***************************************************************************)
EXTENDS Integers, Sequences, FiniteSets

Occurrences(x, s) == Cardinality({i \in DOMAIN s : s[i] = x})

\* [x for x in s if x in K]
Only(s, K) ==
    LET kept[i \in 0..Len(s)] ==
            IF i = 0 THEN <<>>
            ELSE IF s[i] \in K THEN Append(kept[i - 1], s[i]) ELSE kept[i - 1]
    IN  kept[Len(s)]
=============================================================================
