------------------------------- MODULE MCPDHBM -------------------------------
(* Small instances of PDHBM for TLC.  Sessions are interchangeable: nothing *)
(* compares them.                                                           *)
EXTENDS PDHBM, TLC

CONSTANTS s1, s2

MCSession == {s1, s2}
Symmetry  == Permutations(Session)
=============================================================================
