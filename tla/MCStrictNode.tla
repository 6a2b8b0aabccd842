----------------------------- MODULE MCStrictNode -----------------------------
(* A small instance of StrictNode for TLC. *)
EXTENDS StrictNode, TLC

CONSTANTS s1, s2

MCSession == {s1, s2}
=============================================================================
