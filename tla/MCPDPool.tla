------------------------------- MODULE MCPDPool -------------------------------
(* A small instance of PDPool for TLC. *)
EXTENDS PDPool, TLC

CONSTANTS s1, s2

MCSession == {s1, s2}
=============================================================================
