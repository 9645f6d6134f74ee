------------------------------- MODULE MCGates -------------------------------
(* A small instance of Gates for TLC. *)
EXTENDS Gates
=============================================================================
