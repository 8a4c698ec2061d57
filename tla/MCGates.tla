------------------------------ MODULE MCGates ------------------------------
(* An instance of Gates. *)
EXTENDS Gates

CONSTANTS d1, d2, x, y
=============================================================================
