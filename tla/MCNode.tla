------------------------------- MODULE MCNode -------------------------------
(***************************************************************************)
(* Node on small instances.                                                *)
(***************************************************************************)
EXTENDS Node, TLC

CONSTANTS c1, c2, tx

Symmetry == Permutations({c1, c2})
=============================================================================
