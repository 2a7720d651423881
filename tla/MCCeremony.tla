----------------------------- MODULE MCCeremony -----------------------------
(***************************************************************************)
(* Ceremony on small instances.                                            *)
(***************************************************************************)
EXTENDS Ceremony, TLC

CONSTANTS p1, p2, p3, p4, q1, n1

Symmetry == Permutations({p1, p2, p3, p4})
=============================================================================
