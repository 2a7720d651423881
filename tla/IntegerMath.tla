---------------------------- MODULE IntegerMath ----------------------------
(***************************************************************************)
(* The integer arithmetic of the economic rules.  Each operator is the     *)
(* mathematical meaning of a loop in the source; module Loops runs the     *)
(* loops themselves against these definitions.                             *)
(***************************************************************************)
EXTENDS Integers

(* integer_sqrt_floor: the binary search of refiner.rs and emission.rs and *)
(* the Newton iteration of dispatcher.rs.                                  *)
ISqrtFloor(n) == CHOOSE r \in 0 .. n : r * r <= n /\ n < (r + 1) * (r + 1)

(* integer_sqrt_round: the nearest root, the smaller one on a tie. *)
ISqrtRound(n) ==
  LET floor == ISqrtFloor(n)
      next  == floor + 1
  IN  IF next * next - n < n - floor * floor THEN next ELSE floor

(* a.max(b), and a.saturating_sub(b) on unsigned amounts. *)
MaxOf(a, b) == IF a >= b THEN a ELSE b
SatSub(a, b) == IF a >= b THEN a - b ELSE 0
=============================================================================
