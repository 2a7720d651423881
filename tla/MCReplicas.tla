----------------------------- MODULE MCReplicas -----------------------------
(***************************************************************************)
(* Replicas for TLC: a bounded number of blocks, after which the nodes     *)
(* only settle what is in flight, and a smaller bound once something has   *)
(* failed.                                                                 *)
(***************************************************************************)
EXTENDS Replicas

CONSTANTS
  HeavyNode,       \* the node whose stake is three times that of the others
  MaxFaultyBuilds  \* bound: candidates built in a run with a fault

MCWeight == [n \in Nodes |-> IF n = HeavyNode THEN 3 ELSE 1]

(* A long run without a fault, or a shorter one with some. *)
Explored == failures' + restarts' = 0 \/ builds' <= MaxFaultyBuilds
=============================================================================
