------------------------------ MODULE MCPeers ------------------------------
(***************************************************************************)
(* Peers on small instances.                                               *)
(***************************************************************************)
EXTENDS Peers

CONSTANTS good, liar, bad, net

OneSubnet == [p \in Peers |-> {net}]
=============================================================================
