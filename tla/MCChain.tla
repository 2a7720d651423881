------------------------------ MODULE MCChain -------------------------------
(***************************************************************************)
(* Chain for TLC.  The exploration ends at MaxHeight, or earlier when no   *)
(* producer is left; everywhere else a block must be able to go on.        *)
(***************************************************************************)
EXTENDS Chain

CONSTANTS FirstShare, OtherShare   \* genesis allocation of account 1 and of the others

MCGenesis == [a \in Accounts |-> IF a = 1 THEN FirstShare ELSE OtherShare]

Stopped ==
  /\ block = NoBlock
  /\ current_height = MaxHeight \/ ~ProductionPossible
  /\ UNCHANGED vars

MCSpec == Init /\ [][Next \/ Stopped]_vars
=============================================================================
