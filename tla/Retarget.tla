------------------------------ MODULE Retarget ------------------------------
(***************************************************************************)
(* The timestamps of the chain and the difficulty retarget they drive.     *)
(* Times are in seconds; the code multiplies both sides of the ratio by a  *)
(* thousand, which changes no result.                                      *)
(***************************************************************************)
EXTENDS Integers, Sequences

CONSTANTS
  EPOCH,
  BLOCK_TARGET_TIME   \* BLOCK_TARGET_TIME_SECS

AtLeastOne(d) == IF d < 1 THEN 1 ELSE d

(* minimum_block_timestamp_delta_secs, the least a block may be later than *)
(* its parent.                                                             *)
MinimumDelta == AtLeastOne(BLOCK_TARGET_TIME \div 2)

(* ChainState::prune_block_timestamps.  Mutant: the window holds EPOCH     *)
(* timestamps and so one interval too few.                                 *)
PruneToEpoch(stamps) ==
  SubSeq(stamps, IF Len(stamps) > EPOCH THEN Len(stamps) - EPOCH + 1 ELSE 1, Len(stamps))

Prune(stamps) ==
  SubSeq(stamps, IF Len(stamps) > EPOCH + 1 THEN Len(stamps) - EPOCH ELSE 1, Len(stamps))

(* The time the last EPOCH intervals should take over the time they took,  *)
(* rounded to nearest.                                                     *)
Scaled(difficulty, elapsed) ==
  IF elapsed = 0 THEN 4 * difficulty
  ELSE AtLeastOne((difficulty * EPOCH * BLOCK_TARGET_TIME + elapsed \div 2) \div elapsed)

(* compute_retarget on a window of timestamps that ends at `height`. *)
ComputeRetarget(difficulty, height, window) ==
  LET windowStart == height + 1 - Len(window)
      epochStart == height - EPOCH
      i == epochStart - windowStart + 1
  IN IF height < EPOCH \/ epochStart < windowStart \/ Len(window) <= i
     THEN AtLeastOne(difficulty)
     ELSE Scaled(difficulty, window[Len(window)] - window[i])
=============================================================================
