----------------------------- MODULE Economics ------------------------------
(***************************************************************************)
(* The pure economic rules: difficulty floor, block reward, mine assay,    *)
(* bond and unbond assays and the split of the fees of a refined block.    *)
(***************************************************************************)
EXTENDS RefinerSet

CONSTANTS
  DECIMAL_PLACES,  \* decimals of one coin (6)
  BASE_REWARD,     \* flakes of the base reward at difficulty 1 (332 OPL)
  MAX_POW_BITS     \* leading zero bits a proof-of-work hash can have (256)

ASSUME DecimalAssumption == DECIMAL_PLACES \in Nat
ASSUME RewardAssumption == BASE_REWARD \in Nat
ASSUME PowBitsAssumption == MAX_POW_BITS \in Nat

(* compute_mine_assay takes gross * round(sqrt(difficulty)) / EPOCH: it    *)
(* never exceeds the gross reward because no minable difficulty has a root *)
(* above EPOCH (16 against 960 with the values of the code).               *)
ASSUME MineAssayAssumption == \A d \in 1 .. MAX_POW_BITS : ISqrtRound(d) \in 0 .. EPOCH

-----------------------------------------------------------------------------
compute_consensus_floor(issued, bonded) == IF bonded = 0 THEN 0 ELSE issued \div bonded

(* DifficultyTarget::effective_difficulty, with MIN_DIFFICULTY = 1. *)
effective_difficulty(retarget, issued, bonded) ==
  MaxOf(MaxOf(retarget, compute_consensus_floor(issued, bonded)), 1)

(* compute_block_reward for a vein yield in thousandths. *)
compute_block_reward(difficulty, yield) == ((BASE_REWARD \div difficulty) * yield) \div 1000

compute_mine_assay(gross, difficulty) ==
  (gross * MaxOf(ISqrtRound(difficulty), 1)) \div EPOCH

(* compute_por_fee_split: the burned part of a refined block's fees. *)
por_fee_burn(fees, active, limit) ==
  IF active = 0 THEN 0 ELSE (fees * active) \div (limit + active)

-----------------------------------------------------------------------------
(* dynamic_assay: amount * sqrt(pressure) / (decimals * sqrt(limit)), both *)
(* roots scaled by FLAKES_PER_OPL.                                         *)
dynamic_assay(amount, numerator, denominator, limit) ==
  LET scale == FLAKES_PER_OPL * FLAKES_PER_OPL
      divisor == DECIMAL_PLACES * ISqrtFloor(limit * scale)
  IN  IF denominator = 0 \/ divisor = 0 THEN 0
      ELSE (amount * ISqrtFloor((numerator * scale) \div denominator)) \div divisor

assay_baseline(issued) == minimum_bond_stake(issued) * active_refiner_limit(issued)

bond_assay(amount, bonded, issued) ==
  dynamic_assay(amount, bonded + amount, assay_baseline(issued), active_refiner_limit(issued))

unbond_assay(amount, bonded, issued) ==
  dynamic_assay(amount, assay_baseline(issued), bonded, active_refiner_limit(issued))
=============================================================================
