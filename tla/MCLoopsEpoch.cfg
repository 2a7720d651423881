SPECIFICATION Spec
CONSTANTS
  Accounts = {1}
  EPOCH = 3
  FLAKES_PER_OPL = 1
  MaxHeight = 4
  Bits = 8
  Stakes = {1, 2, 3}
  MaxEntries = 4
  BLOCK_TARGET_TIME = 4
  Deltas = {1, 2, 3, 4, 6, 20}
  Difficulty0 = 7
  MaxBlocks = 6
INVARIANT
  RetargetPerEpoch
