SPECIFICATION MCSpec
CONSTANTS
  Accounts = {1}
  EPOCH = 96
  FLAKES_PER_OPL = 10
  DECIMAL_PLACES = 1
  BASE_REWARD = 3320
  MAX_POW_BITS = 256
  GENESIS_DIFFICULTY = 7
  FirstShare = 0
  OtherShare = 0
  GenesisBalance <- MCGenesis
  GenesisKeyed = {1}
  Amounts = {59, 60}
  Fees = {1}
  Yields = {1000}
  Retargets = {7}
  MaxTxs = 2
  MaxHeight = 2
  MAX_SLASH_EVIDENCE_PER_BLOCK = 1
INVARIANT
  ChainKeepsMoving
