SPECIFICATION MCSpec
CONSTANTS
  Accounts = {1, 2, 3}
  EPOCH = 1
  FLAKES_PER_OPL = 5
  DECIMAL_PLACES = 6
  BASE_REWARD = 0
  MAX_POW_BITS = 2
  GENESIS_DIFFICULTY = 1
  FirstShare = 7
  OtherShare = 6
  GenesisBalance <- MCGenesis
  GenesisKeyed = {1}
  Amounts = {1, 5, 6}
  Fees = {1}
  Yields = {1000}
  Retargets = {1}
  MaxTxs = 2
  MaxHeight = 3
  MAX_SLASH_EVIDENCE_PER_BLOCK = 1
INVARIANT
  ActiveAreBest
PROPERTY
  ActivationAtBoundary
