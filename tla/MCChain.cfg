SPECIFICATION MCSpec
CONSTANTS
  Accounts = {1, 2}
  EPOCH = 2
  FLAKES_PER_OPL = 2
  DECIMAL_PLACES = 2
  BASE_REWARD = 2
  MAX_POW_BITS = 6
  GENESIS_DIFFICULTY = 1
  FirstShare = 14
  OtherShare = 3
  GenesisBalance <- MCGenesis
  GenesisKeyed = {1}
  Amounts = {4, 8}
  Fees = {1}
  Yields = {1000}
  Retargets = {2}
  MaxTxs = 3
  MaxHeight = 5
  MAX_SLASH_EVIDENCE_PER_BLOCK = 1
INVARIANTS
  TypeOK
  SupplyConserved
  FundsAccounted
  MintLedgerAgrees
  RefinerRecordsSound
  ActiveSetMatchesStatus
  UnbondDelay
PROPERTIES
  CustodyReleased
  SlashIsFinal
