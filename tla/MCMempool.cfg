SPECIFICATION Spec
CONSTANTS
  Senders = {1, 2}
  Txs <- MCTxs
  BASE_SIZE = 1
  MIN_FEE = 1
  CAPACITY_RATIO = 2
  MAX_NONCE_GAP = 1
  TX_MAX_SIZE_BYTES = 3
  MAX_TX_DATA_SIZE_BYTES = 1
  MEMPOOL_MAX_SIZE_BYTES = 4
  MEMPOOL_MAX_TXS_PER_ACCOUNT = 2
  MEMPOOL_TX_EXPIRY_SECS = 1
  MAX_BLOCK_SIZE_BYTES = 2
  MAX_TRANSACTIONS_PER_BLOCK = 2
  EPOCH = 2
  PRIORITY_SCALE = 10
  MaxHandlers = 1
  MaxArrivals = 3
  MaxBlocks = 2
INVARIANTS
  TypeOK
  PoolAccounted
  OneEntryPerNonce
  NonceGapHeld
PROPERTIES
  RefusalKeepsPool
  EntriesLeave
CHECK_DEADLOCK FALSE
