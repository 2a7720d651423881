SPECIFICATION FairSpec
CONSTANTS
  good = good
  liar = liar
  bad = bad
  net = net
  Peers = {liar, bad}
  Dataset = {liar}
  Honest = {}
  Refiners = {liar}
  Subnets = {net}
  SubnetOf <- OneSubnet
  MAX_PEER_COUNT = 3
  MAX_OUTBOUND_CONNECTIONS = 2
  MAX_INBOUND_CONNECTIONS = 1
  MAX_PEERS_PER_SUBNET = 1
  MAX_HEIGHT_LOOKAHEAD = 2
  MAX_SYNC_BLOCKS = 1
  PERMANENT_AFTER = 2
  EVENT_CAPACITY = 2
  MaxWork = 3
  TIP = 1
INVARIANTS
  TypeOK
  VerifiedHoldDataset
  SubnetLimitHeld
  GoneAreForgotten
PROPERTY
  ChallengesSettled
CHECK_DEADLOCK FALSE
