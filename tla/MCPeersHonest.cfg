SPECIFICATION Spec
CONSTANTS
  good = good
  liar = liar
  bad = bad
  net = net
  Peers = {good, bad}
  Dataset = {good}
  Honest = {good}
  Refiners = {good}
  Subnets = {net}
  SubnetOf <- OneSubnet
  MAX_PEER_COUNT = 3
  MAX_OUTBOUND_CONNECTIONS = 2
  MAX_INBOUND_CONNECTIONS = 1
  MAX_PEERS_PER_SUBNET = 1
  MAX_HEIGHT_LOOKAHEAD = 2
  MAX_SYNC_BLOCKS = 2
  PERMANENT_AFTER = 4
  EVENT_CAPACITY = 2
  MaxWork = 3
  TIP = 2
INVARIANT
  HonestNotBannedForGood
CHECK_DEADLOCK FALSE
