SPECIFICATION Spec
CONSTANTS
  Nodes = {1, 2}
  Miners = {2}
  Refiners = {1}
  Selections = {1}
  OnChainKeys = {1, 2}
  InitActive = {1, 2}
  ActiveChoices = {{1, 2}}
  HeavyNode = 1
  Weight <- MCWeight
  EPOCH = 2
  FINALITY_CONFIDENCE_MILLI = 667
  MAX_ATTESTATIONS_PER_BLOCK = 2
  MaxBlocks = 4
  MaxBuilds = 3
  MaxWriteFailures = 1
  MaxRestarts = 2
  MaxFaultyBuilds = 2
ACTION_CONSTRAINT Explored
CHECK_DEADLOCK FALSE
INVARIANTS
  RootsAgree
  BroadcastBlocksApply
  VotesOnOneChain
  FinalityHeld
  RefinersSignOnce
PROPERTIES
  FinalityMonotone
