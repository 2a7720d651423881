SPECIFICATION Spec
CONSTANTS
  Nodes = {1, 2}
  Miners = {}
  Refiners = {1}
  Selections = {1}
  OnChainKeys = {1, 2}
  InitActive = {1, 2}
  ActiveChoices = {{1, 2}, {1}}
  HeavyNode = 1
  Weight <- MCWeight
  EPOCH = 2
  FINALITY_CONFIDENCE_MILLI = 667
  MAX_ATTESTATIONS_PER_BLOCK = 2
  MaxBlocks = 5
  MaxBuilds = 4
  MaxWriteFailures = 0
  MaxRestarts = 0
  MaxFaultyBuilds = 0
CHECK_DEADLOCK FALSE
INVARIANT
  RootsAgree
