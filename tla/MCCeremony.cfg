SPECIFICATION Spec
CONSTANTS
  p1 = p1
  p2 = p2
  p3 = p3
  p4 = p4
  q1 = q1
  n1 = n1
  ProdSources = {p1, p2, p3, p4}
  PriceSources = {q1}
  Nodes = {n1}
  MinProdSources = 3
  Readings = {1, 3, 4, 6}
  ProdMin = 2
  ProdMax = 6
  PriceMin = 2
  PriceMax = 3
  HonestLow = 3
  HonestHigh = 4
  OutlierPct = 15
  OzPerTonne = 7
  BlocksPerYear = 5
  DryProd = 3
  DryPrice = 3
  Window = 2
  FetchTime = 1
  Delays = {0, 2}
  MaxCeremonies = 2
  MaxEvents = 1
SYMMETRY Symmetry
INVARIANTS
  WrittenIsUsable
  LoadedWasConfirmed
  MedianRobust
PROPERTY
  GenesisPinned
CHECK_DEADLOCK FALSE
