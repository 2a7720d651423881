SPECIFICATION Spec
CONSTANTS
  c1 = c1
  c2 = c2
  tx = tx
  Clients = {c1, c2}
  Txs = {tx}
  MaxWork = 3
SYMMETRY Symmetry
INVARIANTS
  StateWhole
  AcceptedIsStored
  HistoryComplete
  NoDeadlock
PROPERTY
  OneCopy
CHECK_DEADLOCK FALSE
