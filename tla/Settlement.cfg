SPECIFICATION FairSpec
CONSTANTS
  a = a
  b = b
  Orders = {a, b}
  Replicas = {p1, p2}
  Placements <- MCPlacements
INVARIANTS TypeOK LedgerIsOrderFree WhollyReversed PayoutsAreLedger
PROPERTY EveryLineSettles
CHECK_DEADLOCK FALSE
