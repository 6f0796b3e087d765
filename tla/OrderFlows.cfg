SPECIFICATION Spec
CONSTANTS
  Cancellations = {x1, x2}
  Deliveries = {y1}
  Placements <- MCEveryPlacement
  Attempts = 1
SYMMETRY Names
INVARIANTS TypeOK LockHeld OnePivot PivotNeverRefused GoodsGoBackOnce RecordsAgree AnnouncementsFollow
CHECK_DEADLOCK FALSE
