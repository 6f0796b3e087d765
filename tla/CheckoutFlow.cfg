SPECIFICATION FairSpec
CONSTANTS
  v1 = v1
  v2 = v2
  Vendors = {v1, v2}
  OrderIds = {o1, o2}
  Tenders <- MCTenders
INVARIANTS TypeOK MoneyHasOrders AllOrNothing
PROPERTY Settles
CHECK_DEADLOCK FALSE
