SPECIFICATION FairSpec
CONSTANTS
  o1 = o1
  o2 = o2
  t1 = t1
  t2 = t2
  t3 = t3
  r1 = r1
  r2 = r2
  Offerings = {o1}
  ReservationIds = {h1, h2}
  MovementIds = {m1, m2, m3}
  TakeCommands = {t1, t2}
  RestoreCommands = {r1}
  OfferingOf <- MCOfferingOf
  QuantityOf <- MCQuantityOf
  VendorQuantities <- MCVendorQuantities
  VendorReasons = {"receipt", "sale"}
INVARIANTS TypeOK ReservedIsHeld OnHandIsLedger NoOversell OneDecisionPerCommand EveryVersionAnnounced
PROPERTIES ImplementsPromise ExpiredHoldEnds
CHECK_DEADLOCK FALSE
