SPECIFICATION FairSpec
CONSTANTS
  Cancellations = {x1, x2}
  Deliveries = {y1}
  Placements <- MCLive
  Attempts = 2
PROPERTY FlowsEnd
CHECK_DEADLOCK FALSE
