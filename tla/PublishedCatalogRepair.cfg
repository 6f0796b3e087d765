SPECIFICATION FairSpec
CONSTANTS
  Offerings = {o1}
  LastMoment = 3
  InFlight = 1
PROPERTY WalkRepairs
CHECK_DEADLOCK FALSE
