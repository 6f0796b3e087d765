SPECIFICATION FairSpec
CONSTANTS
  Offerings = {o1}
  LastMoment = 3
  InFlight = 3
INVARIANTS TypeOK NewestWins
PROPERTY StorefrontCatchesUp
CHECK_DEADLOCK FALSE
