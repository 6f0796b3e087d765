SPECIFICATION FairSpec
CONSTANTS
  Keys = {k1, k2}
  Tabs = {t1, t2}
  TicketsLapse = TRUE
INVARIANTS TypeOK PagesAreTrue
PROPERTIES StatusNeverGoesBack PagesLearn
CHECK_DEADLOCK FALSE
