SPECIFICATION Spec
CONSTANTS
  Keys = {k1, k2}
  Tabs = {t1, t2}
  TicketsLapse = FALSE
SYMMETRY Names
INVARIANT FailedWasNotCharged
CHECK_DEADLOCK FALSE
