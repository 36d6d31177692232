SPECIFICATION FairSpec
CONSTANTS
  e1 = e1
  e2 = e2
  e3 = e3
  Elements = {e1, e2, e3}
  Keys = {"k1", "k2"}
  KeyOf <- MCKeyOf
  Callers = {c1, c2}
  Timer = timer
  None = None
  Timeouts = {1, 2}
  MaxTime = 2
  ClockSteps = 1
  Throws = TRUE
INVARIANTS TypeOK
PROPERTIES Tracks NeverEarly EachResolved ThreadEnds
CHECK_DEADLOCK FALSE
