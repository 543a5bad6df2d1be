CONSTANTS
  Triggers = {p1, p2}
  MaxDeaths = 1
  NoRecord = NoRecord
SPECIFICATION ValidationSpec
INVARIANT QuarantinedIsPreseeded
CHECK_DEADLOCK FALSE
