CONSTANTS
  Activities = {a1}
  Workers = {w1}
  Operators = {o1}
  Digests = {d1}
  None = None
  MaxEvents = 9
  MaxCases = 1
CHECK_DEADLOCK FALSE
SPECIFICATION FairSpec
PROPERTY PausingReachesBoundary
