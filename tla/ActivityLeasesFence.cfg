CONSTANTS
  Activities = {a1}
  Workers = {w1, w2}
  Operators = {o1}
  Digests = {d1}
  None = None
  MaxEvents = 12
  MaxCases = 3
CHECK_DEADLOCK FALSE
SPECIFICATION Spec
INVARIANT AcceptedCompletionsCurrent
