CONSTANTS
  Callers = {p1}
  Operations = {o1}
  NoLease = NoLease
  MaxCalls = 2
  MaxCommits = 2
SPECIFICATION Spec
INVARIANT AmbiguityKeepsLease
CHECK_DEADLOCK FALSE
