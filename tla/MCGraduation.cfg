CONSTANTS
  Runners = {r1, r2}
  Operations = {o1, o2}
  NoLease = NoLease
  NoRecord = NoRecord
  MaxClock = 2
  LeaseEnds = 2
  MaxCrashes = 1
  MaxEpoch = 1
  MaxGeneration = 2
  Ttl = 1
  MaxDisturbances = 2
SYMMETRY Symmetry
SPECIFICATION MCSpec
CHECK_DEADLOCK FALSE
INVARIANTS
  OneDispatch
  UnsettledHoldsSlot
  MergedUnderClaim
  CompletionIsTrue
PROPERTIES
  GuardedMergeHolds
