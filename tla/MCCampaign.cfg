CONSTANTS
  Workers = {w1, w2}
  Limit = 4
  VariationEstimate = 2
  EvaluationEstimates = {1, 3}
  ReportedUsages = {2, 5}
  SessionUsage = 1
  EvaluationUsages = {1}
  EvaluatorKeys = 2
  MaxThreads = 2
  MaxClaims = 5
  Keys = {k1, k2}
  Operators = {o1, o2}
  None = None
SYMMETRY Symmetry
SPECIFICATION MCSpec
INVARIANTS
  LedgerConserved
  OneTurnAlone
  CompletedIsRecoverable
  ExhaustionIsFinal
  UnsettledHasCase
  EpochsExclusive
PROPERTIES
  CancellationFence
  BalanceLostByTornReads
  LimitLostByTornReads
  LiveLeaseKept
  SettlesAtBoundary
  FencedCompletion
\* A campaign ends, and a history at its bound takes no more events.
CHECK_DEADLOCK FALSE
