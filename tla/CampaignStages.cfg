CONSTANTS
  Workers = {w1}
  Limit = 4
  VariationEstimate = 2
  EvaluationEstimates = {1}
  ReportedUsages = {2}
  SessionUsage = 1
  EvaluationUsages = {1}
  EvaluatorKeys = 1
  MaxThreads = 2
  MaxClaims = 3
SPECIFICATION Spec
INVARIANT StagesDrain
CHECK_DEADLOCK FALSE
