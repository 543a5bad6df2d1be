SPECIFICATION MCSpec
CONSTANTS
  Identities = {a, b}
  Contents = {c, d}
  Runners = {p, q}
  NoRun = NoRun
  Drills = {a, b}
  NoRecord = NoRecord
  Threshold = 2
  FreshnessWindow = 0
  Watermarks = {1}
  Outcomes = {"success", "failure"}
  Verdicts <- ClassifierVerdicts
  MaxSequence = 3
  MaxNow = 1
  Matrix <- DrillMatrix
  Trees <- SourceTrees
  Toolchains <- Tools
  MaxBytes = 3
  Ttl = 1
  MaxEdits = 1
  MaxRuns = 2
  MaxDrillTime = 1
  MaxDeaths = 1
  MaxFaults = 1
  MaxDrillDeaths = 1
  MaxMoves = 1
  MaxStops = 1
SYMMETRY Symmetry
INVARIANTS
  LedgerHolds
  OfflineDrillHolds
  ValidationHolds
  RollbackEvidenceChain
  DrillEffectsOnce
  PolicyAllowsExactly
  WouldApplyIsAuthorized
PROPERTY LedgerKept
\* Every service may stop: its operations end, its processes may die.
CHECK_DEADLOCK FALSE
