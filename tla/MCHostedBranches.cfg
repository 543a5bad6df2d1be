CONSTANTS
  Callers = {p1, p2}
  Operations = {o1, o2}
  NoLease = NoLease
  NoRecord = NoRecord
  MaxCalls = 4
  MaxCommits = 3
  MaxChecks = 1
  MaxFaults = 1
  LeaseExpiry = 2
  LeaseRefuses = TRUE
  AuthorizedAt = {0}
  Statuses = {200, 409, 503}
  MaxCasTime = 2
  AnswerStatuses = {200, 409, 429, 503}
  MaxEvidenceTime = 2
  Payload <- Versions
  Window = 1
  TokenLifetime = 2
  MaxHostedTime = 2
  MaxChanges = 2
  MaxDisturbances = 2
SYMMETRY Symmetry
SPECIFICATION MCSpec
INVARIANTS
  OneMergeRequest
  SuccessIsExact
  RefusalIsFinal
  CampaignMergesOnce
  PackageIsTrue
  OnePatch
  CasRecordsTrue
  EvidenceTrue
  HostedTrue
\* Calls, campaigns and observations end, and a failed one is not retried for ever.
CHECK_DEADLOCK FALSE
