CONSTANTS
  Clients = {k1, k2}
  Candidates = {a, b}
  Seed = seed
  Keys = {dev}
  AdmissionIds = {i1, i2}
  Outcomes = {"admit", "review_required"}
  Reviewers = {r1, r2}
  ApprovalsRequired = 2
  MaxRevision = 2
  NoKey = NoKey
  NoRevision = NoRevision
SYMMETRY Symmetry
SPECIFICATION MCSpec
INVARIANTS
  LineageIsPath
  AdmittedHasEvidence
  ReviewQuorum
  HistoryIsPath
  OneEffectPerKey
