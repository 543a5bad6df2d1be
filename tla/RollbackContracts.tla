------------------------- MODULE RollbackContracts -------------------------
(***************************************************************************)
(* The records of one authorized rollback of the integration branch:       *)
(* contracts/integration_drill.py, integration_live_rollback.py and        *)
(* integration_live_rollback_completion.py.                                *)
(*                                                                         *)
(* There is one request, so two records that are bound to it agree on the  *)
(* repository, the target ref, main_before_commit and the operation ids.   *)
(* The digest of a record is the record, and a list of artifacts is the    *)
(* set of the roles in it.                                                 *)
(***************************************************************************)
EXTENDS Naturals

CONSTANT NoRecord  \* a record that is not in a journal

\* failed is the integration head the soak failed on; candidate is the commit
\* built on it with the tree of restore; restored is its squash merge.
RollbackCommits == {"restore", "failed", "candidate", "restored", "later"}
RollbackParent ==
  [restore |-> NoRecord, failed |-> "restore", candidate |-> "failed",
   restored |-> "failed", later |-> "restored"]
RollbackTree ==
  [restore |-> "good", failed |-> "bad", candidate |-> "good",
   restored |-> "good", later |-> "other"]

SuccessfulPromotion == {"applied", "already_applied"}

\* ----- contracts/integration_drill.py ---------------------------------------
DrillEvidenceBinding(r) == r.mainBefore = r.mainAfter

IntegrationDrillSoakObservation(s) ==
  /\ DrillEvidenceBinding(s)
  /\ s.outcome \in {"passed", "failed", "timeout", "partial_success"}
  /\ s.outcome # "passed" => s.parents = {}

IntegrationRollbackRequest(q) ==
  {q.failed, q.restore, q.candidate, q.candidateParent} \subseteq RollbackCommits

\* The candidate is a new commit on the failed head, which is the target's head.
RollbackTopology(r) ==
  /\ IntegrationRollbackRequest(r.request)
  /\ r.head = r.request.failed
  /\ r.request.candidateParent = r.request.failed

IntegrationDrillRollbackAuthorization(a) ==
  /\ DrillEvidenceBinding(a) /\ RollbackTopology(a)
  /\ a.request.candidate \notin {a.request.failed, a.request.restore}

IntegrationDrillRollbackIntent(i) ==
  DrillEvidenceBinding(i) /\ RollbackTopology(i)

RollbackReceiptOutcome ==
  {"applied", "already_applied", "rejected", "ambiguous", "stale_target",
   "reconciliation_required"}

IntegrationDrillRollbackReceipt(r) ==
  /\ r.outcome \in RollbackReceiptOutcome
  /\ r.outcome \notin SuccessfulPromotion => r.head = r.request.failed
  /\ r.outcome \in SuccessfulPromotion =>
       /\ r.head # NoRecord
       /\ RollbackTree[r.head] = RollbackTree[r.request.restore]
       /\ RollbackParent[r.head] = r.request.failed
       /\ r.request.candidateParent = r.request.failed

PromotionEvidenceKinds == {"intent", "lease_evidence", "mutation_authorization", "receipt"}

IntegrationDrillPromotionEvidenceLink(l) ==
  l.kind \in PromotionEvidenceKinds /\ l.record = l.artifact

IntegrationDrillPromotionEvidenceManifest(m) ==
  /\ \A l \in m.links : IntegrationDrillPromotionEvidenceLink(l)
  /\ {l.kind : l \in m.links} = PromotionEvidenceKinds
  /\ \A l, k \in m.links : l # k => l.artifact # k.artifact
  /\ m.request.candidateParent = m.request.failed
  /\ RollbackTree[m.result] = RollbackTree[m.request.restore]

CaseOutcome ==
  {"passed", "failed", "rejected", "applied", "already_applied", "reconciliation_required"}

IntegrationDrillCaseResult(c) ==
  /\ c.case \in {1, 2, 3, 4, 5, 6, 7, 8}
  /\ c.outcome \in CaseOutcome
  /\ c.outcome \in {"passed", "applied", "already_applied"} => c.evidence # {}

IntegrationDrillPlan(p) == p.cases = <<1, 2, 3, 4, 5, 6, 7, 8>>

IntegrationDrillResult(r) ==
  /\ {c.case : c \in r.cases} = {1, 2, 3, 4, 5, 6, 7, 8}
  /\ \A c, d \in r.cases : c.case = d.case => c = d
  /\ \A c \in r.cases : c.operation = r.operation
  /\ r.mainBefore = r.mainAfter

\* ----- contracts/integration_live_rollback.py -------------------------------
LiveRollbackRoles ==
  {"integration-campaign-package", "integration-drill-soak",
   "integration-drill-rollback-authorization", "integration-drill-rollback-intent",
   "integration-drill-rollback-receipt", "integration-drill-case", "promotion-intent",
   "promotion-lease-evidence", "promotion-mutation-authorization", "promotion-receipt"}

PromotionLeaseBinding(lease, intent) == lease = intent.lease

\* The package is of the successful canary whose result failed, of the rollback
\* that landed on it, and of the promotion that landed it.
CanaryBound(p) ==
  /\ p.canary.outcome \in SuccessfulPromotion
  /\ p.canary.result = p.request.failed
  /\ RollbackParent[p.canary.result] = p.request.restore

SoakBound(p) ==
  /\ IntegrationDrillSoakObservation(p.soak)
  /\ p.soak.outcome = "failed" /\ p.soak.head = p.request.failed

AuthorizationBound(p) ==
  /\ IntegrationDrillRollbackAuthorization(p.authorization)
  /\ IntegrationDrillRollbackIntent(p.intent)
  /\ p.authorization.request = p.request
  /\ p.intent.request = p.request /\ p.intent.authorization = p.authorization

RollbackBound(p) ==
  /\ p.receipt.outcome \in SuccessfulPromotion
  /\ p.receipt.request = p.request
  /\ p.case.case = 7 /\ p.case.outcome = p.receipt.outcome
  /\ p.case.evidence = {"soak", "authorization", "intent", "receipt"}

PromotionBound(p) ==
  /\ p.promotion.outcome \in SuccessfulPromotion
  /\ PromotionLeaseBinding(p.promotion.lease, p.promotion.intent)
  /\ p.promotion.result = p.receipt.head
  /\ p.report.outcome = p.promotion.outcome

LiveRollbackEvidencePackage(p) ==
  /\ CanaryBound(p) /\ SoakBound(p) /\ AuthorizationBound(p)
  /\ RollbackBound(p) /\ PromotionBound(p)
  /\ p.mainBefore = p.mainAfter
  /\ p.artifacts = LiveRollbackRoles

\* ----- contracts/integration_live_rollback_completion.py --------------------
\* What the operator supplies to a completion: the publication of a candidate,
\* the check and protection manifests and the workflow evidence.
LiveRollbackCheckEntry(e) == e.status = "completed" /\ e.conclusion = "success"

LiveRollbackPublicationPlan(p) == RollbackParent[p.candidate] = p.base

LiveRollbackPublicationOutcome(o) == o.outcome \in {"verified", "reconciled"}

LiveRollbackManifestEvidence(m) ==
  /\ m.cutoff <= m.observed
  /\ \A e \in m.checks : LiveRollbackCheckEntry(e)

LiveRollbackWorkflowEvidence(w) == w.blob = w.variables

PublicationExact(p) ==
  /\ LiveRollbackPublicationPlan(p.inputs.plan)
  /\ p.inputs.plan = [base |-> p.core.request.failed, candidate |-> p.core.request.candidate]
  /\ LiveRollbackPublicationOutcome(p.inputs.outcome)
  /\ p.inputs.outcome.plan = p.inputs.plan
  /\ p.inputs.evidence.plan = p.inputs.plan

\* The reconciliation the package carries is of the target at the rollback.
ProviderExact(p) ==
  /\ p.reconciliation = p.core.promotion.result
  /\ RollbackParent[p.reconciliation] = p.core.request.failed
  /\ LiveRollbackManifestEvidence(p.inputs.manifest)
  /\ LiveRollbackWorkflowEvidence(p.inputs.workflow)

\* A successful validation whose ref was cleaned up with a proof of the core.
ValidationExact(p) ==
  /\ p.validation \in {"created", "already_present", "reconciled"}
  /\ p.proof = p.core
  /\ p.cleanup = "cleaned"

CompletionRoles ==
  {"integration-live-rollback-package", "candidate-publication-plan",
   "candidate-publication-outcome", "candidate-publication-evidence",
   "integration-provider-observation", "integration-provider-reconciliation",
   "trusted-check-manifest", "protection-manifest", "workflow-evidence",
   "synthetic-validation-plan", "synthetic-validation-authorization",
   "synthetic-validation-outcome", "synthetic-validation-cleanup-proof",
   "synthetic-validation-cleanup"}

ArtifactsExact(p) == p.artifacts = CompletionRoles

LiveRollbackCompletionPackage(p) ==
  ArtifactsExact(p) /\ PublicationExact(p) /\ ProviderExact(p) /\ ValidationExact(p)
=============================================================================
