-------------------- MODULE IntegrationCampaignContracts --------------------
(***************************************************************************)
(* The records of a live integration campaign:                             *)
(* contracts/integration_campaign.py.                                      *)
(*                                                                         *)
(* One published candidate is campaigned into one integration branch, so   *)
(* records agree on the repository, the target ref and the provider.  The  *)
(* digest of a record is the record.  The trusted-CI attestation of a      *)
(* bundle is the check manifest it was evaluated with, so a bundle, and    *)
(* the operation bound to it, is named by the generation of that manifest. *)
(***************************************************************************)
EXTENDS Naturals

CONSTANT NoRecord  \* a record that is not in a journal

SuccessfulOutcome == {"applied", "already_applied"}

\* refs/heads/integration is at the base, at the squash merge of the candidate,
\* or past both; a later head may sit on either.
TargetParents == [base |-> {}, merged |-> {"base"}, later |-> {"merged"}]
TargetTree == [base |-> "old", merged |-> "new", later |-> "other"]

\* ----- what is published and evaluated --------------------------------------
CandidatePublication ==
  [base |-> "base", tree |-> "new", evidence |-> "publication", publisher |-> "controller",
   verified |-> TRUE]

BundleOf(checks) ==
  [base |-> "base", candidateTree |-> "new", provenance |-> "publication",
   controller |-> "controller", checks |-> checks,
   evidence |-> {"publication", "private_evaluation", "integration_soak", "reviews",
                 "rollback", "check_manifest"}]

OpenIdentity(publication, pull) == [publication |-> publication, pull |-> pull]

\* _operation_identity: everything the operation is bound to but the lease.
OperationIdentity(t) ==
  [pull |-> t.pull, base |-> t.base, tree |-> t.tree, bundle |-> t.bundle,
   publication |-> t.publication]

\* campaign_marker_digest names the same operation.
CampaignMarkerDigest(t) == OperationIdentity(t)

\* ----- the stages -----------------------------------------------------------
IntegrationIntentTemplate(t) == t.operation = OperationIdentity(t)

\* IntegrationIntentTemplate.bind_lease.
BindLease(t, lease) == [template |-> t, lease |-> lease]

CampaignOpenedEvidence(o) ==
  o.pull # NoRecord /\ o.identity = OpenIdentity(CandidatePublication, o.pull)

CampaignDiscoveryEvidence(d) == d.observation.state = "open"

CampaignPreparationEvidence(p) ==
  /\ IntegrationIntentTemplate(p.template)
  /\ p.marker \in {NoRecord, CampaignMarkerDigest(p.template)}

CampaignCompletionPlan(p) ==
  /\ CampaignOpenedEvidence(p.opened)
  /\ CampaignDiscoveryEvidence(p.discovery)
  /\ CampaignPreparationEvidence(p.preparation)
  /\ p.operation = p.preparation.template.operation
  /\ p.preparation.template.bundle = p.bundle
  /\ p.publication.evidence \in p.artifacts /\ p.artifacts = p.bundle.evidence
  /\ p.opened.identity = p.preparation.identity
  /\ p.discovery.identity = p.opened.identity
  /\ p.publication.base = p.bundle.base /\ p.publication.tree = p.bundle.candidateTree
  /\ p.publication.evidence = p.bundle.provenance
  /\ p.publication.publisher = p.bundle.controller
  /\ p.discovery.main = p.main
  /\ p.discovery.observation.pull = p.opened.pull
  /\ p.discovery.observation.base = p.publication.base
  /\ p.preparation.verified
  /\ p.preparation.observation = p.discovery.observation
  /\ p.preparation.template.checks = p.discovery.observation.checks

CampaignFinalEvidenceRecord(f) ==
  f.merge \in {"applied", "ambiguous", "rejected"}

\* ----- the package ----------------------------------------------------------
BundleBinding(p) ==
  /\ p.intent.template.base = p.bundle.base
  /\ p.intent.template.tree = p.bundle.candidateTree
  /\ p.intent.template.publication = p.bundle.provenance

PublicationBinding(p) ==
  /\ p.publication.base = p.intent.template.base
  /\ p.publication.tree = p.intent.template.tree
  /\ p.publication.evidence = p.intent.template.publication
  /\ p.publication.publisher = p.bundle.controller

ProviderBinding(p) ==
  /\ p.observation.pull = p.intent.template.pull
  /\ p.observation.base = p.intent.template.base
  /\ p.observation.checks = p.intent.template.checks
  /\ p.observation.state = "open"

ReconciliationBinding(p) ==
  /\ p.final.reconciliation.pull = p.intent.template.pull
  /\ p.receipt.operation = p.intent.template.operation
  /\ p.receipt.outcome \in SuccessfulOutcome =>
       /\ TargetTree[p.final.reconciliation.head] = p.intent.template.tree
       /\ p.receipt.head = p.final.reconciliation.head

\* A successful package is of a merge that is the target's head, on the base.
ExactResult(p) ==
  /\ p.final.reconciliation.merged
  /\ p.final.reconciliation.head = "merged"
  /\ TargetParents[p.final.reconciliation.head] = {p.intent.template.base}
  /\ p.receipt.outcome = "applied" => p.final.merge = "applied"
  /\ p.receipt.outcome = "already_applied" => p.final.merge = "ambiguous"

IntegrationCampaignEvidencePackage(p) ==
  /\ p.intent.template.operation = p.receipt.operation
  /\ p.intent.template.bundle = p.bundle
  /\ p.report = p.receipt.outcome
  /\ p.receipt.observation = p.final.reconciliation
  /\ p.artifacts = p.bundle.evidence /\ p.publication.evidence \in p.artifacts
  /\ p.lease = p.intent.lease
  /\ BundleBinding(p) /\ PublicationBinding(p) /\ ProviderBinding(p) /\ ReconciliationBinding(p)
  /\ p.mainBefore = p.mainAfter
  /\ p.receipt.outcome \in SuccessfulOutcome => ExactResult(p)
  /\ p.receipt.outcome \notin SuccessfulOutcome => p.final.merge # "applied"
=============================================================================
