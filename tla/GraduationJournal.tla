-------------------------- MODULE GraduationJournal --------------------------
(***************************************************************************)
(* The authority chain of the main-graduation journal                      *)
(* (src/avo_correlate/adapters/artifacts/main_graduation_journal.py): one  *)
(* create-once record per kind and operation, and for every kind the       *)
(* durable predecessors it must agree with before it is published.         *)
(*                                                                         *)
(* The journal of one operation is a function J from the kinds recorded so *)
(* far to their records.  A canonical digest of a record is the record     *)
(* itself, so "binds the digest of" is equality with a nested record.      *)
(* Fields that cannot differ within one operation (repository, target,     *)
(* issuer, PR number) are left out; times, queue generation, protection    *)
(* epoch, outcomes and the trees a record names are kept.                  *)
(***************************************************************************)
EXTENDS GraduationContracts

PlanEvidence == {"sourcePackage", "issuerBinding", "delta", "composition",
                 "compositionProof"}

Durable(J, kinds) == kinds \subseteq DOMAIN J

(* _write_exclusive_durable and the operation index: the first record of a *)
(* kind stays; the same content again is the same record.                  *)
Free(J, k, v) == k \in DOMAIN J => J[k] = v

Published(J, k, v) ==
    IF k \in DOMAIN J THEN J
    ELSE [m \in DOMAIN J \cup {k} |-> IF m = k THEN v ELSE J[m]]

-----------------------------------------------------------------------------
(* Planning: the plan closes over its five evidence records; the intent    *)
(* binds the plan and the durable lease.                                   *)

(* _verify_source_package and _require_integration_target: the raw         *)
(* campaign package is terminally applied to the integration branch and    *)
(* its head is the result the binding names.                               *)
VerifySourcePackage(package, campaign) ==
    /\ campaign.outcome \in {"applied", "already_applied"}
    /\ campaign.target = "integration"
    /\ campaign.head = package.result
    /\ campaign.parents = {package.parent}
    /\ campaign.controller = package.issuer

(* _require_controller_issuer_binding: the journal's own pinned root.      *)
RequireControllerIssuerBinding(binding, root) == binding = root

(* _verify_composition_proof: the proof repeats the composition and was    *)
(* made for the issuer root of this journal.                               *)
VerifyCompositionProof(J, proof, root) ==
    /\ proof.composition.delta.package.issuer = root.source
    /\ Durable(J, {"composition"}) => proof.composition = J["composition"]

(* _authorize_composition and MainCompositionAdapter.verify: the           *)
(* composition is recomputed from the delta on main as it is now.          *)
AuthorizeComposition(J, proof, root, freshBase) ==
    /\ Durable(J, {"composition"})
    /\ proof.composition.base = freshBase
    /\ VerifyCompositionProof(J, proof, root)

VerifyPlanEvidence(J, plan, root) ==
    /\ Durable(J, PlanEvidence)
    /\ J["sourcePackage"] = plan.composition.delta.package
    /\ J["issuerBinding"] = plan.issuer
    /\ RequireControllerIssuerBinding(J["issuerBinding"], root)
    /\ J["delta"] = plan.composition.delta
    /\ J["composition"] = plan.composition
    /\ J["compositionProof"] = plan.proof

(* _verify_plan_composition: once more on the current base, only when the  *)
(* plan is first recorded.                                                 *)
VerifyPlanComposition(J, plan, root, freshBase) ==
    AuthorizeComposition(J, plan.proof, root, freshBase)

VerifyIntentLease(J, intent) ==
    /\ Durable(J, {"lease"})
    /\ intent.lease = J["lease"]

(* _operation_authority_branch: an operation graduates or rolls back; the  *)
(* records of both are no authority for either.                            *)
OperationAuthorityBranch(J) ==
    IF Durable(J, {"rollbackAuthorization"})
      THEN IF DOMAIN J \cap {"plan", "preparation"} = {} THEN "rollback"
                                                         ELSE "mixed"
      ELSE IF Durable(J, {"plan"}) THEN "graduation" ELSE "none"

RollbackKinds == {"rollbackAuthorization", "rollbackIntent",
                  "rollbackPreparation"}

RequirePreparationChain(J, prep) ==
    /\ DOMAIN J \cap RollbackKinds = {}
    /\ Durable(J, {"plan", "intent"})
    /\ J["intent"].plan = J["plan"]
    /\ prep.plan = J["plan"]
    /\ prep.lease = J["intent"].lease
    /\ Durable(J, {"lease"}) => prep.lease = J["lease"]
    /\ J["intent"].at <= prep.at

-----------------------------------------------------------------------------
(* Admission, hold and release authority.                                  *)

RequireQueueAdmission(J, admitted) ==
    /\ OperationAuthorityBranch(J) = "graduation"
    /\ Durable(J, {"plan", "queueConfiguration", "protection", "preparation"})
    /\ RequirePreparationChain(J, J["preparation"])
    /\ J["preparation"].at <= admitted.at
    /\ admitted.config = J["queueConfiguration"]
    /\ J["queueConfiguration"].base = J["plan"].composition.base
    /\ J["queueConfiguration"].epoch = J["protection"].epoch

RequireAdmission(J, evidence) ==
    /\ Durable(J, {"admission", "preparation", "intent", "plan"})
    /\ RequireQueueAdmission(J, J["admission"])
    /\ evidence.admission = J["admission"]
    /\ J["preparation"].at <= J["admission"].at
    /\ J["admission"].at <= evidence.at
    /\ Durable(J, {"queue", "protection", "attestations", "checks"})
    /\ J["queue"].config = J["admission"].config
    /\ J["queue"].admission = J["admission"]
    /\ evidence.gen = J["queue"].gen
    /\ evidence.epoch = J["protection"].epoch
    /\ evidence.checks = J["checks"]

RequireReleaseHold(J, evidence) ==
    /\ Durable(J, {"webhook"})
    /\ evidence.webhook = J["webhook"]
    /\ RequireAdmission(J, evidence)

RequireHold(J, authorization) ==
    /\ Durable(J, {"hold", "admission", "preparation", "intent", "plan"})
    /\ RequireAdmission(J, J["hold"])
    /\ authorization.hold = J["hold"]
    /\ J["hold"].at <= authorization.at
    /\ authorization.until > authorization.at

(* The chain of a release claim: both windows are still open.              *)
RequireReleaseClaim(J, claim) ==
    /\ Durable(J, {"authorization", "hold", "lease"})
    /\ claim.authorization = J["authorization"]
    /\ claim.authorization.hold = J["hold"]
    /\ claim.lease = J["lease"]
    /\ J["authorization"].at <= claim.at
    /\ claim.at < J["authorization"].until
    /\ claim.at < J["lease"].until
    /\ J["authorization"].until <= J["lease"].until

RequireReleaseAuthorization(J, transition) ==
    /\ Durable(J, {"authorization"})
    /\ transition.authorization = J["authorization"]
    /\ J["authorization"].at <= transition.at
    /\ transition.at <= J["authorization"].until

-----------------------------------------------------------------------------
(* The claimed transition repeats the mutation receipt, or the resolution  *)
(* of an ambiguous one.                                                    *)

TransitionOf(outcome) ==
    CASE outcome = "applied"         -> "transitioned"
      [] outcome = "already_applied" -> "already_transitioned"
      [] OTHER                       -> "reconciliation_required"

Terminal == {"transitioned", "already_transitioned"}

RequireClaimedTransition(J, claimed, stage) ==
    /\ Durable(J, {"claim", "authorization"})
    /\ claimed.claim = J["claim"]
    /\ stage.outcome \in {"applied", "already_applied", "ambiguous"}
    /\ IF stage.outcome # "ambiguous"
         THEN /\ ~claimed.resolved
              /\ claimed.outcome = TransitionOf(stage.outcome)
              /\ claimed.at = stage.at
         ELSE /\ claimed.resolved
              /\ stage.resolution # "none"
              /\ claimed.outcome = TransitionOf(stage.resolution)
              /\ claimed.at = stage.resolvedAt

-----------------------------------------------------------------------------
(* What the provider shows after the release.                              *)

RequireProviderReceipt(J, receipt) ==
    /\ Durable(J, {"authorization", "transition", "queue", "protection", "plan"})
    /\ RequireReleaseAuthorization(J, J["transition"])
    /\ J["transition"].at <= receipt.at
    /\ receipt.tree = J["plan"].composition.tree

RequireReconciliation(J, reconciliation) ==
    /\ Durable(J, {"transition", "providerReceipt", "queue", "protection", "plan"})
    /\ RequireProviderReceipt(J, J["providerReceipt"])
    /\ Durable(J, {"claimed"})
    /\ reconciliation.claimed = J["claimed"]
    /\ J["claimed"].outcome \in Terminal
    /\ reconciliation.gen = J["queue"].gen
    /\ reconciliation.state = "completed" =>
          /\ reconciliation.tree = J["providerReceipt"].tree
          /\ reconciliation.tree = J["plan"].composition.tree

RequirePostState(J, post) ==
    /\ Durable(J, {"providerReceipt", "reconciliation"})
    /\ post.tree = J["providerReceipt"].tree
    /\ post.at = J["providerReceipt"].at

-----------------------------------------------------------------------------
(* The completion package: MainCompletionPackage.validate_completion and   *)
(* _verify_completion_prerequisites.                                       *)

CompletionChildren ==
    PlanEvidence \cup
    {"plan", "intent", "lease", "preparation", "protection", "attestations",
     "queueConfiguration", "admission", "queue", "webhook", "checks", "hold",
     "authorization", "claim", "transition", "claimed", "providerReceipt",
     "reconciliation", "postState"}

(* The claim and the release intent fall inside the authorization.         *)
CompletionAuthority(J, stage) ==
    /\ J["authorization"].at <= J["claim"].at
    /\ J["claim"].at <= stage.intentAt
    /\ stage.intentAt < J["authorization"].until

(* The release was observed inside the window; an ambiguous one was        *)
(* recorded inside it and resolved by the very observation of main that    *)
(* the package carries.                                                    *)
CompletionTransition(J, stage) ==
    /\ J["authorization"].at <= J["transition"].at
    /\ J["transition"].at < J["authorization"].until
    /\ IF stage.outcome # "ambiguous"
         THEN /\ J["claimed"].at < J["authorization"].until
              /\ ~J["claimed"].resolved
              /\ J["transition"].outcome = TransitionOf(stage.outcome)
              /\ J["transition"].at = stage.at
         ELSE /\ J["transition"].outcome = "reconciliation_required"
              /\ J["transition"].at = stage.at
              /\ stage.resolution = "already_applied"
              /\ stage.resolvedBy = J["postState"].observation

CompletionPostState(J) ==
    /\ J["postState"].tree = J["providerReceipt"].tree
    /\ J["reconciliation"].state = "completed"
    /\ J["reconciliation"].tree = J["plan"].composition.tree
    /\ J["providerReceipt"].tree = J["plan"].composition.tree

VerifyCompletionPrerequisites(J, root) ==
    /\ Durable(J, CompletionChildren)
    /\ VerifyPlanEvidence(J, J["plan"], root)
    /\ RequirePreparationChain(J, J["preparation"])
    /\ RequireAdmission(J, J["hold"])
    /\ RequireHold(J, J["authorization"])
    /\ RequireReleaseAuthorization(J, J["transition"])
    /\ RequireProviderReceipt(J, J["providerReceipt"])
    /\ RequireReconciliation(J, J["reconciliation"])

ValidateCompletion(J, stage, root) ==
    /\ VerifyCompletionPrerequisites(J, root)
    /\ CompletionAuthority(J, stage)
    /\ CompletionTransition(J, stage)
    /\ CompletionPostState(J)
=============================================================================
