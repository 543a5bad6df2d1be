------------------------- MODULE GraduationContracts -------------------------
(***************************************************************************)
(* The records of a graduation (contracts/main_graduation.py and           *)
(* contracts/main_graduation_phase_a.py): which values each contract       *)
(* admits.  A class is the set of its valid instances; a digest of another *)
(* record is that record.  Fields that identify the operation, repository, *)
(* target and provider cannot differ within one operation and are left     *)
(* out; times are instants of the trusted clock.                           *)
(***************************************************************************)
EXTENDS Naturals

Time == Nat
Generation == Nat \ {0}
Trees == {"base", "candidate", "foreign"}
Principals == {"campaign", "release", "validation", "reviewer", "evaluator"}

-----------------------------------------------------------------------------
(* Planning evidence.                                                      *)

(* App 15368 validates; the release issuer is another one and did not      *)
(* issue the source package.                                               *)
MainReleaseIssuerBinding ==
    {b \in [app : Principals, source : Principals] :
        b.app # "validation" /\ b.app # b.source}

MainSourcePackageBinding ==
    {p \in [result : Trees, parent : Trees, issuer : Principals] :
        p.parent # p.result}

MainDeltaManifest ==
    {d \in [package : MainSourcePackageBinding, risk : {"ordinary", "sensitive"}] :
        d.risk = "ordinary"}

(* A new commit on top of the fresh base.                                  *)
MainCompositionArtifact ==
    {c \in [delta : MainDeltaManifest, base : Trees, tree : Trees, parent : Trees] :
        c.parent = c.base /\ c.tree # c.base}

MainCompositionProof == [composition : MainCompositionArtifact]

MainAttestationManifest ==
    {a \in [reviewer : Principals, evaluator : Principals] :
        a.reviewer # a.evaluator}

(* One package, one delta of it, one composition of that, its proof, and   *)
(* an issuer that trusts the package's source.                             *)
MainGraduationPlan ==
    {p \in [composition : MainCompositionArtifact, proof : MainCompositionProof,
            issuer : MainReleaseIssuerBinding] :
        /\ p.proof.composition = p.composition
        /\ p.issuer.source = p.composition.delta.package.issuer}

MainLeaseEvidenceRecord ==
    {l \in [from : Time, until : Time] : l.from < l.until}

MainGraduationIntent ==
    [plan : MainGraduationPlan, lease : MainLeaseEvidenceRecord, at : Time]

MainPreparationAuthorization ==
    [plan : MainGraduationPlan, lease : MainLeaseEvidenceRecord, at : Time]

-----------------------------------------------------------------------------
(* What the provider shows before and after the enqueue.                   *)

MainProtectionManifest == [epoch : Nat]

MainQueueConfigurationObservation == [base : Trees, epoch : Nat]

MainQueueAdmissionObservation ==
    [config : MainQueueConfigurationObservation, at : Time]

MainQueueObservation ==
    [gen : Generation, config : MainQueueConfigurationObservation,
     admission : MainQueueAdmissionObservation]

MainMergeGroupWebhookReceipt == [gen : Generation, at : Time]

(* No check of the group is older than the cutoff.                         *)
MainMergeGroupChecks ==
    {c \in [gen : Generation, cutoff : Time, at : Time] : c.cutoff <= c.at}

(* The hold, the delivery and the checks are of one merge group.           *)
MainReleaseHoldObservation ==
    {h \in [admission : MainQueueAdmissionObservation,
            webhook : MainMergeGroupWebhookReceipt, checks : MainMergeGroupChecks,
            gen : Generation, epoch : Nat, at : Time] :
        h.webhook.gen = h.gen /\ h.checks.gen = h.gen}

-----------------------------------------------------------------------------
(* Release authority and what came of it.                                  *)

MainReleaseAuthorization ==
    {a \in [hold : MainReleaseHoldObservation, at : Time, until : Time] :
        a.at < a.until}

(* Claimed before the authorization expires, which is no later than the    *)
(* lease does.                                                             *)
MainReleaseClaim ==
    {c \in [authorization : MainReleaseAuthorization,
            lease : MainLeaseEvidenceRecord, at : Time] :
        /\ c.authorization.until <= c.lease.until
        /\ c.at < c.authorization.until}

TransitionOutcomes ==
    {"transitioned", "already_transitioned", "reconciliation_required"}

MainReleaseTransitionReceipt ==
    [authorization : MainReleaseAuthorization, outcome : TransitionOutcomes,
     at : Time]

MainClaimedReleaseTransitionReceipt ==
    [claim : MainReleaseClaim, outcome : TransitionOutcomes, at : Time,
     resolved : BOOLEAN]

MainProviderReceipt == [tree : Trees, at : Time]

MainProviderPostStateObservation ==
    [tree : Trees, at : Time, observation : {"main post-state"}]

(* A completed reconciliation shows the composed tree on the bound base.   *)
MainReconciliation ==
    {r \in [state : {"completed", "reconciliation_required"}, tree : Trees,
            expected : Trees, gen : Generation,
            claimed : MainClaimedReleaseTransitionReceipt] :
        r.state = "completed" => r.tree = r.expected}

-----------------------------------------------------------------------------
(* The stages: intent, receipt, fence and resolution of a mutation.        *)

MainMutationStage == {"candidate_publication", "pull_request_open", "admission_check",
                      "queue_enqueue", "merge_group_hold", "release_transition"}

(* Only a stage after the enqueue names a queue generation.                *)
MainExternalIdentity ==
    {e \in [stage : MainMutationStage, gen : Nat] :
        e.gen # 0 <=> e.stage \in {"merge_group_hold", "release_transition"}}

MainMutationIntent ==
    {i \in [identity : MainExternalIdentity, authority : BOOLEAN, at : Time] :
        i.authority <=> i.identity.stage = "release_transition"}

(* Whatever may have taken effect was dispatched; a rejection is of a      *)
(* request that was not.                                                   *)
MainMutationReceipt ==
    {r \in [outcome : {"applied", "already_applied", "rejected", "ambiguous"},
            dispatched : BOOLEAN, at : Time] :
        r.dispatched <=> r.outcome # "rejected"}

MainMutationFenceResolution ==
    [outcome : {"already_applied", "not_applied"}, at : Time, by : {"stage observation"}]
=============================================================================
