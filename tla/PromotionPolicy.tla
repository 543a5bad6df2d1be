-------------------------- MODULE PromotionPolicy --------------------------
(***************************************************************************)
(* The promotion policy, and the quality evidence a live campaign brings   *)
(* to it: contracts/promotion_policy.py, evidence/campaign_quality.py and  *)
(* the quality checks of integration_campaign_service.py.  Pure operators. *)
(*                                                                         *)
(* A list of attestations is a function from its entries.  A path stands   *)
(* for the kind derive_risk tells apart, and the digest of a record is the *)
(* record.                                                                 *)
(***************************************************************************)
EXTENDS Naturals, FiniteSets

CONSTANT NoRecord  \* an attestation that is not given

\* ----- paths and risk -------------------------------------------------------
ProductionPaths == {"deploy/service"}
ConstitutionalPaths == {"pyproject.toml"}
LowPaths == {"docs/guide", "tests/unit"}
OrdinaryPaths == {"src/engine"}
Paths == ProductionPaths \cup ConstitutionalPaths \cup LowPaths \cup OrdinaryPaths

ConstitutionalPath(path) == path \in ConstitutionalPaths

\* derive_risk: the riskiest path decides.
DeriveRisk(paths) ==
  CASE paths \cap ProductionPaths # {} -> "production"
    [] paths \cap ProductionPaths = {} /\ (\E p \in paths : ConstitutionalPath(p)) ->
         "constitutional"
    [] paths \subseteq LowPaths -> "low"
    [] OTHER -> "ordinary"

PathManifestDigest(paths) == paths

\* ----- attestations ---------------------------------------------------------
\* PromotionConfig: what the controller trusts.
Config ==
  [epoch |-> 1, gateIssuers |-> {"gate_issuer"}, baseIssuers |-> {"base_issuer"},
   reviewerIssuers |-> {"review_issuer"}, pathIssuers |-> {"path_issuer"},
   rollbackIssuers |-> {"rollback_issuer"}, rollbackLimit |-> 1,
   reviewerDomains |-> [alice |-> "review", bob |-> "security", carol |-> "authoring",
                        erin |-> "review", author |-> "operations"],
   proposerDomains |-> [author |-> "authoring", other |-> "authoring"],
   candidateProposers |-> [candidate |-> "author"],
   lowGates |-> {"deterministic", "provenance"},
   ordinaryGates |-> {"trusted_ci", "private_evaluation", "provenance", "integration_soak"}]

RequiredGates(risk) == IF risk = "low" THEN Config.lowGates ELSE Config.ordinaryGates

\* _bound: of this candidate and base, by a trusted issuer, in its window.
Bound(a, q, issuers) ==
  /\ a.candidate = q.candidate /\ a.base = q.base
  /\ a.issuer \in issuers
  /\ a.from <= Config.epoch /\ Config.epoch <= a.until

PathManifestValid(q) ==
  /\ q.pathManifest.manifest = PathManifestDigest(q.paths)
  /\ Bound(q.pathManifest, q, Config.pathIssuers)

BaseValid(q) ==
  q.baseGate.gate = "base" /\ q.baseGate.passed /\ Bound(q.baseGate, q, Config.baseIssuers)

GateValid(a, q, gate) == a.gate = gate /\ Bound(a, q, Config.gateIssuers)

\* The entries that are valid evidence of a gate.
Trusted(q, gate) == {i \in DOMAIN q.gates : GateValid(q.gates[i], q, gate)}

Gate(q, gate) == \E i \in Trusted(q, gate) : q.gates[i].passed
FailedGate(q, gate) == \E i \in Trusted(q, gate) : ~q.gates[i].passed
ConflictingGate(q, gate) == Gate(q, gate) /\ FailedGate(q, gate)

DuplicateGateOffByOne(q, gate) == Cardinality(Trusted(q, gate)) > 2
DuplicateGate(q, gate) == Cardinality(Trusted(q, gate)) > 1

HasInvalidGateEvidence(q, gate) ==
  \E i \in DOMAIN q.gates : q.gates[i].gate = gate /\ i \notin Trusted(q, gate)

ReviewerValid(a, q) ==
  a.reviewer \in DOMAIN Config.reviewerDomains /\ Bound(a, q, Config.reviewerIssuers)

ProposerBound(q) ==
  /\ q.proposer \in DOMAIN Config.proposerDomains
  /\ Config.candidateProposers[q.candidate] = q.proposer

\* Reviews of another domain than the proposer's.
Approvals(q) ==
  {i \in DOMAIN q.reviews :
     /\ q.reviews[i].approved
     /\ Config.reviewerDomains[q.reviews[i].reviewer] # Config.proposerDomains[q.proposer]}

ApprovalDomains(q) ==
  {Config.reviewerDomains[q.reviews[i].reviewer] : i \in Approvals(q)}

QuorumMet(q, quorum) ==
  Cardinality(Approvals(q)) >= quorum /\ Cardinality(ApprovalDomains(q)) >= quorum

\* ----- classify -------------------------------------------------------------
Decision(outcome, risk, reason, quorum) ==
  [outcome |-> outcome, risk |-> risk, reason |-> reason, quorum |-> quorum]

\* The reviews are judged after everything else.
ClassifyReviews(q) ==
  LET risk == DeriveRisk(q.paths)
      quorum == IF risk = "low" THEN 1 ELSE 2
      D(outcome, reason) == Decision(outcome, risk, reason, quorum)
      reviewers == {q.reviews[i].reviewer : i \in DOMAIN q.reviews} IN
  IF DOMAIN q.reviews = {} THEN D("quarantine", "missing_reviewer_evidence")
  ELSE IF Cardinality(reviewers) # Cardinality(DOMAIN q.reviews)
  THEN D("quarantine", "duplicate_reviewer_evidence")
  ELSE IF \E i \in DOMAIN q.reviews : ~ReviewerValid(q.reviews[i], q)
  THEN D("quarantine", "invalid_reviewer_evidence")
  ELSE IF q.exception THEN D("escalate", "operator_exception")
  ELSE IF \E i \in DOMAIN q.reviews : ~q.reviews[i].approved
  THEN D("escalate", "reviewer_disagreement")
  ELSE IF ~QuorumMet(q, quorum) THEN D("deny", "review_quorum_not_met")
  ELSE D("allow", "requirements_satisfied")

\* The first requirement that fails names the outcome.
Classify(q) ==
  LET risk == DeriveRisk(q.paths)
      gates == RequiredGates(risk)
      D(outcome, reason) == Decision(outcome, risk, reason, IF risk = "low" THEN 1 ELSE 2)
      bound == q.rollback # NoRecord /\ Bound(q.rollback, q, Config.rollbackIssuers) IN
  IF risk = "production" THEN D("deny", "production_out_of_scope")
  ELSE IF ~PathManifestValid(q) THEN D("quarantine", "invalid_path_manifest")
  ELSE IF ~ProposerBound(q) THEN D("quarantine", "invalid_proposer_identity")
  ELSE IF \E g \in gates : ConflictingGate(q, g) THEN D("quarantine", "conflicting_gate")
  ELSE IF \E g \in gates : DuplicateGate(q, g) THEN D("quarantine", "duplicate_gate")
  ELSE IF \E g \in gates : FailedGate(q, g) THEN D("deny", "failed_gate")
  ELSE IF \E i \in DOMAIN q.reviews :
            q.reviews[i].reviewer = q.proposer /\ ReviewerValid(q.reviews[i], q)
  THEN D("deny", "self_approval")
  ELSE IF risk = "constitutional" THEN D("escalate", "constitutional_change")
  ELSE IF bound /\ ~q.rollback.available THEN D("deny", "rollback_unavailable")
  ELSE IF bound /\ q.rollback.count > Config.rollbackLimit
  THEN D("deny", "rollback_limit_exceeded")
  ELSE IF ~BaseValid(q) THEN D("quarantine", "untrusted_or_stale_base")
  ELSE IF q.rollback = NoRecord THEN D("quarantine", "missing_rollback_evidence")
  ELSE IF ~bound THEN D("quarantine", "invalid_rollback_evidence")
  ELSE IF \E g \in gates : HasInvalidGateEvidence(q, g) THEN D("quarantine", "invalid_gate")
  ELSE IF \E g \in gates : ~Gate(q, g) THEN D("quarantine", "missing_gate")
  ELSE ClassifyReviews(q)

\* What "allow" is to mean, in no order: every required gate has exactly one entry,
\* trusted and passed; the base, the path manifest and the rollback proof are bound;
\* every reviewer is trusted, approves and is not the proposer, and a quorum of
\* domains other than the proposer's is among them.
Entitled(q) ==
  LET risk == DeriveRisk(q.paths)
      entries(g) == {i \in DOMAIN q.gates : q.gates[i].gate = g} IN
  /\ risk \in {"low", "ordinary"}
  /\ ProposerBound(q) /\ PathManifestValid(q) /\ BaseValid(q) /\ ~q.exception
  /\ \A g \in RequiredGates(risk) :
       \E i \in entries(g) : entries(g) = {i} /\ GateValid(q.gates[i], q, g) /\ q.gates[i].passed
  /\ q.rollback # NoRecord
  /\ Bound(q.rollback, q, Config.rollbackIssuers)
  /\ q.rollback.available /\ q.rollback.count <= Config.rollbackLimit
  /\ \A i \in DOMAIN q.reviews :
       /\ ReviewerValid(q.reviews[i], q)
       /\ q.reviews[i].approved /\ q.reviews[i].reviewer # q.proposer
  /\ \A i, j \in DOMAIN q.reviews : q.reviews[i].reviewer = q.reviews[j].reviewer => i = j
  /\ \E independent \in SUBSET DOMAIN q.reviews :
       LET domains == {Config.reviewerDomains[q.reviews[i].reviewer] : i \in independent} IN
       /\ Config.proposerDomains[q.proposer] \notin domains
       /\ Cardinality(domains) >= (IF risk = "low" THEN 1 ELSE 2)

\* ----- the quality evidence of a campaign -----------------------------------
ExpectedRoles ==
  {"trusted-ci-check-manifest", "private-regression", "provenance-reconstruction",
   "integration-soak", "reviewer-decision-1", "reviewer-decision-2", "rollback-proof"}

OfKind(payloads, kind) == {r \in DOMAIN payloads : payloads[r].kind = kind}

\* _parse: the role of the check manifest decides its schema, elsewhere the kind does.
ParsePayload(role, p) ==
  IF role = "trusted-ci-check-manifest" THEN p.kind = "trusted_ci"
  ELSE /\ p.kind \in {"gate", "reviewer", "rollback"}
       /\ p.kind = "gate" => p.gate \in Config.ordinaryGates \ {"trusted_ci"}

\* _validate_common: every payload is of the synthetic merge, the protection and
\* the check manifest that were discovered, and of the base the adapter was given.
ValidateCommon(payloads, intake, observation, base) ==
  \A r \in DOMAIN payloads :
    LET p == payloads[r] IN
    /\ p.synthetic = observation.synthetic /\ p.checks = observation.checks
    /\ p.kind # "trusted_ci" =>
         /\ p.candidate = intake.candidate /\ p.base = base
         /\ p.epoch = Config.epoch /\ p.from <= p.epoch /\ p.epoch <= p.until

GatesTrusted(payloads) ==
  LET gates == OfKind(payloads, "gate") IN
  /\ \A r, s \in gates : payloads[r].gate = payloads[s].gate => r = s
  /\ \A r \in gates : payloads[r].passed /\ payloads[r].issuer \in Config.gateIssuers
  /\ {payloads[r].gate : r \in gates} \cup {"trusted_ci"} = Config.ordinaryGates
  /\ OfKind(payloads, "trusted_ci") = {"trusted-ci-check-manifest"}

ReviewersIndependent(payloads, proposer) ==
  LET reviews == OfKind(payloads, "reviewer") IN
  /\ \A r, s \in reviews :
       \/ r = s
       \/ /\ payloads[r].reviewer # payloads[s].reviewer
          /\ payloads[r].domain # payloads[s].domain
  /\ \A r \in reviews :
       LET p == payloads[r] IN
       /\ p.approved /\ p.issuer \in Config.reviewerIssuers
       /\ p.reviewer \in DOMAIN Config.reviewerDomains
       /\ p.domain = Config.reviewerDomains[p.reviewer]
       /\ p.domain # Config.proposerDomains[proposer]
  /\ Cardinality(reviews) = 2

RollbackProven(payloads) ==
  \E r \in OfKind(payloads, "rollback") :
    /\ OfKind(payloads, "rollback") = {r}
    /\ payloads[r].issuer \in Config.rollbackIssuers
    /\ payloads[r].available /\ payloads[r].count <= Config.rollbackLimit

\* TrustedCampaignQualityAdapter.evaluate, over artifacts of the expected roles.
Evaluate(payloads, intake, observation, base) ==
  /\ DOMAIN payloads = ExpectedRoles
  /\ \A r \in DOMAIN payloads : ParsePayload(r, payloads[r])
  /\ ValidateCommon(payloads, intake, observation, base)
  /\ intake.proposer \in DOMAIN Config.proposerDomains
  /\ GatesTrusted(payloads)
  /\ ReviewersIndependent(payloads, intake.proposer)
  /\ RollbackProven(payloads)

\* The check manifest becomes an attestation of the controller's own issuer.
TrustedCi(intake, base) ==
  [gate |-> "trusted_ci", candidate |-> intake.candidate, base |-> base,
   issuer |-> "gate_issuer", passed |-> TRUE, from |-> Config.epoch, until |-> Config.epoch]

\* IntegrationCampaignService._validate_quality: the service judges what the adapter
\* returned once more, against its own configuration.
ValidateQuality(quality, intake) ==
  LET gates == {quality.gates[i].gate : i \in DOMAIN quality.gates}
      reviewers == {quality.reviews[i].reviewer : i \in DOMAIN quality.reviews} IN
  /\ gates = Config.ordinaryGates /\ Cardinality(DOMAIN quality.gates) = Cardinality(gates)
  /\ \A i \in DOMAIN quality.gates :
       quality.gates[i].passed /\ quality.gates[i].candidate = intake.candidate
  /\ Cardinality(reviewers) >= 2 /\ Cardinality(DOMAIN quality.reviews) = Cardinality(reviewers)
  /\ \A i \in DOMAIN quality.reviews :
       quality.reviews[i].approved /\ quality.reviews[i].candidate = intake.candidate
  /\ reviewers \subseteq DOMAIN Config.reviewerDomains
  /\ LET domains == {Config.reviewerDomains[r] : r \in reviewers} IN
       /\ Config.proposerDomains[intake.proposer] \notin domains
       /\ Cardinality(domains) >= 2
  /\ quality.rollback.available /\ quality.rollback.candidate = intake.candidate

ValidateQualityBase(quality, base) ==
  /\ \A i \in DOMAIN quality.gates : quality.gates[i].base = base
  /\ \A i \in DOMAIN quality.reviews : quality.reviews[i].base = base
  /\ quality.rollback.base = base
=============================================================================
