--------------------------- MODULE DryRunPromotion ---------------------------
(***************************************************************************)
(* The dry-run promotion controller: application/promotion_service.py and  *)
(* contracts/promotion_bundle.py.  A dry run, or a rollback under a drill  *)
(* authorization, writes one bundle; replay judges a bundle again.         *)
(*                                                                         *)
(* Processes share the protected repository, the artifact store and the    *)
(* create-once index of rollback authorizations.  The repository is read   *)
(* twice by every call and may move between the reads.  A process may die  *)
(* at any step; a death while the index file is open leaves it torn.       *)
(*                                                                         *)
(* Bundles are of one candidate, one evaluation and one rollback operation;*)
(* the attestations were made at head 0, which is the canary's result.     *)
(***************************************************************************)
EXTENDS PromotionPolicy, TLC

CONSTANTS
  Processes,   \* callers of the controller
  Drills,      \* drill authorizations of one operation, which differ in the reason
  MaxMoves,    \* bound on the moves of the protected ref
  MaxStops     \* bound on the deaths of processes

VARIABLES
  pInput,      \* the attestations brought to the controller, and the changed paths
  pHead,       \* the snapshot of the protected ref
  pVerified,   \* the verifiers still confirm the evidence
  pStore,      \* bundles in the artifact store
  pAuthority,  \* the index of rollback authorizations: a record, NoRecord or torn
  pRuns,       \* the calls in progress
  pStops       \* deaths so far

dryRunVars == <<pInput, pHead, pVerified, pStore, pAuthority, pRuns, pStops>>

\* ----- what is brought to the controller ------------------------------------
PathSets == {{p} : p \in Paths} \cup {{"docs/guide", "src/engine"}, {"docs/guide", "deploy/service"}}

GateFaults == {"gate_failed", "gate_untrusted", "gate_expired", "gate_other_base", "gate_missing"}
ExtraFaults == {"gate_twice", "gate_disputed", "gate_unexpected"}
ReviewFaults ==
  {"review_repeated", "review_own", "review_own_domain", "review_same_domain",
   "review_unknown", "review_refused", "review_missing"}
RollbackFaults == {"rollback_missing", "rollback_unavailable", "rollback_spent", "rollback_untrusted"}
OtherFaults == {"proposer_unknown", "proposer_other", "exception", "synthetic_moved", "extra_evidence"}
Faults == GateFaults \cup ExtraFaults \cup ReviewFaults \cup RollbackFaults \cup OtherFaults

Attestation(issuer) ==
  [candidate |-> "candidate", base |-> 0, issuer |-> issuer, from |-> 0, until |-> 1,
   epoch |-> 1, synthetic |-> "synthetic", checks |-> "checks"]

GatePayload(gate) ==
  [kind |-> "gate", gate |-> gate, passed |-> TRUE] @@ Attestation("gate_issuer")

FirstGate(in) ==
  LET gate == IF DeriveRisk(in.paths) = "low" /\ ~in.campaign
              THEN "deterministic" ELSE "private_evaluation" IN
  [GatePayload(gate) EXCEPT
     !.passed = "gate_failed" \notin in.faults,
     !.issuer = IF "gate_untrusted" \in in.faults THEN "stranger" ELSE @,
     !.until = IF "gate_expired" \in in.faults THEN 0 ELSE @,
     !.base = IF "gate_other_base" \in in.faults THEN MaxMoves + 1 ELSE @]

ExtraGate(in) ==
  IF "gate_unexpected" \in in.faults THEN GatePayload("lint")
  ELSE [FirstGate(in) EXCEPT !.passed = IF "gate_disputed" \in in.faults THEN ~@ ELSE @]

ReviewPayload(reviewer) ==
  [kind |-> "reviewer", reviewer |-> reviewer, approved |-> TRUE,
   domain |-> IF reviewer \in DOMAIN Config.reviewerDomains
              THEN Config.reviewerDomains[reviewer] ELSE "none"] @@ Attestation("review_issuer")

SecondReview(in) ==
  LET reviewer == CASE "review_repeated" \in in.faults -> "alice"
                    [] "review_own" \in in.faults -> "author"
                    [] "review_own_domain" \in in.faults -> "carol"
                    [] "review_same_domain" \in in.faults -> "erin"
                    [] "review_unknown" \in in.faults -> "dave"
                    [] OTHER -> "bob" IN
  [ReviewPayload(reviewer) EXCEPT !.approved = "review_refused" \notin in.faults]

RollbackPayload(in) ==
  [kind |-> "rollback", available |-> "rollback_unavailable" \notin in.faults,
   count |-> IF "rollback_spent" \in in.faults THEN Config.rollbackLimit + 1 ELSE 1] @@
  Attestation(IF "rollback_untrusted" \in in.faults THEN "stranger" ELSE "rollback_issuer")

\* The roles that are filled.
Supplied(in) ==
  (ExpectedRoles \ ((IF "gate_missing" \in in.faults THEN {"private-regression"} ELSE {})
                    \cup (IF "review_missing" \in in.faults THEN {"reviewer-decision-2"} ELSE {})
                    \cup (IF "rollback_missing" \in in.faults THEN {"rollback-proof"} ELSE {})
                    \cup (IF DeriveRisk(in.paths) = "low" /\ ~in.campaign
                          THEN {"trusted-ci-check-manifest", "integration-soak"} ELSE {})))
  \cup (IF in.faults \cap ExtraFaults # {} THEN {"extra"} ELSE {})

Payloads(in) ==
  [role \in Supplied(in) |->
     CASE role = "trusted-ci-check-manifest" ->
            [kind |-> "trusted_ci", checks |-> "checks",
             synthetic |-> IF "synthetic_moved" \in in.faults THEN "older" ELSE "synthetic"]
       [] role = "private-regression" -> FirstGate(in)
       [] role = "provenance-reconstruction" -> GatePayload("provenance")
       [] role = "integration-soak" -> GatePayload("integration_soak")
       [] role = "reviewer-decision-1" -> ReviewPayload("alice")
       [] role = "reviewer-decision-2" -> SecondReview(in)
       [] role = "rollback-proof" -> RollbackPayload(in)
       [] role = "extra" -> ExtraGate(in)]

\* PromotionDryRunInput.
PromotionDryRunInput(in) ==
  LET payloads == Payloads(in)
      intake == [candidate |-> "candidate",
                 proposer |-> CASE "proposer_unknown" \in in.faults -> "nobody"
                                [] "proposer_other" \in in.faults -> "other"
                                [] OTHER -> "author"] IN
  [candidate |-> intake.candidate, proposer |-> intake.proposer,
   gates |-> [r \in OfKind(payloads, "gate") \cup OfKind(payloads, "trusted_ci") |->
                IF payloads[r].kind = "trusted_ci" THEN TrustedCi(intake, 0) ELSE payloads[r]],
   reviews |-> [r \in OfKind(payloads, "reviewer") |-> payloads[r]],
   rollback |-> IF "rollback-proof" \in DOMAIN payloads THEN payloads["rollback-proof"]
                ELSE NoRecord,
   exception |-> "exception" \in in.faults]

\* The attestations the controller issues itself, of the snapshot it read.
BaseAttestation(snapshot) ==
  [gate |-> "base", candidate |-> "candidate", base |-> snapshot, issuer |-> "base_issuer",
   passed |-> TRUE, from |-> Config.epoch, until |-> Config.epoch]

PathAttestation(snapshot, paths) ==
  [candidate |-> "candidate", base |-> snapshot, manifest |-> PathManifestDigest(paths),
   issuer |-> "path_issuer", from |-> Config.epoch, until |-> Config.epoch]

PromotionRequest(in, snapshot) ==
  [base |-> snapshot, paths |-> in.paths, baseGate |-> BaseAttestation(snapshot),
   pathManifest |-> PathAttestation(snapshot, in.paths)] @@ PromotionDryRunInput(in)

\* _validate_gate_scope: no evidence of a gate the risk does not ask for.
ValidateGateScope(q) ==
  {q.gates[i].gate : i \in DOMAIN q.gates} \subseteq RequiredGates(DeriveRisk(q.paths))

\* The input lists exactly the evidence its attestations name, and it verifies.
EvidenceVerified(in) == "extra_evidence" \notin in.faults /\ pVerified

\* ----- bundles ----------------------------------------------------------------
RollbackPromotionBundleAuthorization(a) == a.drill \in Drills

RollbackDecision(paths) == Decision("allow", DeriveRisk(paths), "authorized_rollback", 0)

OrdinaryBundle(snapshot, decision) ==
  [kind |-> "ordinary_campaign", snapshot |-> snapshot, decision |-> decision,
   authorization |-> NoRecord]

RollbackBundle(authorization) ==
  [kind |-> "authorized_rollback", snapshot |-> authorization.failed,
   decision |-> RollbackDecision(pInput.paths), authorization |-> authorization]

LegacyBundle == [OrdinaryBundle(0, RollbackDecision(pInput.paths)) EXCEPT !.kind = "none"]

\* PromotionBundle.linked_digests_match.
PromotionBundle(b) ==
  /\ b.kind = "ordinary_campaign" =>
       b.authorization = NoRecord /\ b.decision.reason # "authorized_rollback"
  /\ b.kind = "authorized_rollback" =>
       /\ b.authorization # NoRecord /\ RollbackPromotionBundleAuthorization(b.authorization)
       /\ b.authorization.failed = b.snapshot
       /\ b.decision.outcome = "allow" /\ b.decision.reason = "authorized_rollback"
  /\ b.kind = "none" => b.authorization = NoRecord

\* ----- RollbackPromotionAuthorizationJournal -----------------------------------
Torn == [failed |-> 0, drill |-> "torn"]

\* record: create once, and a second record must be the first.
RecordAuthorizationOver(authorization) == TRUE
RecordAuthorization(authorization) == pAuthority \in {NoRecord, authorization}

\* require: the durable authorization is the one the bundle carries.
RequireAuthorization(authorization) == pAuthority = authorization

\* ----- the controller -----------------------------------------------------------
Idle == [step |-> "idle"]
Goes(p, run) == pRuns' = [pRuns EXCEPT ![p] = run]
Raises(p) == Goes(p, [step |-> "raised"])
At(p, step) == pRuns[p].step = step

DryRunInit ==
  /\ pInput \in [paths : PathSets, faults : {{}} \cup {{f, g} : f, g \in Faults},
                 campaign : BOOLEAN]
  /\ pHead = 0 /\ pVerified = TRUE /\ pStore = {} /\ pAuthority = NoRecord
  /\ pRuns = [p \in Processes |-> Idle]
  /\ pStops = 0

\* dry_run, to the decision.
DryRun(p) ==
  LET q == PromotionRequest(pInput, pHead) IN
  /\ At(p, "idle")
  /\ IF EvidenceVerified(pInput) /\ ValidateGateScope(q)
     THEN Goes(p, [step |-> "bundled", bundle |-> OrdinaryBundle(pHead, Classify(q))])
     ELSE Raises(p)
  /\ UNCHANGED <<pInput, pHead, pVerified, pStore, pAuthority, pStops>>

\* _validate_drill_authorization and _validate_rollback_facts: the failed head the
\* request names, which is the canary's result, is the snapshot.
ValidateRollbackFacts(request, snapshot) == request.failed = snapshot

\* create_rollback_bundle, to the authorization it derives from the snapshot.
CreateRollbackBundle(p, drill) ==
  LET authorization == [failed |-> pHead, drill |-> drill] IN
  /\ At(p, "idle")
  /\ IF ValidateRollbackFacts([failed |-> 0], pHead) /\ pVerified
     THEN Goes(p, [step |-> "authorizing", authorization |-> authorization])
     ELSE Raises(p)
  /\ UNCHANGED <<pInput, pHead, pVerified, pStore, pAuthority, pStops>>

\* It records the authorization before it knows that the snapshot still stands.
AuthorizeRollback(p) ==
  /\ At(p, "authorizing")
  /\ IF RecordAuthorization(pRuns[p].authorization)
     THEN /\ pAuthority' = pRuns[p].authorization
          /\ Goes(p, [step |-> "bundled", bundle |-> RollbackBundle(pRuns[p].authorization)])
     ELSE Raises(p) /\ UNCHANGED pAuthority
  /\ UNCHANGED <<pInput, pHead, pVerified, pStore, pStops>>

\* The final read before the only side effect.
FinalRead(p) ==
  /\ At(p, "bundled")
  /\ IF pHead = pRuns[p].bundle.snapshot
     THEN Goes(p, [step |-> "writing", bundle |-> pRuns[p].bundle])
     ELSE Raises(p)
  /\ UNCHANGED <<pInput, pHead, pVerified, pStore, pAuthority, pStops>>

PutBundle(p) ==
  /\ At(p, "writing")
  /\ pStore' = pStore \cup {pRuns[p].bundle}
  /\ Goes(p, Idle)
  /\ UNCHANGED <<pInput, pHead, pVerified, pAuthority, pStops>>

Reports(p, bundle, outcome) ==
  Goes(p, [step |-> "reported", bundle |-> bundle, outcome |-> outcome])

\* What replay finds wrong with a bundle before it reads the repository.
ReplayRefuses(b) ==
  \/ b.kind = "none" \/ ~PromotionBundle(b) \/ ~pVerified
  \/ IF b.kind = "authorized_rollback" THEN ~RequireAuthorization(b.authorization)
     ELSE LET q == PromotionRequest(pInput, b.snapshot) IN
          b.decision # Classify(q) \/ ~ValidateGateScope(q)

\* A caller of replay may bring a bundle, of a snapshot the ref had, that no call of this
\* controller wrote.
Brought ==
  {LegacyBundle}
    \cup {OrdinaryBundle(s, Classify(PromotionRequest(pInput, s))) : s \in 0..pHead}
    \cup {OrdinaryBundle(s, RollbackDecision(pInput.paths)) : s \in 0..pHead}
    \cup {RollbackBundle([failed |-> s, drill |-> d]) : s \in 0..pHead, d \in Drills}

\* replay, of a bundle of the store or of one brought along, to the last check.
Replay(p, b) ==
  /\ At(p, "idle")
  /\ IF ReplayRefuses(b) THEN Reports(p, b, "invalid_bundle")
     ELSE IF b.decision.outcome # "allow" THEN Reports(p, b, "not_applicable")
     ELSE Goes(p, [step |-> "replayed", bundle |-> b])
  /\ UNCHANGED <<pInput, pHead, pVerified, pStore, pAuthority, pStops>>

\* The compare-and-swap precondition.
ReplayPrecondition(p) ==
  /\ At(p, "replayed")
  /\ Reports(p, pRuns[p].bundle,
             IF pHead = pRuns[p].bundle.snapshot THEN "would_apply" ELSE "stale_base")
  /\ UNCHANGED <<pInput, pHead, pVerified, pStore, pAuthority, pStops>>

\* ----- the environment ------------------------------------------------------------
HeadMoves ==
  /\ pHead < MaxMoves
  /\ pHead' = pHead + 1
  /\ UNCHANGED <<pInput, pVerified, pStore, pAuthority, pRuns, pStops>>

EvidenceWithdrawn ==
  /\ pVerified /\ pVerified' = FALSE
  /\ UNCHANGED <<pInput, pHead, pStore, pAuthority, pRuns, pStops>>

\* The caller goes away; a death in record leaves an empty index.
Stop(p) ==
  /\ ~At(p, "idle") /\ pStops < MaxStops
  /\ pStops' = pStops + 1
  /\ Goes(p, Idle)
  /\ \/ UNCHANGED pAuthority
     \/ At(p, "authorizing") /\ pAuthority = NoRecord /\ pAuthority' = Torn
  /\ UNCHANGED <<pInput, pHead, pVerified, pStore>>

DryRunNext ==
  \/ \E p \in Processes :
       \/ DryRun(p) \/ AuthorizeRollback(p) \/ FinalRead(p) \/ PutBundle(p)
       \/ ReplayPrecondition(p) \/ Stop(p)
       \/ \E d \in Drills : CreateRollbackBundle(p, d)
       \/ \E b \in pStore \cup Brought : Replay(p, b)
  \/ HeadMoves \/ EvidenceWithdrawn

DryRunSpec == DryRunInit /\ [][DryRunNext]_dryRunVars

-----------------------------------------------------------------------------
\* Every bundle in the artifact store, and every bundle a call carries, satisfies
\* the validators of PromotionBundle.
DryRunTypeOK ==
  /\ pHead \in 0..MaxMoves /\ pVerified \in BOOLEAN
  /\ \A b \in pStore : b.snapshot \in 0..MaxMoves /\ PromotionBundle(b)
  /\ pAuthority \in {NoRecord, Torn} \cup [failed : {0}, drill : Drills]
  /\ \A p \in Processes : pRuns[p].step \in {"bundled", "writing"} => PromotionBundle(pRuns[p].bundle)

\* classify, whose first failing check decides, allows exactly the requests in which
\* every requirement holds; and the evidence the quality adapter and the campaign
\* service accept is enough for an ordinary change by the candidate's proposer which
\* nobody reviewed for themself and for which no exception was asked.
PolicyAllowsExactly ==
  LET q == PromotionRequest(pInput, 0)
      observation == [synthetic |-> "synthetic", checks |-> "checks"] IN
  /\ (Classify(q).outcome = "allow") <=> Entitled(q)
  /\ Evaluate(Payloads(pInput), q, observation, 0) =>
       /\ ValidateQuality(q, q) /\ ValidateQualityBase(q, 0)
       /\ DeriveRisk(pInput.paths) = "ordinary" /\ ProposerBound(q) /\ ~q.exception
            /\ (\A i \in DOMAIN q.reviews : q.reviews[i].reviewer # q.proposer)
          => Entitled(q) /\ ValidateGateScope(q)

\* A bundle that replay would apply, whoever wrote it, is entitled to it: an ordinary
\* one by its own attestations, made for the snapshot it names, a rollback by the one
\* durable authorization of its operation, which every rollback bundle in the store
\* carries.
WouldApplyIsAuthorized ==
  /\ \A b \in pStore : b.kind = "authorized_rollback" => b.authorization = pAuthority
  /\ \A p \in Processes :
       At(p, "reported") /\ pRuns[p].outcome = "would_apply" =>
         LET b == pRuns[p].bundle IN
         IF b.kind = "ordinary_campaign" THEN Entitled(PromotionRequest(pInput, b.snapshot))
         ELSE b.authorization = pAuthority
=============================================================================
