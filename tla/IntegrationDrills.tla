------------------------- MODULE IntegrationDrills -------------------------
(***************************************************************************)
(* The eight failure drills of the integration branch:                     *)
(* application/integration_drill_service.py, its case 8 in                 *)
(* application/integration_attester_drill_service.py and their journal,    *)
(* adapters/artifacts/drill_journal.py.                                    *)
(*                                                                         *)
(* Several processes run the drill over one journal root and may die.  The *)
(* providers of a case live in the process that executes it, with their    *)
(* counts; the journals are shared.  The promotion boundary of cases 1, 2, *)
(* 5, 6 and 7, the rollback of case 7 and the validation of case 8 are     *)
(* modelled by their durable stages (IntegrationPromotion, LiveRollback    *)
(* and SyntheticValidation model them in full); the quality adapter of     *)
(* case 4 is PromotionPolicy, and the check parser of cases 3 and 8 is     *)
(* below.                                                                  *)
(***************************************************************************)
EXTENDS RollbackContracts, Naturals, Sequences, TLC

CONSTANTS
  DrillRunners,    \* processes
  MaxDrillDeaths   \* bound on deaths

VARIABLES
  iPlan,           \* "none", "torn" or "recorded"
  iCases,          \* case -> its durable record
  iResult,         \* the aggregate: "none", "torn" or "recorded"
  iStages,         \* case -> "none", "leased", "intended", "authorized", "receipted"
  iReceipt,        \* the promotion receipt of case 7
  iLease,          \* the case that holds the lease of the shared promotion journal
  iRollback,       \* the rollback receipt of case 7
  iManifest,       \* the promotion evidence manifest of case 7 is recorded
  iValidation,     \* the validation of case 8: "none", "claimed" or "created"
  iEffects,        \* case -> mutations and validation refs its providers received
  iRuns,           \* process -> the run in progress
  iDeaths

drillVars == <<iPlan, iCases, iResult, iStages, iReceipt, iLease, iRollback, iManifest,
               iValidation, iEffects, iRuns, iDeaths>>

rootRecords == <<iPlan, iCases, iResult>>
promotionJournal == <<iStages, iReceipt, iLease>>
caseSevenRecords == <<iRollback, iManifest>>

Policy == INSTANCE PromotionPolicy

\* ----- what the provider accepts: adapters/hosted_git/github.py -------------
\* Protection and check runs of a commit; a predicate that is FALSE is a read that
\* raises.  A check is a pair of a context and an app id.  A collection that fits
\* one page is a sequence of check runs with the total the page declares.

\* GitHubProtectionPolicy, every field at its default.
GitHubProtectionPolicy ==
  [approvals |-> 0, strict |-> TRUE, dismissStale |-> TRUE, lastPush |-> FALSE,
   admins |-> TRUE, linear |-> TRUE, conversation |-> TRUE, forcePushes |-> FALSE,
   deletions |-> FALSE, locked |-> FALSE]

Once(s) == \A i, j \in DOMAIN s : s[i] = s[j] => i = j
Listed(s) == {s[i] : i \in DOMAIN s}

\* _validate_checks: at least one, and no pair twice.
ValidateChecks(checks) == checks # <<>> /\ Once(checks)

\* _protection_payload: every trusted field is what the policy says, the required
\* checks are those of the configuration, each once, and contexts lists the same.
ProtectionPayload(p, checks) ==
  /\ p.policy = GitHubProtectionPolicy
  /\ Once(p.checks) /\ Listed(p.checks) = Listed(checks)
  /\ p.contexts = {c[1] : c \in Listed(checks)}

\* The page holds as many runs as it declares, and no id twice.
PageExact(page) ==
  Len(page.runs) = page.total /\ Once([i \in DOMAIN page.runs |-> page.runs[i].id])

Identity(run) == <<run.name, run.app>>

SuccessfulOn(run, sha, cutoff, now) ==
  /\ run.sha = sha /\ run.status = "completed" /\ run.conclusion = "success"
  /\ cutoff <= run.at /\ run.at <= now

\* _evidence_snapshot: each trusted check ran once, on this commit, with success,
\* neither before the cutoff nor after now; every other run is passed over.
EvidenceSnapshot(protection, page, checks, sha, cutoff, now) ==
  LET trusted == SelectSeq(page.runs, LAMBDA r : Identity(r) \in Listed(checks))
      identities == [i \in DOMAIN trusted |-> Identity(trusted[i])] IN
  /\ ProtectionPayload(protection, checks)
  /\ PageExact(page)
  /\ \A i \in DOMAIN trusted : SuccessfulOn(trusted[i], sha, cutoff, now)
  /\ Once(identities) /\ Listed(identities) = Listed(checks)

\* ----- the drill ------------------------------------------------------------
Cases == 1..8
PromotionCases == {1, 2, 5, 6, 7}

\* An index that was created and not written: every read of it raises.
Torn == [case |-> 0]

DrillIdle == [step |-> "idle", case |-> 0, seen |-> NoRecord]
At(r, step) == iRuns[r].step = step
Goes(r, step) == iRuns' = [iRuns EXCEPT ![r].step = step]
Moves(r, case) == iRuns' = [iRuns EXCEPT ![r] = [DrillIdle EXCEPT !.step = "case", !.case = case]]
Ends(r) == iRuns' = [iRuns EXCEPT ![r] = DrillIdle]

\* DrillObservation: what the boundary of a case returned and how often its
\* provider was called.
DrillObservation(outcome, mutations, reconciles) ==
  [outcome |-> outcome, mutations |-> mutations, reconciles |-> reconciles]

Observes(r, seen) ==
  iRuns' = [iRuns EXCEPT ![r].step = "observed", ![r].seen = seen]

\* ----- the boundaries of cases 3, 4 and 8 -----------------------------------
Check == <<"ci", 1>>
Protection == [policy |-> GitHubProtectionPolicy, checks |-> <<Check>>, contexts |-> {Check[1]}]

\* _check_identity_failure: no check ran.
CheckIdentityFailure ==
  IF EvidenceSnapshot(Protection, [total |-> 0, runs |-> <<>>], <<Check>>, "synthetic", 1, 1)
  THEN "accepted" ELSE "rejected"

\* quality_failure: the evidence is complete, and one reviewer refuses.
DeniedReview ==
  LET common == [candidate |-> "candidate", base |-> "base", synthetic |-> "synthetic",
                 checks |-> "checks", epoch |-> 1, from |-> 1, until |-> 1]
      gate(name) == common @@ [kind |-> "gate", gate |-> name, passed |-> TRUE,
                               issuer |-> "gate_issuer"]
      review(who, domain, approved) ==
        common @@ [kind |-> "reviewer", reviewer |-> who, domain |-> domain,
                   approved |-> approved, issuer |-> "review_issuer"] IN
  [role \in Policy!ExpectedRoles |->
     CASE role = "trusted-ci-check-manifest" ->
            [kind |-> "trusted_ci", synthetic |-> "synthetic", checks |-> "checks"]
       [] role = "private-regression" -> gate("private_evaluation")
       [] role = "provenance-reconstruction" -> gate("provenance")
       [] role = "integration-soak" -> gate("integration_soak")
       [] role = "reviewer-decision-1" -> review("alice", "review", FALSE)
       [] role = "reviewer-decision-2" -> review("bob", "security", TRUE)
       [] role = "rollback-proof" ->
            common @@ [kind |-> "rollback", count |-> 0, available |-> TRUE,
                       issuer |-> "rollback_issuer"]]

QualityFailure ==
  IF Policy!Evaluate(DeniedReview, [candidate |-> "candidate", proposer |-> "author"],
                     [synthetic |-> "synthetic", checks |-> "checks"], "base")
  THEN "accepted" ELSE "rejected_quality"

\* AttesterDrillTransport._checks: one run, with one field off by the mode.
AttesterChecks(mode) ==
  [total |-> 1,
   runs |-> <<[id |-> 8001, name |-> Check[1],
               app |-> IF mode = "wrong_app" THEN 2 ELSE Check[2],
               sha |-> IF mode \in {"head_only", "wrong_sha"} THEN "head" ELSE "synthetic",
               status |-> IF mode = "incomplete" THEN "in_progress" ELSE "completed",
               conclusion |-> IF mode = "incomplete" THEN "" ELSE "success",
               at |-> IF mode = "stale" THEN 0 ELSE 1]>>]

\* _check_scenarios: only the exact check is accepted, and a provider is not
\* configured with one check twice.
CheckScenarios ==
  /\ \A mode \in {"exact", "head_only", "wrong_app", "wrong_sha", "stale", "incomplete"} :
       EvidenceSnapshot(Protection, AttesterChecks(mode), <<Check>>, "synthetic", 1, 1)
         <=> mode = "exact"
  /\ ~ValidateChecks(<<Check, Check>>)

\* ----- IntegrationDrillService.run ------------------------------------------
\* The records of the promotion of case 7, in the order promote makes them durable.
DurableKinds ==
  CASE iStages[7] = "none" -> {}
    [] iStages[7] = "leased" -> {"lease_evidence"}
    [] iStages[7] = "intended" -> {"lease_evidence", "intent"}
    [] iStages[7] = "authorized" -> {"lease_evidence", "intent", "mutation_authorization"}
    [] iStages[7] = "receipted" -> PromotionEvidenceKinds

\* _collect_promotion_evidence: the manifest of the durable promotion records, when
\* the promotion and the rollback receipt are successful ones of the same result.
CollectPromotionEvidence ==
  /\ iReceipt \in SuccessfulPromotion /\ iRollback \in SuccessfulPromotion
  /\ IntegrationDrillPromotionEvidenceManifest(
       [links |-> {[kind |-> k, record |-> k, artifact |-> k] : k \in DurableKinds},
        request |-> [failed |-> "failed", restore |-> "restore", candidateParent |-> "failed"],
        result |-> "restored"])

\* _validate_case7_promotion_evidence.
ValidateCase7 == iManifest /\ CollectPromotionEvidence

\* prepare, and a durable aggregate is returned.
Run(r) ==
  /\ At(r, "idle")
  /\ iPlan # "torn" /\ iResult # "torn"
  /\ IntegrationDrillPlan([cases |-> [c \in Cases |-> c]]) /\ iPlan' = "recorded"
  /\ IF iResult = "recorded" THEN ValidateCase7 /\ UNCHANGED iRuns ELSE Moves(r, 1)
  /\ UNCHANGED <<iCases, iResult, promotionJournal, caseSevenRecords, iValidation, iEffects,
                 iDeaths>>

\* A recorded case is not executed again; a torn one raises.
ReadCase(r) ==
  /\ At(r, "case") /\ iRuns[r].case \in Cases
  /\ LET c == iRuns[r].case IN
     IF iCases[c] = NoRecord THEN Goes(r, "execute")
     ELSE IF iCases[c] = Torn \/ (c = 7 /\ ~ValidateCase7) THEN Ends(r)
     ELSE Moves(r, c + 1)
  /\ UNCHANGED <<rootRecords, promotionJournal, caseSevenRecords, iValidation, iEffects, iDeaths>>

\* Cases 3 and 4 call a parser and a policy, and no provider.
ExecutePure(r) ==
  /\ At(r, "execute") /\ iRuns[r].case \in {3, 4}
  /\ Observes(r, DrillObservation(
       IF iRuns[r].case = 3 THEN CheckIdentityFailure ELSE QualityFailure, 0, 0))
  /\ UNCHANGED <<rootRecords, promotionJournal, caseSevenRecords, iValidation, iEffects, iDeaths>>

\* ----- promote, at the boundary of a case -----------------------------------
\* The intents of cases 1, 2, 5 and 6 are built without validation, and their
\* operation id is not the one the contract derives, so a durable one is unreadable.
Readable(c) == c = 7

\* acquire_lease: lease evidence of the operation, or an occupied lease, refuses it.
LeasedAgain(c) == iLease \in {NoRecord, c}
AcquireLease(c) == iStages[c] = "none" /\ (c = 7 \/ iLease = NoRecord)

\* The race of case 1: the runner that loses the lease fails closed.
DuplicateRunner(outcome) ==
  IF outcome = "applied" THEN "one_applied_one_fail_closed" ELSE "unexpected"

Reports(r, c, outcome, mutations, reconciles) ==
  Observes(r, DrillObservation(IF c = 1 THEN DuplicateRunner(outcome) ELSE outcome,
                               mutations, reconciles))

Promote(r) ==
  /\ At(r, "execute") /\ iRuns[r].case \in PromotionCases
  /\ LET c == iRuns[r].case IN
     IF Readable(c) /\ iStages[c] = "receipted"
     THEN Reports(r, c, iReceipt, 0, 0) /\ UNCHANGED promotionJournal
     ELSE IF Readable(c) /\ iStages[c] = "authorized"
     THEN /\ iStages' = [iStages EXCEPT ![c] = "receipted"]
          /\ iReceipt' = "already_applied"
          /\ Reports(r, c, "already_applied", 0, 1) /\ UNCHANGED iLease
     ELSE IF AcquireLease(c)
     THEN /\ iStages' = [iStages EXCEPT ![c] = "leased"]
          /\ iLease' = IF c = 7 THEN iLease ELSE c
          /\ Goes(r, "intend") /\ UNCHANGED iReceipt
     ELSE Reports(r, c, "invalid", 0, 0) /\ UNCHANGED promotionJournal
  /\ UNCHANGED <<rootRecords, caseSevenRecords, iValidation, iEffects, iDeaths>>

RecordIntent(r) ==
  /\ At(r, "intend")
  /\ iStages' = [iStages EXCEPT ![iRuns[r].case] = "intended"]
  /\ Goes(r, "merge")
  /\ UNCHANGED <<rootRecords, iReceipt, iLease, caseSevenRecords, iValidation, iEffects, iDeaths>>

\* _DrillPromotionProvider.merge makes the authorization durable before it mutates:
\* a process may die, and another one may recover the case, in between.
Authorize(r) ==
  /\ At(r, "merge")
  /\ iStages' = [iStages EXCEPT ![iRuns[r].case] = "authorized"]
  /\ Goes(r, "mutate")
  /\ UNCHANGED <<rootRecords, iReceipt, iLease, caseSevenRecords, iValidation, iEffects, iDeaths>>

\* The rest of merge: the mutation, where the case has one.
Merge(r) ==
  /\ At(r, "mutate")
  /\ iEffects' = [iEffects EXCEPT ![iRuns[r].case] =
                    @ + (IF iRuns[r].case \in {1, 5, 7} THEN 1 ELSE 0)]
  /\ Goes(r, "reconcile")
  /\ UNCHANGED <<rootRecords, promotionJournal, caseSevenRecords, iValidation, iDeaths>>

\* The injected fault of a case, as _classify sees it: the answer of merge and the
\* reconciliation of _DrillPromotionProvider.
Classified(c) ==
  CASE c \in {1, 7} -> "applied"
    [] c = 2 -> "stale_base"
    [] c = 5 -> "already_applied"
    [] c = 6 -> "reconciliation_required"

\* The receipt is create-once, so a recovery that was quicker leaves this caller
\* without one; the lease stays held where the outcome is not settled.
Reconcile(r) ==
  /\ At(r, "reconcile")
  /\ LET c == iRuns[r].case
         mutations == IF c \in {1, 5, 7} THEN 1 ELSE 0
         beaten == c = 7 /\ iReceipt \notin {NoRecord, "applied"} IN
     /\ iStages' = [iStages EXCEPT ![c] = "receipted"]
     /\ iReceipt' = IF c = 7 /\ ~beaten THEN "applied" ELSE iReceipt
     /\ iLease' = IF c = 7 \/ Classified(c) = "reconciliation_required" THEN iLease ELSE NoRecord
     /\ Reports(r, c, IF beaten THEN "reconciliation_required" ELSE Classified(c), mutations, 1)
  /\ UNCHANGED <<rootRecords, caseSevenRecords, iValidation, iEffects, iDeaths>>

\* ----- the record of a case -------------------------------------------------
ExpectedOutcome(c) ==
  CASE c = 1 -> "one_applied_one_fail_closed"
    [] c = 2 -> "stale_base"
    [] c = 3 -> "rejected"
    [] c = 4 -> "rejected_quality"
    [] c = 5 -> "already_applied"
    [] c = 6 -> "reconciliation_required"

\* _validate_observation: the typed outcome, one mutation where the case has one,
\* one reconciliation where it calls a provider.
ValidateObservation(c, seen) ==
  /\ seen.mutations = (IF c \in {1, 5} THEN 1 ELSE 0)
  /\ seen.outcome = ExpectedOutcome(c)
  /\ seen.reconciles = (IF c \in {3, 4} THEN 0 ELSE 1)

\* _case_record, and _validate_case_result of what it makes.
CaseRecord(c, seen) ==
  [case |-> c, operation |-> "drill", evidence |-> {"observation"},
   outcome |-> IF seen.outcome \in {"one_applied_one_fail_closed", "already_applied"}
               THEN "passed" ELSE "rejected"]

ValidateCaseResult(case) ==
  case.outcome \in
    CASE case.case \in {1, 5, 8} -> {"passed"}
      [] case.case \in {2, 3, 4, 6} -> {"rejected"}
      [] case.case = 7 -> SuccessfulPromotion \cup {"reconciliation_required"}

\* _record is create-once.
RecordCaseResult(r, case) ==
  IF ~ValidateCaseResult(case) \/ iCases[case.case] \notin {NoRecord, case}
  THEN Ends(r) /\ UNCHANGED iCases
  ELSE iCases' = [iCases EXCEPT ![case.case] = case] /\ Moves(r, case.case + 1)

RecordCase(r) ==
  /\ At(r, "observed") /\ iRuns[r].case <= 6
  /\ LET c == iRuns[r].case IN
     IF ValidateObservation(c, iRuns[r].seen)
     THEN RecordCaseResult(r, CaseRecord(c, iRuns[r].seen))
     ELSE Ends(r) /\ UNCHANGED iCases
  /\ UNCHANGED <<iPlan, iResult, promotionJournal, caseSevenRecords, iValidation, iEffects,
                 iDeaths>>

\* ----- case 7: the rollback of the failed head ------------------------------
\* _make_receipt of what promote reports.
RollbackOutcome(outcome) ==
  IF outcome \in SuccessfulPromotion \cup {"reconciliation_required"} THEN outcome ELSE "rejected"

\* IntegrationDrillRollbackService.run: a durable receipt is replayed or contradicts
\* this one; an unsettled outcome is not recorded, and leaves the drill incomplete.
RecordRollback(r) ==
  /\ At(r, "observed") /\ iRuns[r].case = 7
  /\ LET outcome == RollbackOutcome(iRuns[r].seen.outcome) IN
     IF outcome = "reconciliation_required" \/ iRollback \notin {NoRecord, outcome}
     THEN Ends(r) /\ UNCHANGED iRollback
     ELSE iRollback' = outcome /\ Goes(r, "manifest")
  /\ UNCHANGED <<rootRecords, promotionJournal, iManifest, iValidation, iEffects, iDeaths>>

\* _record_promotion_evidence.
RecordManifest(r) ==
  /\ At(r, "manifest")
  /\ IF CollectPromotionEvidence
     THEN iManifest' = TRUE /\ Goes(r, "rolled_back")
     ELSE Ends(r) /\ UNCHANGED iManifest
  /\ UNCHANGED <<rootRecords, promotionJournal, iRollback, iValidation, iEffects, iDeaths>>

RecordCase7(r) ==
  /\ At(r, "rolled_back")
  /\ RecordCaseResult(r, [case |-> 7, operation |-> "drill", outcome |-> iRollback,
                          evidence |-> {"observation", "promotion", "manifest"}])
  /\ UNCHANGED <<iPlan, iResult, promotionJournal, caseSevenRecords, iValidation, iEffects,
                 iDeaths>>

\* ----- case 8: the attester -------------------------------------------------
\* trigger: the ref lives in the transport of this process, so only the run that
\* claims the create sees one create call.
Trigger(r) ==
  /\ At(r, "execute") /\ iRuns[r].case = 8
  /\ IF iValidation = "none"
     THEN iValidation' = "claimed" /\ Goes(r, "create")
     ELSE Ends(r) /\ UNCHANGED iValidation
  /\ UNCHANGED <<rootRecords, promotionJournal, caseSevenRecords, iEffects, iDeaths>>

CreateRef(r) ==
  /\ At(r, "create")
  /\ iEffects' = [iEffects EXCEPT ![8] = @ + 1]
  /\ iValidation' = "created"
  /\ Goes(r, "attested")
  /\ UNCHANGED <<rootRecords, promotionJournal, caseSevenRecords, iDeaths>>

RecordCase8(r) ==
  /\ At(r, "attested")
  /\ IF CheckScenarios
     THEN RecordCaseResult(r, [case |-> 8, operation |-> "drill", outcome |-> "passed",
                               evidence |-> {"attestation"}])
     ELSE Ends(r) /\ UNCHANGED iCases
  /\ UNCHANGED <<iPlan, iResult, promotionJournal, caseSevenRecords, iValidation, iEffects,
                 iDeaths>>

\* ----- the aggregate --------------------------------------------------------
Aggregate ==
  [operation |-> "drill", cases |-> {iCases[c] : c \in Cases}, mainBefore |-> "main",
   mainAfter |-> "main"]

RecordResult(r) ==
  /\ At(r, "case") /\ iRuns[r].case = 9
  /\ iResult' = IF iResult = "none" /\ IntegrationDrillResult(Aggregate) THEN "recorded"
                ELSE iResult
  /\ Ends(r)
  /\ UNCHANGED <<iPlan, iCases, promotionJournal, caseSevenRecords, iValidation, iEffects,
                 iDeaths>>

\* A process dies; one that was recording may leave its index empty.
Die(r) ==
  /\ iDeaths < MaxDrillDeaths /\ iDeaths' = iDeaths + 1
  /\ Ends(r)
  /\ LET c == iRuns[r].case
         recording == c \in Cases /\ iRuns[r].step \in {"observed", "rolled_back", "attested"} IN
     \/ ~At(r, "idle") /\ UNCHANGED rootRecords
     \/ /\ recording /\ iCases[c] = NoRecord
        /\ iCases' = [iCases EXCEPT ![c] = Torn] /\ UNCHANGED <<iPlan, iResult>>
     \/ c = 9 /\ iResult = "none" /\ iResult' = "torn" /\ UNCHANGED <<iPlan, iCases>>
     \/ At(r, "idle") /\ iPlan = "none" /\ iPlan' = "torn" /\ UNCHANGED <<iCases, iResult>>
  /\ UNCHANGED <<promotionJournal, caseSevenRecords, iValidation, iEffects>>

DrillsInit ==
  /\ iPlan = "none" /\ iResult = "none"
  /\ iCases = [c \in Cases |-> NoRecord]
  /\ iStages = [c \in PromotionCases |-> "none"]
  /\ iReceipt = NoRecord /\ iLease = NoRecord
  /\ iRollback = NoRecord /\ iManifest = FALSE
  /\ iValidation = "none"
  /\ iEffects = [c \in Cases |-> 0]
  /\ iRuns = [r \in DrillRunners |-> DrillIdle]
  /\ iDeaths = 0

DrillsNext ==
  \E r \in DrillRunners :
    \/ Run(r) \/ ReadCase(r) \/ ExecutePure(r)
    \/ Promote(r) \/ RecordIntent(r) \/ Authorize(r) \/ Merge(r) \/ Reconcile(r)
    \/ RecordCase(r) \/ RecordRollback(r) \/ RecordManifest(r) \/ RecordCase7(r)
    \/ Trigger(r) \/ CreateRef(r) \/ RecordCase8(r)
    \/ RecordResult(r) \/ Die(r)

DrillsSpec == DrillsInit /\ [][DrillsNext]_drillVars

\* ----- properties -----------------------------------------------------------
\* Types: the journals, the lease and the counts of the drill.
DrillsTypeOK ==
  /\ iPlan \in {"none", "torn", "recorded"} /\ iResult \in {"none", "torn", "recorded"}
  /\ \A c \in Cases : iCases[c] \in {NoRecord, Torn} \/ IntegrationDrillCaseResult(iCases[c])
  /\ \A c \in PromotionCases :
       iStages[c] \in {"none", "leased", "intended", "authorized", "receipted"}
  /\ iReceipt \in {NoRecord} \cup SuccessfulPromotion
  /\ iLease \in {NoRecord, 1, 2, 5, 6}
  /\ iRollback \in {NoRecord, "applied", "already_applied", "rejected"}
  /\ iManifest \in BOOLEAN /\ iValidation \in {"none", "claimed", "created"}
  /\ \A c \in Cases : iEffects[c] \in Nat

Recorded(c) == iCases[c] \notin {NoRecord, Torn}

\* Over any number of runs, deaths and restarts (run, promote, acquire_lease), the
\* providers of a case receive at most one mutation; cases 1, 5 and 8 are durable only
\* with the effect they are about and cases 2, 3, 4 and 6 only without one; and the
\* aggregate is durable only over eight cases with the evidence of case 7.  Case 7 is
\* durable with an "applied" rollback only after its mutation; recovered from a durable
\* authorization as "already_applied", it may be recorded before the mutation, or
\* without one where the process died between the two (_DrillPromotionProvider.merge).
DrillEffectsOnce ==
  /\ \A c \in Cases : iEffects[c] <= 1
  /\ \A c \in Cases \ {7} :
       Recorded(c) => iEffects[c] = (IF c \in {1, 5, 8} THEN 1 ELSE 0)
  /\ Recorded(7) => /\ ValidateCase7 /\ iCases[7].outcome = iRollback
                    /\ iRollback = "applied" => iEffects[7] = 1
  /\ iResult = "recorded" => \A c \in Cases : Recorded(c)
=============================================================================
