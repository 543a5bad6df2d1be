---------------------------- MODULE LiveRollback ----------------------------
(***************************************************************************)
(* The authorized rollback of a failed integration head, from validation   *)
(* to the completion package: integration_rollback_service.py within       *)
(* integration_live_rollback_service.py within                             *)
(* integration_live_rollback_completion_service.py, with their journals.   *)
(*                                                                         *)
(* Several processes run the same request.  The protected promotion and    *)
(* the synthetic validation are modelled by what they promise their        *)
(* callers (IntegrationPromotion and SyntheticValidation model them in     *)
(* full).  An index is created empty and then written, so a process that   *)
(* dies while it records one may leave it torn, and every later read of a  *)
(* torn index raises.                                                      *)
(***************************************************************************)
EXTENDS RollbackContracts

CONSTANTS
  Operators,       \* processes
  MaxFaults        \* bound on deaths and transport errors

VARIABLES
  lMain,           \* head of main: "before" or "moved"
  lHead,           \* head of integration
  lWire,           \* the merge request: "none", "sent", "landed", "refused"
  lSends,          \* merge requests sent
  lStage,          \* the promotion's records: "none", "intended", "authorized"
  lPromotion,      \* the promotion receipt
  lValidation,     \* the durable outcome of the synthetic validation
  lRefGone,        \* the validation ref was cleaned up
  lOpened,         \* the soak observation, the authorization and the intent
  lReceipt,        \* the rollback receipt
  lCase,           \* the case-7 result
  lPackage,        \* the live rollback package
  lCompletion,     \* the completion package
  lTorn,           \* indexes that were created and not written
  lRuns,           \* process -> the run in progress
  lFaults

liveRollbackVars ==
  <<lMain, lHead, lWire, lSends, lStage, lPromotion, lValidation, lRefGone, lOpened, lReceipt,
    lCase, lPackage, lCompletion, lTorn, lRuns, lFaults>>

hosted == <<lMain, lHead, lWire, lSends>>
promotionRecords == <<lStage, lPromotion>>
validationRecords == <<lValidation, lRefGone>>
rollbackRecords == <<lOpened, lReceipt, lCase>>
packages == <<lPackage, lCompletion>>

RollbackIdle ==
  [step |-> "idle", inputs |-> NoRecord, completed |-> NoRecord, report |-> NoRecord,
   receipt |-> NoRecord, package |-> NoRecord]

At(r, step) == lRuns[r].step = step
Goes(r, step) == lRuns' = [lRuns EXCEPT ![r].step = step]
\* The run returns, or raises: the next run starts from the journals either way.
Ends(r) == lRuns' = [lRuns EXCEPT ![r] = RollbackIdle]

\* ----- the request and what is supplied with it -----------------------------
Request ==
  [failed |-> "failed", restore |-> "restore", candidate |-> "candidate",
   candidateParent |-> "failed"]

Canary == [outcome |-> "applied", result |-> "failed"]

Inputs ==
  LET plan == [base |-> "failed", candidate |-> "candidate"]
      other == [base |-> "restore", candidate |-> "failed"]
      check == [status |-> "completed", conclusion |-> "success"] IN
  {[plan |-> plan, outcome |-> [plan |-> plan, outcome |-> "verified"],
    evidence |-> [plan |-> p], manifest |-> [cutoff |-> 0, observed |-> 1, checks |-> {check}],
    workflow |-> [blob |-> "blob", variables |-> "blob"]] : p \in {plan, other}}

\* DeterministicFailedIntegrationSoak.observe, the supplied authorization and
\* _make_intent: the same records for every process.
Soak ==
  [mainBefore |-> "before", mainAfter |-> "before", outcome |-> "failed", parents |-> {},
   head |-> Request.failed]

Authorization ==
  [mainBefore |-> "before", mainAfter |-> "before", request |-> Request, head |-> Request.failed]

MakeIntent ==
  [mainBefore |-> "before", mainAfter |-> "before", request |-> Request, head |-> Request.failed,
   authorization |-> Authorization]

Opened == [soak |-> Soak, authorization |-> Authorization, intent |-> MakeIntent]

RequestValid ==
  /\ Request.candidateParent = Request.failed
  /\ Request.candidate \notin {Request.failed, Request.restore}

AuthorizationValid ==
  Authorization.request = Request /\ Authorization.head = Request.failed

PublicationValid ==
  /\ RollbackParent[Request.candidate] = Request.failed
  /\ RollbackTree[Request.candidate] = RollbackTree[Request.restore]

SoakValid(soak) ==
  soak.outcome = "failed" /\ soak.head = Request.failed /\ soak.parents = {}

\* _validate_canary.
CanaryValid ==
  /\ Canary.outcome \in SuccessfulPromotion
  /\ Canary.result = Request.failed
  /\ RollbackParent[Canary.result] = Request.restore

AssertMain == lMain = "before"

\* read_package of the two package journals raises on a torn index.
PackageReadable == "package" \notin lTorn
CompletionReadable == "completion" \notin lTorn

\* _validate_target_observation: the head is the result, on the failed head.
TargetExact(result) == lHead = result /\ RollbackParent[lHead] = Request.failed

\* ----- LiveRollbackCompletionService.run up to the core ---------------------
Run(r, inputs) ==
  /\ At(r, "idle")
  /\ LET goes(step) ==
           lRuns' = [lRuns EXCEPT ![r] = [RollbackIdle EXCEPT !.step = step,
                                            !.inputs = inputs, !.completed = lCompletion]] IN
     IF ~PackageReadable \/ ~CompletionReadable THEN Ends(r)
     ELSE IF lValidation = "exact" THEN goes("live")
     ELSE IF lValidation = NoRecord /\ lPackage = NoRecord THEN goes("trigger")
     ELSE Ends(r)
  /\ UNCHANGED <<hosted, promotionRecords, validationRecords, rollbackRecords, packages, lTorn,
                 lFaults>>

\* SyntheticValidationService.trigger: the durable outcome, a new one, or an
\* uncertainty that is not an outcome.
TriggerValidation(r) ==
  /\ At(r, "trigger")
  /\ \E outcome \in IF lValidation # NoRecord THEN {lValidation} ELSE {"exact", "wrong", NoRecord} :
       /\ lValidation' = outcome
       /\ IF outcome = "exact" THEN Goes(r, "live") ELSE Ends(r)
  /\ UNCHANGED <<hosted, promotionRecords, lRefGone, rollbackRecords, packages, lTorn, lFaults>>

\* ----- LiveIntegrationRollbackService.run -----------------------------------
\* A durable package is replayed behind the read-only fences.
RunLive(r) ==
  /\ At(r, "live")
  /\ IF ~CanaryValid \/ ~AssertMain \/ ~PackageReadable THEN Ends(r)
     ELSE IF lPackage = NoRecord THEN Goes(r, "rollback")
     ELSE IF ~RequestValid \/ ~AuthorizationValid \/ ~TargetExact(lPackage.receipt.head) THEN Ends(r)
     ELSE lRuns' = [lRuns EXCEPT ![r].step = "core", ![r].package = lPackage]
  /\ UNCHANGED <<hosted, promotionRecords, validationRecords, rollbackRecords, packages, lTorn,
                 lFaults>>

\* ----- IntegrationDrillRollbackService.run ----------------------------------
CaseOf(receipt) ==
  [case |-> 7, evidence |-> {"soak", "authorization", "intent", "receipt"},
   outcome |-> IF receipt.outcome \in SuccessfulPromotion THEN receipt.outcome ELSE "rejected"]

\* _replay: the four records are durable and bound to the request and the case.
Replays(r) ==
  IF lOpened = Opened /\ lReceipt # NoRecord /\ lCase = CaseOf(lReceipt)
  THEN lRuns' = [lRuns EXCEPT ![r].step = "returned", ![r].report = "replayed",
                              ![r].receipt = lReceipt]
  ELSE Ends(r)

\* A durable case is replayed; otherwise the soak, the authorization and the
\* intent, which are the same for every process, are recorded.
RunRollback(r) ==
  /\ At(r, "rollback")
  /\ IF ~RequestValid \/ ~AssertMain \/ ~AuthorizationValid \/ ~PublicationValid
        \/ ~SoakValid(Soak) \/ "case" \in lTorn
     THEN Ends(r) /\ UNCHANGED lOpened
     ELSE IF lCase # NoRecord
     THEN Replays(r) /\ UNCHANGED lOpened
     ELSE lOpened' = Opened /\ Goes(r, "promote")
  /\ UNCHANGED <<hosted, promotionRecords, validationRecords, lReceipt, lCase, packages, lTorn,
                 lFaults>>

Reports(r, outcome) ==
  lRuns' = [lRuns EXCEPT ![r].step = "receipt", ![r].report = outcome]

PromotionReceipt(outcome) ==
  [outcome |-> outcome, lease |-> "lease", intent |-> [lease |-> "lease"],
   result |-> IF outcome \in SuccessfulPromotion THEN "restored" ELSE NoRecord]

\* reconcile raises on a merged target whose head is not the merge.
ReconcileRaises == lWire = "landed" /\ lHead # "restored"

\* IntegrationPromotionService.promote: the durable receipt; else an authorized
\* intent is only reconciled; else, behind the lease, the intent is recorded.
Promote(r) ==
  /\ At(r, "promote")
  /\ IF lPromotion # NoRecord
     THEN Reports(r, lPromotion.outcome) /\ UNCHANGED promotionRecords
     ELSE IF lStage = "authorized"
     THEN IF ReconcileRaises THEN Reports(r, "invalid") /\ UNCHANGED promotionRecords
          ELSE IF lWire = "landed"
          THEN /\ lPromotion' = PromotionReceipt("already_applied")
               /\ Reports(r, "already_applied") /\ UNCHANGED lStage
          ELSE Reports(r, "reconciliation_required") /\ UNCHANGED promotionRecords
     ELSE IF lStage = "intended" THEN Reports(r, "invalid") /\ UNCHANGED promotionRecords
     ELSE IF lHead # "failed" THEN Reports(r, "stale_base") /\ UNCHANGED promotionRecords
     ELSE lStage' = "intended" /\ Goes(r, "merge") /\ UNCHANGED lPromotion
  /\ UNCHANGED <<hosted, validationRecords, rollbackRecords, packages, lTorn, lFaults>>

\* Before a mutation of its own, any error of the journal, of the verifier or of
\* the provider is reported "invalid".
PromoteFails(r) ==
  /\ At(r, "promote") /\ lFaults < MaxFaults
  /\ lFaults' = lFaults + 1
  /\ Reports(r, "invalid")
  /\ UNCHANGED <<hosted, promotionRecords, validationRecords, rollbackRecords, packages, lTorn>>

\* The final precondition fails, or the mutation is authorized and submitted.
Merge(r) ==
  /\ At(r, "merge")
  /\ \/ /\ lPromotion' = PromotionReceipt("invalid") /\ Reports(r, "invalid")
        /\ UNCHANGED <<lStage, lWire, lSends>>
     \/ /\ lStage' = "authorized" /\ lWire' = "sent" /\ lSends' = lSends + 1
        /\ Goes(r, "answer") /\ UNCHANGED lPromotion
  /\ UNCHANGED <<lMain, lHead, validationRecords, rollbackRecords, packages, lTorn, lFaults>>

MergeLands ==
  /\ lWire = "sent"
  /\ \/ lHead = "failed" /\ lHead' = "restored" /\ lWire' = "landed"
     \/ lWire' = "refused" /\ UNCHANGED lHead
  /\ UNCHANGED <<lMain, lSends, promotionRecords, validationRecords, rollbackRecords, packages,
                 lTorn, lRuns, lFaults>>

\* _classify of the answer, which may be lost, and of one reconciliation.
Classified ==
  CASE lWire = "landed" -> {"applied", "already_applied"}
    [] lWire = "refused" ->
         {IF lHead = "failed" THEN "not_applicable" ELSE "stale_base", "reconciliation_required"}
    [] OTHER -> {"reconciliation_required"}

\* An error after the mutation, of the reconciliation or of the create-once receipt
\* lost to a recovery, is reported "reconciliation_required".
Answered(r) ==
  /\ At(r, "answer")
  /\ \E outcome \in Classified :
       IF ~ReconcileRaises /\ lPromotion \in {NoRecord, PromotionReceipt(outcome)}
       THEN lPromotion' = PromotionReceipt(outcome) /\ Reports(r, outcome)
       ELSE Reports(r, "reconciliation_required") /\ UNCHANGED lPromotion
  /\ UNCHANGED <<hosted, lStage, validationRecords, rollbackRecords, packages, lTorn, lFaults>>

\* _make_receipt.
MakeReceipt(report) ==
  LET landed == lPromotion # NoRecord /\ lPromotion.outcome \in SuccessfulPromotion
      outcome ==
        CASE report \in SuccessfulPromotion /\ ~landed -> "reconciliation_required"
          [] report \in SuccessfulPromotion /\ landed -> report
          [] report = "reconciliation_required" -> "reconciliation_required"
          [] report = "stale_base" -> "stale_target"
          [] OTHER -> "rejected" IN
  [outcome |-> outcome, request |-> Request,
   head |-> IF outcome \in SuccessfulPromotion THEN lPromotion.result ELSE Request.failed]

\* _validate_promotion_intent.
PromotionIntentValid == lStage # "none"

ReceiptReplaced(receipt) == TRUE

\* record_rollback_receipt is create-once.
ReceiptAccepted(receipt) == "receipt" \notin lTorn /\ lReceipt \in {NoRecord, receipt}

\* The receipt and then the case are recorded unless reconciliation is required.
RecordReceipt(r) ==
  /\ At(r, "receipt")
  /\ LET receipt == MakeReceipt(lRuns[r].report) IN
     IF ~AssertMain THEN Ends(r) /\ UNCHANGED lReceipt
     ELSE IF lRuns[r].report \in SuccessfulPromotion /\ ~PromotionIntentValid
     THEN Ends(r) /\ UNCHANGED lReceipt
     ELSE IF receipt.outcome = "reconciliation_required"
     THEN Ends(r) /\ UNCHANGED lReceipt
     ELSE IF ~ReceiptAccepted(receipt)
     THEN Ends(r) /\ UNCHANGED lReceipt
     ELSE /\ lReceipt' = receipt
          /\ lRuns' = [lRuns EXCEPT ![r].step = "case", ![r].receipt = receipt]
  /\ UNCHANGED <<hosted, promotionRecords, validationRecords, lOpened, lCase, packages, lTorn,
                 lFaults>>

RecordCase(r) ==
  /\ At(r, "case")
  /\ IF "case" \in lTorn \/ lCase \notin {NoRecord, CaseOf(lRuns[r].receipt)}
     THEN Ends(r) /\ UNCHANGED lCase
     ELSE lCase' = CaseOf(lRuns[r].receipt) /\ Goes(r, "returned")
  /\ UNCHANGED <<hosted, promotionRecords, validationRecords, lOpened, lReceipt, packages, lTorn,
                 lFaults>>

\* ----- LiveIntegrationRollbackService: the package ---------------------------
\* A replayed report has no digests and is rebuilt from the promotion receipt.
ReportOf(r) ==
  IF lRuns[r].report = "replayed"
  THEN [outcome |-> lPromotion.outcome, checks |-> "case_7_recovery"]
  ELSE [outcome |-> lRuns[r].report, checks |-> "promotion"]

\* The promotion's four records and the case are durable.
EvidenceComplete == lStage = "authorized" /\ lPromotion # NoRecord /\ lCase # NoRecord

PackageOf(r) ==
  [request |-> Request, canary |-> Canary, soak |-> lOpened.soak,
   authorization |-> lOpened.authorization, intent |-> lOpened.intent,
   receipt |-> lRuns[r].receipt, case |-> lCase, promotion |-> lPromotion,
   report |-> ReportOf(r), mainBefore |-> "before", mainAfter |-> lMain, artifacts |-> LiveRollbackRoles]

Returned(r) ==
  /\ At(r, "returned")
  /\ IF ~AssertMain THEN Ends(r)
     ELSE IF lRuns[r].receipt.outcome \notin SuccessfulPromotion
     THEN Ends(r)
     ELSE IF ~TargetExact(lRuns[r].receipt.head) \/ ~EvidenceComplete
     THEN Ends(r)
     ELSE IF ~LiveRollbackEvidencePackage(PackageOf(r)) THEN Ends(r)
     ELSE lRuns' = [lRuns EXCEPT ![r].step = "package", ![r].package = PackageOf(r)]
  /\ UNCHANGED <<hosted, promotionRecords, validationRecords, rollbackRecords, packages, lTorn,
                 lFaults>>

RecheckPackage(r) ==
  /\ At(r, "package")
  /\ IF TargetExact(lRuns[r].receipt.head) /\ AssertMain THEN Goes(r, "index") ELSE Ends(r)
  /\ UNCHANGED <<hosted, promotionRecords, validationRecords, rollbackRecords, packages, lTorn,
                 lFaults>>

\* LiveRollbackJournal.record_package.
RecordPackage(r) ==
  /\ At(r, "index")
  /\ IF ~PackageReadable \/ lPackage \notin {NoRecord, lRuns[r].package}
     THEN Ends(r) /\ UNCHANGED lPackage
     ELSE lPackage' = lRuns[r].package /\ Goes(r, "core")
  /\ UNCHANGED <<hosted, promotionRecords, validationRecords, rollbackRecords, lCompletion, lTorn,
                 lFaults>>

\* ----- LiveRollbackCompletionService.run after the core ----------------------
\* A completion read at the start is replayed; otherwise the provider is
\* reconciled and _validate_final_state fences the cleanup.
FinalState == lHead = "restored" /\ AssertMain

Core(r) ==
  /\ At(r, "core")
  /\ IF ~FinalState THEN Ends(r)
     ELSE IF lRuns[r].completed = NoRecord THEN Goes(r, "cleanup") ELSE Ends(r)
  /\ UNCHANGED <<hosted, promotionRecords, validationRecords, rollbackRecords, packages, lTorn,
                 lFaults>>

\* LiveRollbackCoreJournalCompletionProofVerifier.verify.
ProofVerified(package) == PackageReadable /\ lPackage = package

\* SyntheticValidationService.cleanup, with a proof of the core package.
CleanupValidation(r) ==
  /\ At(r, "cleanup")
  /\ \/ /\ ProofVerified(lRuns[r].package)
        /\ lRefGone' = TRUE /\ Goes(r, "complete")
     \/ Ends(r) /\ UNCHANGED lRefGone
  /\ UNCHANGED <<hosted, promotionRecords, lValidation, rollbackRecords, packages, lTorn, lFaults>>

CompletionOf(r) ==
  [core |-> lRuns[r].package, inputs |-> lRuns[r].inputs, reconciliation |-> "restored",
   validation |-> "created", proof |-> lRuns[r].package, cleanup |-> "cleaned",
   artifacts |-> CompletionRoles]

Complete(r) ==
  /\ At(r, "complete")
  /\ IF FinalState /\ LiveRollbackCompletionPackage(CompletionOf(r))
     THEN Goes(r, "record") ELSE Ends(r)
  /\ UNCHANGED <<hosted, promotionRecords, validationRecords, rollbackRecords, packages, lTorn,
                 lFaults>>

\* Every child the package names is installed before its index.
MaterializeChildren(package) == package.artifacts = CompletionRoles

\* LiveRollbackCompletionJournal.record_package.
RecordCompletion(r) ==
  /\ At(r, "record")
  /\ IF ~CompletionReadable \/ ~MaterializeChildren(CompletionOf(r))
        \/ lCompletion \notin {NoRecord, CompletionOf(r)}
     THEN Ends(r) /\ UNCHANGED lCompletion
     ELSE lCompletion' = CompletionOf(r) /\ Ends(r)
  /\ UNCHANGED <<hosted, promotionRecords, validationRecords, rollbackRecords, lPackage, lTorn,
                 lFaults>>

\* ----- the world ------------------------------------------------------------
IndexWrittenAt ==
  [receipt |-> {"receipt"}, case |-> {"case"}, index |-> {"package"}, record |-> {"completion"}]

Absent ==
  {i \in {"receipt", "case", "package", "completion"} :
     NoRecord = CASE i = "receipt" -> lReceipt [] i = "case" -> lCase
                  [] i = "package" -> lPackage [] i = "completion" -> lCompletion}

Die(r) ==
  /\ ~At(r, "idle") /\ lFaults < MaxFaults
  /\ lFaults' = lFaults + 1
  /\ Ends(r)
  /\ \/ UNCHANGED lTorn
     \/ /\ lRuns[r].step \in DOMAIN IndexWrittenAt
        /\ lTorn' = lTorn \cup (IndexWrittenAt[lRuns[r].step] \cap Absent)
  /\ UNCHANGED <<hosted, promotionRecords, validationRecords, rollbackRecords, packages>>

HeadsMove ==
  /\ \/ lMain = "before" /\ lMain' = "moved" /\ UNCHANGED lHead
     \/ lHead # "later" /\ lHead' = "later" /\ UNCHANGED lMain
  /\ UNCHANGED <<lWire, lSends, promotionRecords, validationRecords, rollbackRecords, packages,
                 lTorn, lRuns, lFaults>>

LiveRollbackInit ==
  /\ lMain = "before" /\ lHead = "failed" /\ lWire = "none" /\ lSends = 0
  /\ lStage = "none" /\ lPromotion = NoRecord
  /\ lValidation = NoRecord /\ lRefGone = FALSE
  /\ lOpened = NoRecord /\ lReceipt = NoRecord /\ lCase = NoRecord
  /\ lPackage = NoRecord /\ lCompletion = NoRecord /\ lTorn = {}
  /\ lRuns = [r \in Operators |-> RollbackIdle]
  /\ lFaults = 0

LiveRollbackNext ==
  \/ \E r \in Operators :
       \/ \E inputs \in Inputs : Run(r, inputs)
       \/ TriggerValidation(r) \/ RunLive(r) \/ RunRollback(r)
       \/ Promote(r) \/ PromoteFails(r) \/ Merge(r) \/ Answered(r)
       \/ RecordReceipt(r) \/ RecordCase(r)
       \/ Returned(r) \/ RecheckPackage(r) \/ RecordPackage(r)
       \/ Core(r) \/ CleanupValidation(r) \/ Complete(r) \/ RecordCompletion(r)
       \/ Die(r)
  \/ MergeLands \/ HeadsMove

LiveRollbackSpec == LiveRollbackInit /\ [][LiveRollbackNext]_liveRollbackVars

\* ----- properties -----------------------------------------------------------
\* The journals of a live rollback hold records of their contracts.
LiveRollbackTypeOK ==
  /\ lHead \in RollbackCommits
  /\ lReceipt # NoRecord => IntegrationDrillRollbackReceipt(lReceipt)
  /\ lCase # NoRecord => IntegrationDrillCaseResult(lCase)
  /\ lPackage # NoRecord => LiveRollbackEvidencePackage(lPackage)
  /\ lCompletion # NoRecord => LiveRollbackCompletionPackage(lCompletion)

\* However runs interleave, die and are retried, the merge request is sent once,
\* and each record rests on the one before it: a successful receipt on a merge
\* that landed, a package on the case of that receipt, the deletion of the
\* validation ref on the package, the completion on both (run, cleanup).
RollbackEvidenceChain ==
  /\ lSends <= 1
  /\ lReceipt # NoRecord /\ lReceipt.outcome \in SuccessfulPromotion => lWire = "landed"
  /\ lCase # NoRecord => lReceipt # NoRecord /\ lCase = CaseOf(lReceipt)
  /\ lPackage # NoRecord =>
       /\ lCase # NoRecord /\ lPackage.receipt = lReceipt
       /\ lReceipt.outcome \in SuccessfulPromotion
  /\ lRefGone => lPackage # NoRecord
  /\ lCompletion # NoRecord => lRefGone /\ lCompletion.core = lPackage
=============================================================================
