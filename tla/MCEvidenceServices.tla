------------------------ MODULE MCEvidenceServices ------------------------
(* The services whose product is evidence, for TLC: the graduation ledger, the
   offline graduation drill, the synthetic validation, the live rollback, the eight
   integration drills and the dry-run controller.  They share no state, so live says
   which of them a behaviour is about; the others take no part. *)
EXTENDS OfflineDrill, TLC

CONSTANTS
  Identities, Contents, Threshold, FreshnessWindow, Watermarks, Verdicts,
  Outcomes, MaxSequence, MaxNow,
  MaxDeaths, MaxFaults, MaxDrillDeaths, Drills, MaxMoves, MaxStops

VARIABLES
  live,
  now, ledger, calls, cache,
  vRef, vSeeded, vMoved, vWire, vCreates, vPlan, vClaim, vAttempt, vOutcome, vProof,
  vCleanup, vCalls, vAnswer, vDeaths,
  lMain, lHead, lWire, lSends, lStage, lPromotion, lValidation, lRefGone, lOpened,
  lReceipt, lCase, lPackage, lCompletion, lTorn, lRuns, lFaults,
  iPlan, iCases, iResult, iStages, iReceipt, iLease, iRollback, iManifest, iValidation,
  iEffects, iRuns, iDeaths,
  pInput, pHead, pVerified, pStore, pAuthority, pRuns, pStops

ControllerAuthority == [root |-> "controller", from |-> 0, until |-> 1]

Ledger == INSTANCE GraduationLedger WITH
  Services <- Runners, Authority <- ControllerAuthority
Validation == INSTANCE SyntheticValidation WITH Triggers <- Runners
Rollback == INSTANCE LiveRollback WITH Operators <- Runners
Integration == INSTANCE IntegrationDrills WITH DrillRunners <- Runners
DryRun == INSTANCE DryRunPromotion WITH Processes <- Runners

ledgerVars == <<now, ledger, calls, cache>>
validationVars == <<vRef, vSeeded, vMoved, vWire, vCreates, vPlan, vClaim, vAttempt, vOutcome,
                    vProof, vCleanup, vCalls, vAnswer, vDeaths>>
rollbackVars == <<lMain, lHead, lWire, lSends, lStage, lPromotion, lValidation, lRefGone,
                  lOpened, lReceipt, lCase, lPackage, lCompletion, lTorn, lRuns, lFaults>>
integrationVars == <<iPlan, iCases, iResult, iStages, iReceipt, iLease, iRollback, iManifest,
                     iValidation, iEffects, iRuns, iDeaths>>
dryRunVars == <<pInput, pHead, pVerified, pStore, pAuthority, pRuns, pStops>>

NoLedger == now = 0 /\ ledger = NoRecord /\ calls = NoRecord /\ cache = NoRecord

NoDrill ==
  /\ drillNow = 0 /\ worktree = NoRecord /\ root = NoRecord /\ index = {} /\ torn = {}
  /\ runner = NoRecord /\ cached = NoRecord /\ ran = NoRecord /\ prepared = {}
  /\ replayed = {}

NoValidation ==
  /\ vRef = NoRecord /\ vSeeded = FALSE /\ vMoved = "none" /\ vWire = "none" /\ vCreates = 0
  /\ vPlan = NoRecord /\ vClaim = "none" /\ vAttempt = NoRecord /\ vOutcome = NoRecord
  /\ vProof = NoRecord /\ vCleanup = NoRecord /\ vCalls = NoRecord /\ vAnswer = NoRecord
  /\ vDeaths = 0

NoRollback ==
  /\ lMain = NoRecord /\ lHead = NoRecord /\ lWire = "none" /\ lSends = 0 /\ lStage = "none"
  /\ lPromotion = NoRecord /\ lValidation = NoRecord /\ lRefGone = FALSE /\ lOpened = NoRecord
  /\ lReceipt = NoRecord /\ lCase = NoRecord /\ lPackage = NoRecord /\ lCompletion = NoRecord
  /\ lTorn = {} /\ lRuns = NoRecord /\ lFaults = 0

NoIntegration ==
  /\ iPlan = "none" /\ iCases = NoRecord /\ iResult = "none" /\ iStages = NoRecord
  /\ iReceipt = NoRecord /\ iLease = NoRecord /\ iRollback = NoRecord /\ iManifest = FALSE
  /\ iValidation = "none" /\ iEffects = NoRecord /\ iRuns = NoRecord /\ iDeaths = 0

NoDryRun ==
  /\ pInput = NoRecord /\ pHead = 0 /\ pVerified = FALSE /\ pStore = {} /\ pAuthority = NoRecord
  /\ pRuns = NoRecord /\ pStops = 0

\* Two faults at once are tried on ordinary requests that change one path.
FewFaults ==
  pInput.campaign \/ Cardinality(pInput.paths) > 1 => Cardinality(pInput.faults) <= 1

MCInit ==
  /\ live \in {"ledger", "drill", "validation", "rollback", "integration", "dry_run"}
  /\ IF live = "ledger" THEN Ledger!Init ELSE NoLedger
  /\ IF live = "drill" THEN DrillInit ELSE NoDrill
  /\ IF live = "validation" THEN Validation!ValidationInit ELSE NoValidation
  /\ IF live = "rollback" THEN Rollback!LiveRollbackInit ELSE NoRollback
  /\ IF live = "integration" THEN Integration!DrillsInit ELSE NoIntegration
  /\ IF live = "dry_run"
     THEN DryRun!DryRunInit /\ FewFaults
     ELSE NoDryRun

\* A dry run over faulty evidence is made by one process over a repository that stays.
Undisturbed ==
  /\ \E p \in Runners : \A o \in Runners \ {p} : pRuns'[o] = DryRun!Idle
  /\ UNCHANGED <<pHead, pVerified, pAuthority, pStops>>

\* Moves of the protected ref, deaths, and evidence that is withdrawn.
DryRunDisturbances == pHead + pStops + (IF pVerified THEN 0 ELSE 1)

\* Edits of the worktree, ticks of the clock, and test runs after the first.
DrillDisturbances == Edits + drillNow + Len(ran)

MCNext ==
  \/ /\ live = "ledger" /\ Ledger!Next
     /\ UNCHANGED <<live, drillVars, validationVars, rollbackVars, integrationVars, dryRunVars>>
  \/ /\ live = "drill" /\ DrillNext
     /\ UNCHANGED <<live, ledgerVars, validationVars, rollbackVars, integrationVars, dryRunVars>>
     /\ DrillDisturbances' <= 2
  \/ /\ live = "validation" /\ Validation!ValidationNext
     /\ UNCHANGED <<live, ledgerVars, drillVars, rollbackVars, integrationVars, dryRunVars>>
  \/ /\ live = "rollback" /\ Rollback!LiveRollbackNext
     /\ UNCHANGED <<live, ledgerVars, drillVars, validationVars, integrationVars, dryRunVars>>
  \/ /\ live = "integration" /\ Integration!DrillsNext
     /\ UNCHANGED <<live, ledgerVars, drillVars, validationVars, rollbackVars, dryRunVars>>
  \/ /\ live = "dry_run" /\ DryRun!DryRunNext
     /\ UNCHANGED <<live, ledgerVars, drillVars, validationVars, rollbackVars, integrationVars>>
     /\ IF pInput.faults # {} THEN Undisturbed ELSE DryRunDisturbances' <= 2

MCSpec ==
  /\ MCInit
  /\ [][MCNext]_<<live, ledgerVars, drillVars, validationVars, rollbackVars, integrationVars,
                  dryRunVars>>

\* The ledger alone.
LedgerSpec ==
  /\ MCInit /\ live = "ledger"
  /\ [][MCNext]_<<live, ledgerVars, drillVars, validationVars, rollbackVars, integrationVars,
                  dryRunVars>>

\* Identities, contents and processes are interchangeable.
Symmetry == Permutations(Identities) \cup Permutations(Contents) \cup Permutations(Runners)
-----------------------------------------------------------------------------
(* The values of the constants.                                              *)

ClassifierVerdicts == {[empty |-> FALSE, ordinary |-> o] : o \in BOOLEAN}

DrillMatrix == <<"v1", "v2">>
SourceTrees ==
  [c \in 0..MaxEdits |-> {[path |-> "a", kind |-> "file", inside |-> TRUE, bytes |-> c]}]
Distribution(name) == [name |-> name, recordsItself |-> TRUE, bytes |-> 1]
Tools ==
  [t \in 0..MaxEdits |->
     [path |-> "path", uv |-> "uv", lock |-> t, interpreter |-> "py",
      pytest |-> Distribution("pytest"), plugins |-> {Distribution("cov")}, entries |-> {"cov"}]]
-----------------------------------------------------------------------------
(* The properties of the services, by name.                                  *)

(* However the processes of the ledger race, no submission is skipped or counted twice,
   the counts in force are those of the history, and a service never acts on a state
   the journal has left behind (record_submission, record_transition, _state_cache). *)
LedgerHolds ==
  live = "ledger" => Ledger!TypeOK /\ Ledger!LedgerCounts /\ Ledger!CacheIsCurrent

(* No record of the ledger ever changes, and nothing joins the history of a completed
   threshold (_commit_entry, _create_once, _require_fresh_mutation_allowed). *)
LedgerKept == [][live = "ledger" => Ledger!HistoryKept]_ledgerVars

(* Boundary evidence left without its reset can be closed, since no later stage changes
   the chain behind it (_validate_boundary_observation). *)
BoundaryClosable == live = "ledger" => Ledger!BoundaryClosable

(* A recorded result of the offline drill is about the pinned source, and no two
   replays ever return different results (execute, record_result,
   read_completed_result). *)
OfflineDrillHolds ==
  live = "drill" =>
    DrillTypeOK /\ DrillResultTrue /\ DrillAnswersAgree

(* However triggers interleave and die, the create request is sent once, a ref that was
   there before is never adopted, and every definite answer is the durable one (trigger,
   claim_create_authorization, _save). *)
ValidationHolds ==
  live = "validation" =>
    /\ Validation!ValidationTypeOK
    /\ Validation!OneValidationCreate /\ Validation!ValidationAnswersAgree

(* The merge request of a rollback is sent once, and each of its records rests on the
   one before it (run, cleanup). *)
RollbackEvidenceChain ==
  live = "rollback" => Rollback!LiveRollbackTypeOK /\ Rollback!RollbackEvidenceChain

(* Over any runs, deaths and restarts a case of the integration drills has its effect at
   most once, and is durable only with it, case 7 only where its rollback is recorded as
   applied (run, promote, acquire_lease, merge). *)
DrillEffectsOnce ==
  live = "integration" => Integration!DrillsTypeOK /\ Integration!DrillEffectsOnce

(* The ordered tests of the policy allow exactly what the policy is to allow
   (classify).  What is brought to the controller never changes, so that the states in
   which nothing has run decide it. *)
PolicyAllowsExactly ==
  live = "dry_run" =>
    /\ DryRun!DryRunTypeOK
    /\ (\A p \in Runners : pRuns[p] = DryRun!Idle) /\ pStore = {} => DryRun!PolicyAllowsExactly

(* A bundle that would apply is authorized over the snapshot it names
   (evaluate, create_rollback_bundle, replay). *)
WouldApplyIsAuthorized == live = "dry_run" => DryRun!WouldApplyIsAuthorized
=============================================================================
