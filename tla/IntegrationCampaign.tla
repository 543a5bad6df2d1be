------------------------ MODULE IntegrationCampaign ------------------------
(***************************************************************************)
(* A live integration campaign: integration_campaign_service.py over the   *)
(* campaign stages of hosted_git/campaign.py and the pull request calls of *)
(* hosted_git/github.py, with campaign_journal.py.                         *)
(*                                                                         *)
(* Processes run and resume the campaign of one published candidate.  The  *)
(* marker in the body of the one pull request names the operation it is    *)
(* bound to, and every run overwrites it.  The promotion service is        *)
(* modelled by the stages a campaign can tell apart (IntegrationPromotion  *)
(* models it in full) and synthetic validation by its outcome.  An index   *)
(* is created empty and then written, so a death may leave it torn, and a  *)
(* read of a torn index raises.                                            *)
(***************************************************************************)
EXTENDS IntegrationCampaignContracts

CONSTANTS
  Controllers,     \* processes
  MaxChecks,       \* bound on the generations of check evidence
  MaxFaults        \* bound on deaths and lost answers

VARIABLES
  kMain,           \* head of main: "before" or "moved"
  kTarget,         \* head of integration
  kPull,           \* the pull request: its state and the operation its marker names
  kStray,          \* a pull request opened after the candidate had been merged
  kChecks,         \* the trusted checks: a generation, and whether they are done
  kWire,           \* operation -> its merge request: "none", "sent", "landed", "refused"
  kSends,          \* operation -> merge requests sent
  kLease,          \* the operation that holds the lease of the target
  kLeased,         \* operations with durable lease evidence
  kIntent,         \* operation -> "none", "intended", "authorized"
  kReceipt,        \* operation -> the promotion receipt
  kPlan,           \* operation -> the completion plan
  kFinal,          \* operation -> the final evidence
  kPackage,        \* operation -> the evidence package
  kTorn,           \* indexes <<kind, operation>> created and not written
  kRuns,           \* process -> the run in progress
  kFaults

campaignVars ==
  <<kMain, kTarget, kPull, kStray, kChecks, kWire, kSends, kLease, kLeased, kIntent, kReceipt,
    kPlan, kFinal, kPackage, kTorn, kRuns, kFaults>>

heads == <<kMain, kTarget>>
pulls == <<kPull, kStray>>
wires == <<kWire, kSends>>
promotions == <<kLease, kLeased, kIntent, kReceipt>>
completions == <<kPlan, kFinal, kPackage, kTorn>>

Campaigns == 0 .. MaxChecks

CampaignIdle == [step |-> "idle", main |-> NoRecord, seen |-> 0, op |-> 0]

At(r, step) == kRuns[r].step = step
Goes(r, step) == kRuns' = [kRuns EXCEPT ![r].step = step]
\* The run returns or raises: the journals are all that is left of it.
Ends(r) == kRuns' = [kRuns EXCEPT ![r] = CampaignIdle]

\* ----- the hosted reads -----------------------------------------------------
\* _pull_binding: the pull request is open, and based on the publication's base.
PullBinding == kPull.state = "open" /\ kTarget = CandidatePublication.base

HasMarker(op) == kPull.marker = op

\* _evidence_snapshot raises while a trusted check is running.
EvidenceSnapshot == kChecks.done

\* observe: the pull request, its marker and its evidence are the intent's.
Observed(op) == PullBinding /\ HasMarker(op) /\ EvidenceSnapshot /\ kChecks.generation = op

\* reconcile raises on another marker, and on a merged target with other parents.
ReconcileRaises(op) ==
  \/ ~HasMarker(op)
  \/ kPull.state = "merged" /\ TargetParents[kTarget] # {CandidatePublication.base}

Reconciliation ==
  [pull |-> 1, merged |-> kPull.state = "merged", head |-> kTarget]

\* _classify_reconciliation.
ExactlyMerged == kPull.state = "merged" /\ kTarget = "merged"

\* ----- the records ----------------------------------------------------------
Intakes ==
  {[provenance |-> "publication", gates |-> g, evidence |-> {"publication"}] :
     g \in {{}, {"trusted_ci"}}}

ValidateIntake(i) ==
  /\ i.provenance = CandidatePublication.evidence
  /\ i.gates = {} /\ i.evidence = {i.provenance}

ValidatePublication == CandidatePublication.verified

Observation(checks) == [pull |-> 1, base |-> "base", state |-> "open", checks |-> checks]

\* bind: the template of the operation, named by the checks of its bundle.
Template(op) ==
  LET t == [pull |-> 1, base |-> CandidatePublication.base, tree |-> CandidatePublication.tree,
            bundle |-> BundleOf(op), publication |-> CandidatePublication.evidence,
            checks |-> op, operation |-> NoRecord] IN
  [t EXCEPT !.operation = OperationIdentity(t)]

\* What can differ between two records of one operation is all that is stored.
Opened == [pull |-> 1, identity |-> OpenIdentity(CandidatePublication, 1)]

DiscoveryOf(main, seen) ==
  [observation |-> Observation(seen), main |-> main, identity |-> Opened.identity]

PreparationOf(op, seen) ==
  [template |-> Template(op), observation |-> Observation(seen), identity |-> Opened.identity,
   verified |-> TRUE, marker |-> CampaignMarkerDigest(Template(op))]

\* _completion_plan, of what a run saw and the main it started from.
PlanOf(run) == [main |-> run.main, seen |-> run.seen]

CompletionPlan(op, plan) ==
  [operation |-> Template(op).operation, bundle |-> BundleOf(op),
   publication |-> CandidatePublication, artifacts |-> BundleOf(op).evidence,
   opened |-> Opened, discovery |-> DiscoveryOf(plan.main, plan.seen),
   preparation |-> PreparationOf(op, plan.seen), main |-> plan.main]

\* What the service requires of each stage before it takes the next.
ValidateOpened(o) == o.pull > 0 /\ o.identity = OpenIdentity(CandidatePublication, o.pull)

ValidateDiscovery(d, o) ==
  /\ d.identity = o.identity
  /\ d.observation.pull = o.pull /\ d.observation.base = CandidatePublication.base

ValidateBundleSnapshot(bundle) ==
  /\ bundle.base = CandidatePublication.base /\ bundle.candidateTree = CandidatePublication.tree
  /\ bundle.provenance = CandidatePublication.evidence

ValidatePreparation(p, bundle, d) ==
  /\ p.verified /\ p.identity = d.identity
  /\ p.template.bundle = bundle
  /\ p.template.base = CandidatePublication.base /\ p.template.tree = CandidatePublication.tree
  /\ p.observation.pull = p.template.pull /\ p.observation.base = p.template.base
  /\ p.observation.checks = p.template.checks
  /\ p.observation.pull = d.observation.pull

ValidateArtifacts(refs, digests) == refs = digests

\* _receipt.
ReceiptOf(outcome) == [outcome |-> outcome, observation |-> Reconciliation]

Receipt(op, receipt) ==
  [operation |-> Template(op).operation, outcome |-> receipt.outcome,
   observation |-> receipt.observation, head |-> receipt.observation.head]

\* GitHubCampaignProvider.final_evidence.
FinalEvidenceOf(op) ==
  [reconciliation |-> Reconciliation,
   merge |-> IF kReceipt[op].outcome = "applied" THEN "applied" ELSE "ambiguous"]

PackageOf(op) ==
  [plan |-> kPlan[op], receipt |-> kReceipt[op], final |-> kFinal[op], mainAfter |-> kMain]

Package(op, package) ==
  LET plan == CompletionPlan(op, package.plan) IN
  [bundle |-> plan.bundle, publication |-> plan.publication, artifacts |-> plan.artifacts,
   intent |-> BindLease(Template(op), op), lease |-> op,
   observation |-> plan.preparation.observation, final |-> package.final,
   receipt |-> Receipt(op, package.receipt), report |-> package.receipt.outcome,
   mainBefore |-> plan.main, mainAfter |-> package.mainAfter]

\* ----- run: the pull request ------------------------------------------------
\* _find_open_pull_request: the sole open one; one with another base raises.
FindOpenPullRequest ==
  CASE kPull.state = "open" /\ PullBinding -> "found"
    [] kPull.state = "open" /\ ~PullBinding -> "raises"
    [] kPull.state # "open" /\ kStray -> "raises"
    [] OTHER -> "absent"

\* open_or_reconcile_pull_request searches before it creates.
StartRun(r, intake) ==
  /\ At(r, "idle")
  /\ ValidateIntake(intake) /\ ValidatePublication
  /\ FindOpenPullRequest # "raises"
  /\ kRuns' = [kRuns EXCEPT ![r] = [CampaignIdle EXCEPT !.main = kMain,
       !.step = IF FindOpenPullRequest = "found" THEN "discover" ELSE "create"]]
  /\ UNCHANGED <<heads, pulls, kChecks, wires, promotions, completions, kFaults>>

RecoverPull(r) ==
  /\ At(r, "refind")
  /\ IF FindOpenPullRequest = "found" THEN Goes(r, "discover") ELSE Ends(r)
  /\ UNCHANGED <<heads, pulls, kChecks, wires, promotions, completions, kFaults>>

\* create_pull_request: one POST.  GitHub refuses a second open pull request and
\* accepts one for a candidate that was merged, whose base is then another.
CreatePull(r) ==
  /\ At(r, "create")
  /\ CASE kPull.state = "none" ->
            /\ kPull' = [kPull EXCEPT !.state = "open"] /\ UNCHANGED kStray
            /\ IF kTarget = CandidatePublication.base THEN Goes(r, "discover") ELSE Ends(r)
       [] kPull.state = "open" \/ kStray -> Goes(r, "refind") /\ UNCHANGED pulls
       [] OTHER -> kStray' = TRUE /\ Ends(r) /\ UNCHANGED kPull
  /\ UNCHANGED <<heads, kChecks, wires, promotions, completions, kFaults>>

\* The answer, or the request with it, is lost: the search is made once more.
CreatePullLost(r) ==
  /\ At(r, "create") /\ kFaults < MaxFaults
  /\ kFaults' = kFaults + 1
  /\ Goes(r, "refind")
  /\ \/ UNCHANGED kPull
     \/ kPull.state = "none" /\ kPull' = [kPull EXCEPT !.state = "open"]
  /\ UNCHANGED <<heads, kStray, kChecks, wires, promotions, completions>>

\* ----- run: the evidence and the plan ---------------------------------------
\* _trigger_validation reaches an exact ref; the checks of the pull request are
\* complete and main is where it was; the quality evidence is of those checks and
\* the dry run of a snapshot at the publication's base.  Or the run raises.
Discover(r) ==
  /\ At(r, "discover")
  /\ \/ /\ PullBinding /\ EvidenceSnapshot /\ kRuns[r].main = kMain
        /\ ValidateOpened(Opened)
        /\ ValidateDiscovery(DiscoveryOf(kMain, kChecks.generation), Opened)
        /\ ValidateBundleSnapshot(BundleOf(kChecks.generation))
        /\ kRuns' = [kRuns EXCEPT ![r].step = "bind", ![r].seen = kChecks.generation,
                                  ![r].op = kChecks.generation]
     \/ Ends(r)
  /\ UNCHANGED <<heads, pulls, kChecks, wires, promotions, completions, kFaults>>

\* update_campaign_marker replaces whatever marker the body had.
UpdateCampaignMarker(r) ==
  /\ At(r, "bind")
  /\ IF PullBinding
     THEN kPull' = [kPull EXCEPT !.marker = kRuns[r].op] /\ Goes(r, "rebind")
     ELSE Ends(r) /\ UNCHANGED kPull
  /\ UNCHANGED <<heads, kStray, kChecks, wires, promotions, completions, kFaults>>

\* verify_campaign_marker, and the same observation once more.
Rebind(r) ==
  /\ At(r, "rebind")
  /\ IF Observed(kRuns[r].op) /\ kChecks.generation = kRuns[r].seen
     THEN Goes(r, "plan") ELSE Ends(r)
  /\ UNCHANGED <<heads, pulls, kChecks, wires, promotions, completions, kFaults>>

Readable(kind, op) == <<kind, op>> \notin kTorn

\* CampaignCompletionJournal._record: create-once, and the same record again is
\* accepted.
RecordOnce(kind, op, old, new) == Readable(kind, op) /\ old \in {NoRecord, new}

RecordPlan(r) ==
  /\ At(r, "plan")
  /\ LET op == kRuns[r].op
         plan == PlanOf(kRuns[r])
         full == CompletionPlan(op, plan) IN
     IF ValidatePreparation(full.preparation, full.bundle, full.discovery)
        /\ ValidateArtifacts(full.artifacts, full.bundle.evidence)
        /\ CampaignCompletionPlan(full)
        /\ RecordOnce("plan", op, kPlan[op], plan)
     THEN kPlan' = [kPlan EXCEPT ![op] = plan] /\ Goes(r, "promote")
     ELSE Ends(r) /\ UNCHANGED kPlan
  /\ UNCHANGED <<heads, pulls, kChecks, wires, promotions, kFinal, kPackage, kTorn, kFaults>>

\* ----- promote --------------------------------------------------------------
Released(op) == IF kLease = op THEN NoRecord ELSE kLease

Reports(r, op, outcome) ==
  IF outcome \in SuccessfulOutcome
  THEN kRuns' = [kRuns EXCEPT ![r].step = "finalize", ![r].op = op]
  ELSE Ends(r)

\* A durable receipt answers; a durable intent is only reconciled, once it was
\* authorized; otherwise an operation takes the lease, at most once ever.
Promote(r) ==
  /\ At(r, "promote")
  /\ LET op == kRuns[r].op IN
     CASE kReceipt[op] # NoRecord ->
            /\ kLease' = Released(op) /\ Reports(r, op, kReceipt[op].outcome)
            /\ UNCHANGED <<kLeased, kReceipt>>
       [] kReceipt[op] = NoRecord /\ kIntent[op] = "authorized" ->
            IF ~ReconcileRaises(op) /\ ExactlyMerged
            THEN /\ kReceipt' = [kReceipt EXCEPT ![op] = ReceiptOf("already_applied")]
                 /\ kLease' = Released(op) /\ Reports(r, op, "already_applied")
                 /\ UNCHANGED kLeased
            ELSE Ends(r) /\ UNCHANGED <<kLease, kLeased, kReceipt>>
       [] kReceipt[op] = NoRecord /\ kIntent[op] = "none" /\ kLease = NoRecord
          /\ op \notin kLeased ->
            /\ kLease' = op /\ kLeased' = kLeased \cup {op} /\ Goes(r, "observe")
            /\ UNCHANGED kReceipt
       [] OTHER -> Ends(r) /\ UNCHANGED <<kLease, kLeased, kReceipt>>
  /\ UNCHANGED <<heads, pulls, kChecks, wires, kIntent, completions, kFaults>>

\* The bundle is replayed and the provider observed; then the intent is recorded.
RecordIntent(r) ==
  /\ At(r, "observe")
  /\ LET op == kRuns[r].op IN
     IF Observed(op)
     THEN kIntent' = [kIntent EXCEPT ![op] = "intended"] /\ Goes(r, "merge") /\ UNCHANGED kLease
     ELSE kLease' = Released(op) /\ Ends(r) /\ UNCHANGED kIntent
  /\ UNCHANGED <<heads, pulls, kChecks, wires, kLeased, kReceipt, completions, kFaults>>

\* The provider repeats every observation, and the request is authorized.
Authorize(r) ==
  /\ At(r, "merge")
  /\ LET op == kRuns[r].op IN
     IF Observed(op)
     THEN kIntent' = [kIntent EXCEPT ![op] = "authorized"] /\ Goes(r, "put")
          /\ UNCHANGED <<kLease, kReceipt>>
     ELSE kReceipt' = [kReceipt EXCEPT ![op] = ReceiptOf("invalid")]
          /\ kLease' = Released(op) /\ Ends(r) /\ UNCHANGED kIntent
  /\ UNCHANGED <<heads, pulls, kChecks, wires, kLeased, completions, kFaults>>

Put(r) ==
  /\ At(r, "put")
  /\ kWire' = [kWire EXCEPT ![kRuns[r].op] = "sent"]
  /\ kSends' = [kSends EXCEPT ![kRuns[r].op] = @ + 1]
  /\ Goes(r, "answer")
  /\ UNCHANGED <<heads, pulls, kChecks, promotions, completions, kFaults>>

\* _classify of the answer, which may be lost, and of the reconciliation.
Classified(op) ==
  CASE ExactlyMerged -> {"already_applied"} \cup (IF kWire[op] = "landed" THEN {"applied"} ELSE {})
    [] kWire[op] = "refused" /\ ~ExactlyMerged ->
         {IF kTarget = "base" THEN "not_applicable" ELSE "stale_base", "reconciliation_required"}
    [] OTHER -> {"reconciliation_required"}

\* One reconciliation; when it raises, or the lease or the receipt was settled by
\* another process, the lease is kept and no receipt is recorded.
Answer(r) ==
  /\ At(r, "answer")
  /\ LET op == kRuns[r].op IN
     \E outcome \in Classified(op) :
       IF ReconcileRaises(op) \/ kLease # op
          \/ kReceipt[op] \notin {NoRecord, ReceiptOf(outcome)}
       THEN Ends(r) /\ UNCHANGED <<kLease, kReceipt>>
       ELSE /\ kReceipt' = [kReceipt EXCEPT ![op] = ReceiptOf(outcome)]
            /\ kLease' = IF outcome = "reconciliation_required" THEN kLease ELSE Released(op)
            /\ Reports(r, op, outcome)
  /\ UNCHANGED <<heads, pulls, kChecks, wires, kLeased, kIntent, completions, kFaults>>

\* ----- finalize and resume --------------------------------------------------
\* _assert_plan_intent_receipt.
PlanIntentReceipt(op) ==
  /\ kIntent[op] # "none" /\ op \in kLeased /\ kReceipt[op] # NoRecord
  /\ Receipt(op, kReceipt[op]).operation = CompletionPlan(op, kPlan[op]).operation

\* _assert_package_plan.
PackageOfPlan(package, plan) ==
  /\ package.intent.template.operation = plan.operation
  /\ package.bundle = plan.bundle /\ package.publication = plan.publication
  /\ package.artifacts = plan.artifacts /\ package.mainBefore = plan.main

\* A durable package is returned; otherwise the final evidence is collected once.
Finalize(r) ==
  /\ At(r, "finalize")
  /\ LET op == kRuns[r].op IN
     IF ~Readable("plan", op) \/ kPlan[op] = NoRecord \/ ~Readable("package", op)
     THEN Ends(r) /\ UNCHANGED <<kFinal, kLease>>
     ELSE IF kPackage[op] # NoRecord
     THEN /\ IF PackageOfPlan(Package(op, kPackage[op]), CompletionPlan(op, kPlan[op]))
             THEN kLease' = Released(op) ELSE UNCHANGED kLease
          /\ Ends(r) /\ UNCHANGED kFinal
     ELSE IF ~PlanIntentReceipt(op) \/ ~Readable("final", op)
     THEN Ends(r) /\ UNCHANGED <<kFinal, kLease>>
     ELSE IF kReceipt[op].outcome \notin SuccessfulOutcome
     THEN Ends(r) /\ UNCHANGED <<kFinal, kLease>>
     ELSE IF kFinal[op] # NoRecord
     THEN Goes(r, "package") /\ UNCHANGED <<kFinal, kLease>>
     ELSE IF ReconcileRaises(op)
     THEN Ends(r) /\ UNCHANGED <<kFinal, kLease>>
     ELSE /\ kFinal' = [kFinal EXCEPT ![op] = FinalEvidenceOf(op)]
          /\ Goes(r, "package") /\ UNCHANGED kLease
  /\ UNCHANGED <<heads, pulls, kChecks, wires, kLeased, kIntent, kReceipt, kPlan, kPackage, kTorn,
                 kFaults>>

MovedPackage(op) == TRUE

\* The package is of a main that did not move, and satisfies its contract.
PackageValid(op) ==
  kMain = kPlan[op].main /\ IntegrationCampaignEvidencePackage(Package(op, PackageOf(op)))

RecordPackage(r) ==
  /\ At(r, "package")
  /\ LET op == kRuns[r].op IN
     IF PackageValid(op) /\ RecordOnce("package", op, kPackage[op], PackageOf(op))
     THEN kPackage' = [kPackage EXCEPT ![op] = PackageOf(op)] /\ kLease' = Released(op)
     ELSE UNCHANGED <<kPackage, kLease>>
  /\ Ends(r)
  /\ UNCHANGED <<heads, pulls, kChecks, wires, kLeased, kIntent, kReceipt, kPlan, kFinal, kTorn,
                 kFaults>>

ResumeUnintended(r, op) ==
  /\ At(r, "idle") /\ Readable("plan", op) /\ kPlan[op] # NoRecord
  /\ kRuns' = [kRuns EXCEPT ![r] = [CampaignIdle EXCEPT !.op = op, !.step =
       IF kReceipt[op] # NoRecord THEN "finalize"
       ELSE IF kIntent[op] = "none" THEN "promote" ELSE "put"]]
  /\ UNCHANGED <<heads, pulls, kChecks, wires, promotions, completions, kFaults>>

\* resume: a plan without an intent is left to the operator.
Resume(r, op) ==
  /\ At(r, "idle") /\ Readable("plan", op) /\ kPlan[op] # NoRecord
  /\ kIntent[op] # "none"
  /\ kRuns' = [kRuns EXCEPT ![r] = [CampaignIdle EXCEPT !.op = op,
       !.step = IF kReceipt[op] # NoRecord THEN "finalize" ELSE "promote"]]
  /\ UNCHANGED <<heads, pulls, kChecks, wires, promotions, completions, kFaults>>

\* ----- the world ------------------------------------------------------------
\* GitHub merges an open pull request at the base, whatever its marker says.
MergeLands(op) ==
  /\ kWire[op] = "sent"
  /\ \/ /\ kPull.state = "open" /\ kTarget = "base"
        /\ kTarget' = "merged" /\ kPull' = [kPull EXCEPT !.state = "merged"]
        /\ kWire' = [kWire EXCEPT ![op] = "landed"]
     \/ kWire' = [kWire EXCEPT ![op] = "refused"] /\ UNCHANGED <<kTarget, kPull>>
  /\ UNCHANGED <<kMain, kStray, kChecks, kSends, promotions, completions, kRuns, kFaults>>

\* The trusted checks are run again, and complete as another generation.
ChecksRun ==
  /\ \/ kChecks.done /\ kChecks.generation < MaxChecks
        /\ kChecks' = [generation |-> kChecks.generation + 1, done |-> FALSE]
     \/ ~kChecks.done /\ kChecks' = [kChecks EXCEPT !.done = TRUE]
  /\ UNCHANGED <<heads, pulls, wires, promotions, completions, kRuns, kFaults>>

HeadsMove ==
  /\ \/ kMain = "before" /\ kMain' = "moved" /\ UNCHANGED kTarget
     \/ kTarget # "later" /\ kTarget' = "later" /\ UNCHANGED kMain
  /\ UNCHANGED <<pulls, kChecks, wires, promotions, completions, kRuns, kFaults>>

\* The index a step writes, when it is not there yet.
IndexBeingWritten(r) ==
  LET op == kRuns[r].op IN
  CASE At(r, "plan") /\ kPlan[op] = NoRecord -> {<<"plan", op>>}
    [] At(r, "finalize") /\ kFinal[op] = NoRecord -> {<<"final", op>>}
    [] At(r, "package") /\ kPackage[op] = NoRecord -> {<<"package", op>>}
    [] OTHER -> {}

Die(r) ==
  /\ ~At(r, "idle") /\ kFaults < MaxFaults
  /\ kFaults' = kFaults + 1
  /\ Ends(r)
  /\ \/ UNCHANGED kTorn
     \/ kTorn' = kTorn \cup IndexBeingWritten(r)
  /\ UNCHANGED <<heads, pulls, kChecks, wires, promotions, kPlan, kFinal, kPackage>>

IntegrationCampaignInit ==
  /\ kMain = "before" /\ kTarget = "base"
  /\ kPull = [state |-> "none", marker |-> NoRecord] /\ kStray = FALSE
  /\ kChecks = [generation |-> 0, done |-> TRUE]
  /\ kWire = [op \in Campaigns |-> "none"] /\ kSends = [op \in Campaigns |-> 0]
  /\ kLease = NoRecord /\ kLeased = {}
  /\ kIntent = [op \in Campaigns |-> "none"] /\ kReceipt = [op \in Campaigns |-> NoRecord]
  /\ kPlan = [op \in Campaigns |-> NoRecord] /\ kFinal = [op \in Campaigns |-> NoRecord]
  /\ kPackage = [op \in Campaigns |-> NoRecord] /\ kTorn = {}
  /\ kRuns = [r \in Controllers |-> CampaignIdle]
  /\ kFaults = 0

IntegrationCampaignNext ==
  \/ \E r \in Controllers :
       \/ \E intake \in Intakes : StartRun(r, intake)
       \/ CreatePull(r) \/ CreatePullLost(r) \/ RecoverPull(r)
       \/ Discover(r) \/ UpdateCampaignMarker(r) \/ Rebind(r) \/ RecordPlan(r)
       \/ Promote(r) \/ RecordIntent(r) \/ Authorize(r) \/ Put(r) \/ Answer(r)
       \/ Finalize(r) \/ RecordPackage(r)
       \/ \E op \in Campaigns : Resume(r, op)
       \/ Die(r)
  \/ \E op \in Campaigns : MergeLands(op)
  \/ ChecksRun \/ HeadsMove

IntegrationCampaignSpec == IntegrationCampaignInit /\ [][IntegrationCampaignNext]_campaignVars

\* ----- properties -----------------------------------------------------------
\* The journals of a campaign hold records of their contracts.
IntegrationCampaignTypeOK ==
  \A op \in Campaigns :
    /\ kPlan[op] # NoRecord => CampaignCompletionPlan(CompletionPlan(op, kPlan[op]))
    /\ kFinal[op] # NoRecord => CampaignFinalEvidenceRecord(kFinal[op])
    /\ kPackage[op] # NoRecord => IntegrationCampaignEvidencePackage(Package(op, kPackage[op]))

\* However runs and resumptions of one candidate race over its pull request and
\* its marker, an operation sends one merge request, authorized under a recorded
\* plan, and a successful receipt is of a candidate that reached integration (run,
\* resume and promote).
CampaignMergesOnce ==
  \A op \in Campaigns :
    /\ kSends[op] <= 1
    /\ kSends[op] > 0 => kPlan[op] # NoRecord /\ kIntent[op] = "authorized"
    /\ kReceipt[op] # NoRecord /\ kReceipt[op].outcome \in SuccessfulOutcome =>
         kPull.state = "merged"

\* A package is of the one merge that reached integration, under a plan whose
\* main never moved, and no two operations of a candidate have one (finalize).
PackageIsTrue ==
  \A op \in Campaigns : kPackage[op] # NoRecord =>
    /\ kPull.state = "merged" /\ HasMarker(op) /\ kIntent[op] = "authorized"
    /\ kPackage[op].receipt = kReceipt[op] /\ kPackage[op].final = kFinal[op]
    /\ kPackage[op].plan = kPlan[op] /\ kPackage[op].mainAfter = kPlan[op].main
    /\ \A other \in Campaigns \ {op} : kPackage[other] = NoRecord
=============================================================================
