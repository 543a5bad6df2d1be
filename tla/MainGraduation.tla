--------------------------- MODULE MainGraduation ----------------------------
(***************************************************************************)
(* One graduation of a candidate to protected main, end to end: the        *)
(* operator records the plan and its authority, the preparation            *)
(* coordinator (application/main_graduation_coordinator.py) publishes the  *)
(* candidate, opens the pull request, issues the admission check and       *)
(* enqueues, and the completion coordinator                                *)
(* (application/main_graduation_completion_coordinator.py) holds the merge *)
(* group, authorizes, claims and releases it once, and closes the          *)
(* operation over what main shows afterwards.                              *)
(*                                                                         *)
(* The module composes the durable chain (GraduationJournal), the hosted   *)
(* repository as the coordinators read it (ProtectedMain) and the two      *)
(* coordinators.  A stage is run by the C4 stage executor: intent, owner   *)
(* marker, request, receipt, and read-only recovery once the owner marker  *)
(* exists.  MutationSlots models that executor file by file; here a stage  *)
(* keeps its durable boundaries and its outcomes.  The mutation and        *)
(* observation capabilities are ports: a request lands at once, later or   *)
(* never, and its answer may be lost.                                      *)
(*                                                                         *)
(* The process may stop anywhere and be started again; the service and the *)
(* clock move between any two steps.                                       *)
(***************************************************************************)
EXTENDS ProtectedMain, GraduationJournal, Sequences

CONSTANTS
    LeaseEnds,      \* expires_at of the main lease
    Ttl,            \* authorization_ttl of the completion coordinator
    MaxCrashes      \* bound: stops of the process

VARIABLES
    J,              \* the operation's journal
    S,              \* its durable stages: stage -> what is on disk of it
    inflight,       \* requests sent whose effect may still arrive
    asked,          \* how often each stage was sent to the provider
    pc,             \* next step of the running call, "idle" between calls
    stage,          \* the stage the call works on
    work,           \* what the call read and has not recorded yet
    result,         \* what the last call returned
    crashes         \* stops so far

callVars == <<pc, stage, work, result>>
vars == <<worldVars, J, S, inflight, asked, callVars, crashes>>

PrepareStages == <<"candidate_publication", "pull_request_open",
                   "admission_check", "queue_enqueue">>
StageNames == {"candidate_publication", "pull_request_open", "admission_check",
               "queue_enqueue", "merge_group_hold", "release_transition"}

NextStage(s) ==
    CASE s = "none"                  -> "candidate_publication"
      [] s = "candidate_publication" -> "pull_request_open"
      [] s = "pull_request_open"     -> "admission_check"
      [] s = "admission_check"       -> "queue_enqueue"
      [] s = "queue_enqueue"         -> "merge_group_hold"
      [] s = "merge_group_hold"      -> "release_transition"
      [] OTHER                       -> "none"

Success == {"applied", "already_applied"}

(* C4StageExecutor.effective_result: the receipt, or for an ambiguous one  *)
(* what its resolution established.                                        *)
EffectiveOutcome(s) ==
    IF S[s].outcome = "ambiguous" THEN S[s].resolution ELSE S[s].outcome

Succeeded(s) == s \in DOMAIN S /\ EffectiveOutcome(s) \in Success

-----------------------------------------------------------------------------
(* How a call proceeds and how it ends.                                    *)

Goes(step) == pc' = step /\ UNCHANGED <<stage, result>>

Turns(step, s) == pc' = step /\ stage' = s /\ UNCHANGED result

Returns(value) ==
    /\ pc' = "idle" /\ stage' = "none" /\ work' = NoRecord
    /\ result' = value

(* The journal is the only thing a recording step changes.                 *)
OnlyJournal == UNCHANGED <<worldVars, S, inflight, asked, crashes>>

(* Publish v as the record of kind k and go on with step, or quarantine.   *)
Publishes(k, v, permitted, step) ==
    /\ OnlyJournal
    /\ IF permitted /\ Free(J, k, v)
         THEN J' = Published(J, k, v) /\ Goes(step) /\ UNCHANGED work
         ELSE UNCHANGED J /\ Returns("quarantined")

-----------------------------------------------------------------------------
(* The operator's records, in the order the planning phases publish them.  *)

OperatorOrder == <<"sourcePackage", "issuerBinding", "delta", "composition",
                   "compositionProof", "plan", "lease", "intent", "protection",
                   "attestations", "preparation">>

(* The controller's pinned binding, and the campaign package on offer.     *)
ReleaseIssuerBinding == [app |-> "release", source |-> "campaign"]

CampaignPackages ==
    [outcome : {"applied", "reconciliation_required"}, target : {"integration"},
     head : {"candidate"}, parents : {{"base"}}, controller : {"campaign"}]

OperatorRecord(k) ==
    CASE k = "sourcePackage"    -> [result |-> "candidate", parent |-> "base",
                                    issuer |-> "campaign"]
      [] k = "issuerBinding"    -> ReleaseIssuerBinding
      [] k = "delta"            -> [package |-> J["sourcePackage"], risk |-> "ordinary"]
      [] k = "composition"      -> [delta |-> J["delta"], base |-> "base",
                                    tree |-> "candidate", parent |-> "base"]
      [] k = "compositionProof" -> [composition |-> J["composition"]]
      [] k = "plan"             -> [composition |-> J["composition"],
                                    proof |-> J["compositionProof"],
                                    issuer |-> J["issuerBinding"]]
      [] k = "lease"            -> [from |-> 0, until |-> LeaseEnds]
      [] k = "protection"       -> ObserveProtection
      [] k = "attestations"     -> [reviewer |-> "reviewer", evaluator |-> "evaluator"]
      [] OTHER                  -> [plan |-> J["plan"], lease |-> J["lease"],
                                    at |-> clock]

OperatorRecordPermitted(k, v) ==
    CASE k = "sourcePackage" ->
            \E campaign \in CampaignPackages : VerifySourcePackage(v, campaign)
      [] k = "issuerBinding" -> RequireControllerIssuerBinding(v, ReleaseIssuerBinding)
      [] k = "compositionProof" ->
            AuthorizeComposition(J, v, ReleaseIssuerBinding, main)
      [] k = "plan" -> /\ VerifyPlanEvidence(J, v, ReleaseIssuerBinding)
                       /\ VerifyPlanComposition(J, v, ReleaseIssuerBinding, main)
      [] k = "intent" -> VerifyIntentLease(J, v)
      [] k = "preparation" -> RequirePreparationChain(J, v)
      [] OTHER -> TRUE

OperatorRecords ==
    /\ pc = "idle"
    /\ \E n \in 1..Len(OperatorOrder) :
         LET k == OperatorOrder[n]
             v == OperatorRecord(k)
         IN  /\ k \notin DOMAIN J
             /\ \A m \in 1..(n - 1) : OperatorOrder[m] \in DOMAIN J
             /\ OperatorRecordPermitted(k, v)
             /\ J' = Published(J, k, v)
    /\ OnlyJournal /\ UNCHANGED callVars

-----------------------------------------------------------------------------
(* prepare: load, revalidate, recognize a finished preparation, and run    *)
(* the four reversible stages, revalidating before each.                   *)

Prepare ==
    /\ pc = "idle"
    /\ Durable(J, {"plan", "preparation", "lease"})
    /\ Turns("preflight", "none")
    /\ OnlyJournal /\ UNCHANGED <<J, work>>

(* assert_lease_evidence and the expiry of the lease.                      *)
LeaseCurrent == clock < J["lease"].until

(* _validate_queue_configuration: the snapshot is the plan's base under    *)
(* the durable protection.                                                 *)
ValidateQueueConfiguration(journal) ==
    /\ Durable(journal, {"queueConfiguration", "protection"})
    /\ journal["queueConfiguration"].base = journal["plan"].composition.base
    /\ journal["queueConfiguration"].epoch = journal["protection"].epoch

(* The configuration is recorded on the first pass, before it is checked.  *)
PreflightJournal ==
    IF LeaseCurrent /\ main = J["plan"].composition.base /\ QueueConfigurationReadable
      THEN Published(J, "queueConfiguration", ObserveQueueConfiguration)
      ELSE J

(* _preflight: main, protection and queue configuration are re-observed    *)
(* and still those of the durable records.                                 *)
PreflightHolds(journal) ==
    /\ LeaseCurrent
    /\ main = journal["plan"].composition.base
    /\ ValidateQueueConfiguration(journal)
    /\ ObserveProtection = journal["protection"]
    /\ ObserveQueueConfiguration = journal["queueConfiguration"]

Preflight ==
    /\ pc = "preflight"
    /\ J' = PreflightJournal
    /\ IF QueueConfigurationReadable /\ PreflightHolds(PreflightJournal)
         THEN /\ Goes(IF stage = "none" THEN "durable_queued" ELSE "run_stage")
              /\ UNCHANGED work
         ELSE Returns(IF LeaseCurrent /\ main = J["plan"].composition.base
                         /\ ~QueueConfigurationReadable
                        THEN "raised" ELSE "quarantined")
    /\ OnlyJournal

(* _durable_queued: a finished preparation is recognized only if its       *)
(* admission is fresh, its four stages succeeded and the queue still shows *)
(* the durable entry.                                                      *)
DurableQueued ==
    /\ pc = "durable_queued"
    /\ IF Durable(J, {"queue", "admission"})
         THEN IF ~AdmissionCheckReadable(clock) \/ ~QueueReadable(J["queueConfiguration"])
                THEN Returns("raised")
                ELSE Returns(IF /\ \A n \in 1..4 : Succeeded(PrepareStages[n])
                                /\ ObserveQueue(J["queueConfiguration"], J["admission"])
                                     = J["queue"]
                               THEN "queued" ELSE "quarantined")
         ELSE Turns("preflight", "candidate_publication") /\ UNCHANGED work
    /\ OnlyJournal /\ UNCHANGED J

(* _resolve_pr and _verify_pr after the pull request stage: it is open on  *)
(* the exact head and base.                                                *)
ResolvePr ==
    /\ pc = "resolve_pr"
    /\ IF pr = "open" /\ ref = "exact"
         THEN Turns("preflight", "admission_check") /\ UNCHANGED work
         ELSE Returns("quarantined")
    /\ OnlyJournal /\ UNCHANGED J

(* _admit: the fresh success of the isolated App on the PR head becomes    *)
(* the durable admission; an earlier record must agree up to its time.     *)
AdmissionRecord == [config |-> J["queueConfiguration"], at |-> admission.at]

Admit ==
    /\ pc = "admit"
    /\ IF ~AdmissionCheckReadable(clock)
         THEN UNCHANGED J /\ Returns("raised")
         ELSE IF Durable(J, {"admission"})
           THEN /\ UNCHANGED J
                /\ IF J["admission"].config = J["queueConfiguration"]
                     THEN Turns("preflight", "queue_enqueue") /\ UNCHANGED work
                     ELSE Returns("quarantined")
           ELSE IF /\ AttestAdmission(AdmissionRecord, J["queueConfiguration"], clock)
                   /\ RequireQueueAdmission(J, AdmissionRecord)
             THEN /\ J' = Published(J, "admission", AdmissionRecord)
                  /\ Turns("preflight", "queue_enqueue") /\ UNCHANGED work
             ELSE UNCHANGED J /\ Returns("quarantined")
    /\ OnlyJournal

(* _observe_queued: the one entry of the queue, under the durable          *)
(* configuration, becomes the durable queue observation.                   *)
ObserveQueued ==
    /\ pc = "observe_queued"
    /\ IF ~QueueReadable(J["queueConfiguration"])
         THEN UNCHANGED J /\ Returns("raised")
         ELSE LET v == ObserveQueue(J["queueConfiguration"], J["admission"])
              IN  IF Free(J, "queue", v)
                    THEN J' = Published(J, "queue", v) /\ Returns("queued")
                    ELSE UNCHANGED J /\ Returns("quarantined")
    /\ OnlyJournal

-----------------------------------------------------------------------------
(* Running a stage: C4StageExecutor under _run_stage or                    *)
(* _execute_or_recover.                                                    *)

ParentSucceeded(s) ==
    s # "candidate_publication" =>
        \E parent \in DOMAIN S : NextStage(parent) = s /\ Succeeded(parent)

StageAuthorityByLease(s) == LeaseCurrent

(* _check_pre_intent_expiry and _last_moment_authority: the lease fence is *)
(* current and a release is still inside its authorization.                *)
StageAuthority(s) ==
    /\ LeaseCurrent
    /\ s = "release_transition" =>
          /\ Durable(J, {"claim", "authorization"})
          /\ clock < J["authorization"].until

(* The times of a stage that later records repeat; the others are dropped. *)
TimedStages == {"merge_group_hold", "release_transition"}
StampOf(s) == IF s \in TimedStages THEN clock ELSE 0

NewStage(s) ==
    [intentAt |-> StampOf(s),
     gen |-> IF s \in TimedStages
               THEN J["queue"].gen ELSE 0,
     owner |-> FALSE, outcome |-> "none", at |-> 0,
     resolution |-> "none", resolvedAt |-> 0, resolvedBy |-> "none"]

RunStageAgain ==
    /\ pc = "run_stage"
    /\ UNCHANGED <<worldVars, J, inflight, asked, crashes>>
    /\ IF stage \notin DOMAIN S
         THEN IF ParentSucceeded(stage) /\ StageAuthority(stage)
                THEN /\ S' = Published(S, stage, NewStage(stage))
                     /\ Goes("own") /\ UNCHANGED work
                ELSE UNCHANGED S /\ Returns("quarantined")
         ELSE /\ UNCHANGED <<S, work>>
              /\ Goes(IF S[stage].outcome = "none" THEN "own"
                      ELSE IF S[stage].outcome = "ambiguous" THEN "recover"
                      ELSE "settled")

(* A new intent is recorded under current authority; an unowned one may be *)
(* dispatched; an owned one is only ever observed; a settled one is read.  *)
RunStage ==
    /\ pc = "run_stage"
    /\ UNCHANGED <<worldVars, J, inflight, asked, crashes>>
    /\ IF stage \notin DOMAIN S
         THEN IF ParentSucceeded(stage) /\ StageAuthority(stage)
                THEN /\ S' = Published(S, stage, NewStage(stage))
                     /\ Goes("own") /\ UNCHANGED work
                ELSE UNCHANGED S /\ Returns("quarantined")
         ELSE /\ UNCHANGED <<S, work>>
              /\ Goes(IF S[stage].outcome = "none" /\ ~S[stage].owner THEN "own"
                      ELSE IF S[stage].outcome \in {"none", "ambiguous"} THEN "recover"
                      ELSE "settled")

(* _claim_dispatch_owner: the create-once marker before the boundary.      *)
ClaimDispatchOwner ==
    /\ pc = "own"
    /\ IF StageAuthority(stage)
         THEN S' = [S EXCEPT ![stage].owner = TRUE] /\ Goes("send") /\ UNCHANGED work
         ELSE UNCHANGED S /\ Returns("quarantined")
    /\ UNCHANGED <<worldVars, J, inflight, asked, crashes>>

(* Whether the provider shows the effect of a stage.                       *)
Landed(s) ==
    CASE s = "candidate_publication" -> ref = "exact"
      [] s = "pull_request_open"     -> pr # "absent"
      [] s = "admission_check"       -> admission # NoRecord
      [] s = "queue_enqueue"         -> entry > 0
      [] s = "merge_group_hold"      -> hold # NoRecord /\ hold.gen = S[s].gen
      [] s = "release_transition"    -> /\ hold # NoRecord /\ hold.gen = S[s].gen
                                        /\ hold.status = "success"

CanLand(s) ==
    CASE s = "pull_request_open"  -> ref = "exact"
      [] s = "queue_enqueue"      -> /\ pr = "open" /\ main = "base"
                                     /\ generations < MaxGeneration
      [] s = "release_transition" -> hold # NoRecord /\ hold.gen = S[s].gen
      [] OTHER                    -> TRUE

(* The effect of a request at the service.                                 *)
Lands(s) ==
    /\ ~Landed(s) /\ CanLand(s)
    /\ ref' = IF s = "candidate_publication" THEN "exact" ELSE ref
    /\ pr' = IF s = "pull_request_open" THEN "open" ELSE pr
    /\ admission' = IF s = "admission_check"
                      THEN [at |-> clock, gen |-> 0, status |-> "success"]
                      ELSE admission
    /\ entry' = IF s = "queue_enqueue" THEN generations + 1 ELSE entry
    /\ generations' = IF s = "queue_enqueue" THEN generations + 1 ELSE generations
    /\ hold' = CASE s = "merge_group_hold"   -> [at |-> clock, gen |-> S[s].gen,
                                                 status |-> "pending"]
                 [] s = "release_transition" -> [hold EXCEPT !.status = "success"]
                 [] OTHER                    -> hold
    /\ UNCHANGED <<clock, main, epoch, checks, seen>>

(* _dispatch: the request crosses the boundary once.  It lands and is      *)
(* answered, lands and the answer is lost, is refused, or is lost on the   *)
(* way and may land later.                                                 *)
Send ==
    /\ pc = "send"
    /\ UNCHANGED <<J, S, crashes>>
    /\ IF ~StageAuthority(stage)
         THEN UNCHANGED <<worldVars, inflight, asked>> /\ Returns("quarantined")
         ELSE /\ asked' = [asked EXCEPT ![stage] = @ + 1]
              /\ Goes("receipt")
              /\ \/ /\ Landed(stage)
                    /\ work' = "already_applied"
                    /\ UNCHANGED <<worldVars, inflight>>
                 \/ /\ Lands(stage)
                    /\ work' \in {"applied", "ambiguous"}
                    /\ UNCHANGED inflight
                 \/ /\ ~Landed(stage)
                    /\ work' = "rejected"
                    /\ UNCHANGED <<worldVars, inflight>>
                 \/ /\ ~Landed(stage)
                    /\ work' = "ambiguous"
                    /\ inflight' = inflight \cup {stage}
                    /\ UNCHANGED worldVars

(* A request that was lost on the way arrives after all.                   *)
ArrivesLate(s) ==
    /\ s \in inflight
    /\ inflight' = inflight \ {s}
    /\ Lands(s)
    /\ UNCHANGED <<J, S, asked, callVars, crashes>>

RecordMutationReceipt ==
    /\ pc = "receipt"
    /\ S' = [S EXCEPT ![stage].outcome = work, ![stage].at = StampOf(stage)]
    /\ Goes(IF work = "ambiguous" THEN "recover" ELSE "settled")
    /\ work' = NoRecord
    /\ UNCHANGED <<worldVars, J, inflight, asked, crashes>>

(* _recover_locked: an owned stage without a receipt is recorded as        *)
(* ambiguous, at the time of the recovery.                                 *)
Recover ==
    /\ pc = "recover"
    /\ S' = IF S[stage].outcome = "none"
              THEN [S EXCEPT ![stage].outcome = "ambiguous",
                              ![stage].at = StampOf(stage)]
              ELSE S
    /\ Goes(IF S[stage].resolution = "none" THEN "observe" ELSE "settled")
    /\ UNCHANGED <<worldVars, J, inflight, asked, work, crashes>>

(* _observe and _resolution_from_observation: the read-only observation    *)
(* shows the effect, shows that it is missing, or is inconclusive.         *)
Observe ==
    /\ pc = "observe"
    /\ Goes("settled")
    /\ \/ UNCHANGED S
       \/ S' = [S EXCEPT ![stage].resolution =
                            IF Landed(stage) THEN "already_applied" ELSE "not_applied",
                         ![stage].resolvedAt = StampOf(stage),
                         ![stage].resolvedBy = "stage observation"]
    /\ UNCHANGED <<worldVars, J, inflight, asked, work, crashes>>

(* What the coordinators do with the effective outcome of a stage.         *)
Settled ==
    /\ pc = "settled"
    /\ IF stage = "release_transition"
         THEN Goes("transition") /\ UNCHANGED work
         ELSE IF EffectiveOutcome(stage) \notin Success
           THEN Returns(IF stage = "merge_group_hold" THEN "quarantined"
                                                      ELSE "reconciliation_required")
           ELSE /\ UNCHANGED work
                /\ CASE stage = "candidate_publication" -> Turns("preflight", "pull_request_open")
                     [] stage = "pull_request_open"     -> Goes("resolve_pr")
                     [] stage = "admission_check"       -> Goes("admit")
                     [] stage = "queue_enqueue"         -> Goes("observe_queued")
                     [] stage = "merge_group_hold"      -> Goes("group_checks")
    /\ OnlyJournal /\ UNCHANGED J

-----------------------------------------------------------------------------
(* complete: from the durable queued preparation to the closed operation.  *)

Started(s) == s \in DOMAIN S

(* _assert_queued_chain and _assert_current_lease: before the release      *)
(* intent exists the queue, the protection and main must still be those of *)
(* the durable preparation and the lease must be current.                  *)
AssertQueuedChain ==
    /\ J["queue"].config = J["queueConfiguration"]
    /\ J["queue"].admission = J["admission"]
    /\ ~Started("release_transition") =>
          /\ QueueReadable(J["queueConfiguration"])
          /\ ObserveQueue(J["queueConfiguration"], J["admission"]) = J["queue"]
          /\ ObserveProtection = J["protection"]
          /\ main = J["plan"].composition.base
          /\ LeaseCurrent

CompleteLoads == {"plan", "preparation", "lease", "queueConfiguration", "queue",
                  "admission", "protection", "attestations"}

Complete ==
    /\ pc = "idle"
    /\ Durable(J, CompleteLoads)
    /\ IF Durable(J, {"completion"})
         THEN Returns("completed")
         ELSE IF AssertQueuedChain
           THEN /\ Turns(IF ~Durable(J, {"hold"}) THEN "group"
                         ELSE IF ~Durable(J, {"authorization"}) THEN "authorize"
                         ELSE "claim", "none")
                /\ UNCHANGED work
           ELSE Returns("quarantined")
    /\ OnlyJournal /\ UNCHANGED J

(* _group_observation: the durable webhook receipt, or the authenticated   *)
(* delivery checked against the current queue.                             *)
GroupObservation ==
    /\ pc = "group"
    /\ IF Durable(J, {"webhook"})
         THEN work' = J["webhook"] /\ Goes("webhook") /\ UNCHANGED seen
         ELSE IF MergeGroupReadable(J["queue"])
           THEN /\ work' = ObserveMergeGroup /\ seen' = seen \cup {entry}
                /\ Goes("webhook")
           ELSE UNCHANGED seen /\ Returns("raised")
    /\ UNCHANGED <<clock, hosted, J, S, inflight, asked, crashes>>

(* _issue_hold up to the stage: the receipt is durable before the hold is  *)
(* asked for.                                                              *)
RecordMergeGroupWebhookReceipt ==
    /\ pc = "webhook"
    /\ OnlyJournal /\ UNCHANGED work
    /\ IF work.gen = J["queue"].gen /\ ParentSucceeded("merge_group_hold")
          /\ Free(J, "webhook", work)
         THEN J' = Published(J, "webhook", work) /\ Turns("run_stage", "merge_group_hold")
         ELSE UNCHANGED J /\ pc' = "idle" /\ stage' = "none" /\ result' = "quarantined"

(* _group_checks: every validation check of the group, fresh as of now.    *)
(* The record carries the instant of this attempt, so a second attempt     *)
(* never publishes the same content.                                       *)
GroupChecks ==
    /\ pc = "group_checks"
    /\ IF ~MergeGroupChecksReadable(J["webhook"].gen, clock)
         THEN UNCHANGED J /\ Returns("raised")
         ELSE IF Durable(J, {"checks"})
           THEN UNCHANGED J /\ Returns("quarantined")
           ELSE /\ J' = Published(J, "checks",
                                  ObserveMergeGroupChecks(J["webhook"].gen, clock))
                /\ Goes("hold") /\ UNCHANGED work
    /\ OnlyJournal

StageTime(s) ==
    IF S[s].outcome = "ambiguous" THEN S[s].resolvedAt ELSE S[s].at

HoldRecord ==
    [admission |-> J["admission"], webhook |-> J["webhook"], checks |-> J["checks"],
     gen |-> J["queue"].gen, epoch |-> J["protection"].epoch,
     at |-> StageTime("merge_group_hold")]

RecordReleaseHold ==
    /\ pc = "hold"
    /\ Publishes("hold", HoldRecord,
                 /\ AttestHold(HoldRecord, J["admission"], J["webhook"], J["queue"], clock)
                 /\ RequireReleaseHold(J, HoldRecord),
                 "authorize")

(* _issue_authorization: valid for the ttl, never past the lease.          *)
AuthorizationRecord ==
    [hold |-> J["hold"], at |-> clock,
     until |-> IF clock + Ttl < J["lease"].until THEN clock + Ttl
                                                 ELSE J["lease"].until]

IssueAuthorization ==
    /\ pc = "authorize"
    /\ Publishes("authorization", AuthorizationRecord,
                 RequireHold(J, AuthorizationRecord), "claim")

(* _read_claim_for_authorization and _issue_claim: one claim per           *)
(* authorization, recovered rather than minted again.                      *)
ClaimRecord ==
    [authorization |-> J["authorization"], lease |-> J["lease"], at |-> clock]

IssueClaim ==
    /\ pc = "claim"
    /\ OnlyJournal
    /\ IF Durable(J, {"claim"})
         THEN UNCHANGED <<J, work>> /\ Turns("run_stage", "release_transition")
         ELSE IF RequireReleaseClaim(J, ClaimRecord)
           THEN /\ J' = Published(J, "claim", ClaimRecord)
                /\ Turns("run_stage", "release_transition") /\ UNCHANGED work
           ELSE UNCHANGED J /\ Returns("quarantined")

(* _release after the stage: what the release came to, in the immutable    *)
(* transition record and, once terminal, in the claimed one.               *)
ReleaseStage == S["release_transition"]

TransitionRecord ==
    [authorization |-> J["authorization"], at |-> ReleaseStage.at,
     outcome |-> TransitionOf(EffectiveOutcome("release_transition"))]

RecordReleaseTransition ==
    /\ pc = "transition"
    /\ IF Durable(J, {"transition"})
         THEN Goes("claimed") /\ UNCHANGED <<J, work>> /\ OnlyJournal
         ELSE Publishes("transition", TransitionRecord,
                        RequireReleaseAuthorization(J, TransitionRecord), "claimed")

ClaimedRecord ==
    [claim |-> J["claim"], resolved |-> ReleaseStage.outcome = "ambiguous",
     at |-> StageTime("release_transition"),
     outcome |-> TransitionOf(EffectiveOutcome("release_transition"))]

RecordClaimedReleaseTransition ==
    /\ pc = "claimed"
    /\ IF Durable(J, {"claimed"})
         THEN Goes("post_state") /\ UNCHANGED <<J, work>> /\ OnlyJournal
         ELSE IF EffectiveOutcome("release_transition") \notin Success
           THEN Returns("reconciliation_required") /\ UNCHANGED J /\ OnlyJournal
           ELSE Publishes("claimed", ClaimedRecord,
                          RequireClaimedTransition(J, ClaimedRecord, ReleaseStage),
                          "post_state")

(* _post_state: main is read once; a durable receipt or reconciliation     *)
(* must show the same tree, and the receipt is published before the        *)
(* records that refer to it.                                               *)
ReceiptRecord == [tree |-> main, at |-> clock]

PostStateFromPlan ==
    /\ pc = "post_state"
    /\ OnlyJournal
    /\ LET r == [tree |-> J["plan"].composition.tree, at |-> clock]
       IN  IF RequireProviderReceipt(J, r)
             THEN /\ J' = Published(J, "providerReceipt", r)
                  /\ Goes("reconcile") /\ work' = r.tree
             ELSE UNCHANGED J /\ Returns("quarantined")

ObservePostState ==
    /\ pc = "post_state"
    /\ OnlyJournal
    /\ IF Durable(J, {"providerReceipt"})
         THEN /\ UNCHANGED J
              /\ IF J["providerReceipt"].tree = main
                   THEN Goes("reconcile") /\ work' = main
                   ELSE Returns("quarantined")
         ELSE IF RequireProviderReceipt(J, ReceiptRecord)
           THEN /\ J' = Published(J, "providerReceipt", ReceiptRecord)
                /\ Goes("reconcile") /\ work' = main
           ELSE UNCHANGED J /\ Returns("quarantined")

ReconciliationRecord ==
    [state |-> IF work = J["plan"].composition.tree THEN "completed" ELSE "reconciliation_required",
     tree |-> work, expected |-> J["plan"].composition.tree,
     gen |-> J["queue"].gen, claimed |-> J["claimed"]]

RecordReconciliation ==
    /\ pc = "reconcile"
    /\ Publishes("reconciliation", ReconciliationRecord,
                 RequireReconciliation(J, ReconciliationRecord), "observation")

PostStateRecord ==
    [tree |-> J["providerReceipt"].tree, at |-> J["providerReceipt"].at,
     observation |-> "main post-state"]

RecordPostState ==
    /\ pc = "observation"
    /\ Publishes("postState", PostStateRecord, RequirePostState(J, PostStateRecord),
                 "complete")

(* _record_completion, _build_package and record_completion: the package   *)
(* closes over every durable record, or is refused.                        *)
RecordCompletion ==
    /\ pc = "complete"
    /\ OnlyJournal
    /\ IF ValidateCompletion(J, ReleaseStage, ReleaseIssuerBinding)
         THEN J' = Published(J, "completion", [at |-> clock]) /\ Returns("completed")
         ELSE UNCHANGED J /\ Returns("quarantined")

-----------------------------------------------------------------------------
(* The process stops: what is not durable is gone.                         *)
Crash ==
    /\ pc # "idle" /\ crashes < MaxCrashes
    /\ crashes' = crashes + 1
    /\ pc' = "idle" /\ stage' = "none" /\ work' = NoRecord /\ result' = "none"
    /\ seen' = {}
    /\ UNCHANGED <<clock, hosted, J, S, inflight, asked>>

Init ==
    /\ WorldInit
    /\ J = <<>> /\ S = <<>>
    /\ inflight = {}
    /\ asked = [s \in StageNames |-> 0]
    /\ pc = "idle" /\ stage = "none" /\ work = NoRecord /\ result = "none"
    /\ crashes = 0

Operator == OperatorRecords \/ Prepare \/ Complete

Coordinator ==
    \/ Preflight \/ DurableQueued \/ ResolvePr \/ Admit \/ ObserveQueued
    \/ RunStage \/ ClaimDispatchOwner \/ Send \/ RecordMutationReceipt
    \/ Recover \/ Observe \/ Settled
    \/ GroupObservation \/ RecordMergeGroupWebhookReceipt \/ GroupChecks
    \/ RecordReleaseHold \/ IssueAuthorization \/ IssueClaim
    \/ RecordReleaseTransition \/ RecordClaimedReleaseTransition
    \/ ObservePostState \/ RecordReconciliation \/ RecordPostState
    \/ RecordCompletion

Hosted == (Tick \/ Service) /\ UNCHANGED <<J, S, inflight, asked, callVars, crashes>>

Next ==
    \/ Operator \/ Coordinator \/ Hosted \/ Crash
    \/ \E s \in StageNames : ArrivesLate(s)

Spec == Init /\ [][Next]_vars

-----------------------------------------------------------------------------
Steps == {"idle", "preflight", "durable_queued", "run_stage", "own", "send",
          "receipt", "recover", "observe", "settled", "resolve_pr", "admit",
          "observe_queued", "group", "webhook", "group_checks", "hold",
          "authorize", "claim", "transition", "claimed", "post_state",
          "reconcile", "observation", "complete"}

(* The records a durable stage stands for.                                 *)
MutationIntent(s) ==
    [identity |-> [stage |-> s, gen |-> S[s].gen],
     authority |-> s = "release_transition" /\ Durable(J, {"authorization", "claim"}),
     at |-> S[s].intentAt]
MutationReceipt(s) ==
    [outcome |-> S[s].outcome, dispatched |-> S[s].outcome # "rejected",
     at |-> S[s].at]
FenceResolution(s) ==
    [outcome |-> S[s].resolution, at |-> S[s].resolvedAt, by |-> S[s].resolvedBy]

RecordsOf(k) ==
    CASE k = "sourcePackage"      -> MainSourcePackageBinding
      [] k = "issuerBinding"      -> MainReleaseIssuerBinding
      [] k = "delta"              -> MainDeltaManifest
      [] k = "composition"        -> MainCompositionArtifact
      [] k = "compositionProof"   -> MainCompositionProof
      [] k = "plan"               -> MainGraduationPlan
      [] k = "lease"              -> MainLeaseEvidenceRecord
      [] k = "intent"             -> MainGraduationIntent
      [] k = "protection"         -> MainProtectionManifest
      [] k = "attestations"       -> MainAttestationManifest
      [] k = "preparation"        -> MainPreparationAuthorization
      [] k = "queueConfiguration" -> MainQueueConfigurationObservation
      [] k = "admission"          -> MainQueueAdmissionObservation
      [] k = "queue"              -> MainQueueObservation
      [] k = "webhook"            -> MainMergeGroupWebhookReceipt
      [] k = "checks"             -> MainMergeGroupChecks
      [] k = "hold"               -> MainReleaseHoldObservation
      [] k = "authorization"      -> MainReleaseAuthorization
      [] k = "claim"              -> MainReleaseClaim
      [] k = "transition"         -> MainReleaseTransitionReceipt
      [] k = "claimed"            -> MainClaimedReleaseTransitionReceipt
      [] k = "providerReceipt"    -> MainProviderReceipt
      [] k = "reconciliation"     -> MainReconciliation
      [] k = "postState"          -> MainProviderPostStateObservation
      [] k = "completion"         -> [at : Time]

(* Every variable has its type: the call is at one of its steps, every     *)
(* journal record is a valid instance of its contract and every durable    *)
(* stage of the contracts of its intent, receipt and resolution.           *)
TypeOK ==
    /\ WorldTypeOK
    /\ DOMAIN J \subseteq CompletionChildren \cup {"completion"}
    /\ \A k \in DOMAIN J : J[k] \in RecordsOf(k)
    /\ DOMAIN S \subseteq StageNames
    /\ \A s \in DOMAIN S :
         /\ MutationIntent(s) \in MainMutationIntent
         /\ S[s].outcome # "none" => MutationReceipt(s) \in MainMutationReceipt
         /\ S[s].resolution # "none" =>
               FenceResolution(s) \in MainMutationFenceResolution
         /\ S[s].resolution # "none" => S[s].outcome = "ambiguous"
         /\ S[s].outcome # "none" => S[s].owner
    /\ inflight \subseteq StageNames
    /\ asked \in [StageNames -> Nat]
    /\ pc \in Steps /\ stage \in StageNames \cup {"none"}
    /\ result \in {"none", "queued", "completed", "quarantined", "raised",
                   "reconciliation_required"}
    /\ crashes \in 0..MaxCrashes

(* No stage crosses the mutation boundary twice, across restarts, lost     *)
(* answers and late arrivals: _claim_dispatch_owner before _dispatch, and  *)
(* _recover_locked only observes.                                          *)
OneRequestPerStage == \A s \in StageNames : asked[s] <= 1

(* A stage is sent only after its predecessor was seen to have succeeded,  *)
(* so the provider's state builds up in the order of the plan: nothing is  *)
(* enqueued without the admission check and no group is released that was  *)
(* not held (_intent_values, _parent_proof).                               *)
StagesInOrder ==
    /\ asked["queue_enqueue"] > 0 => admission # NoRecord /\ pr # "absent"
    /\ asked["release_transition"] > 0 =>
          hold # NoRecord /\ hold.gen = J["hold"].gen

(* A merge of the candidate is the merge of the group that the durable     *)
(* hold, authorization and claim name, its release was decided inside both *)
(* windows, and its admission, hold, authorization and claim were durable  *)
(* in that order.                                                          *)
MergedUnderClaim ==
    pr = "merged" =>
        /\ Durable(J, {"admission", "hold", "authorization", "claim"})
        /\ hold.gen = J["hold"].gen
        /\ J["preparation"].at <= J["admission"].at
        /\ J["admission"].at <= J["hold"].at
        /\ J["hold"].at <= J["authorization"].at
        /\ J["authorization"].at <= J["claim"].at
        /\ J["claim"].at <= S["release_transition"].intentAt
        /\ S["release_transition"].intentAt < J["authorization"].until
        /\ J["authorization"].until <= J["lease"].until

(* An operation is closed only over the truth: its own group was merged,   *)
(* and the post-state it recorded is the candidate's (record_completion    *)
(* after _post_state).                                                     *)
CompletionIsTrue ==
    Durable(J, {"completion"}) =>
        /\ pr = "merged"
        /\ J["reconciliation"].claimed.outcome \in Terminal
        /\ J["postState"].tree = "candidate"

(* The graduation implements the guarded merge.                            *)
Promise ==
    INSTANCE GuardedMerge WITH
        Generations <- 1..MaxGeneration,
        tip <- main,
        claimed <- IF Durable(J, {"claim"}) THEN J["claim"].authorization.hold.gen ELSE 0,
        requested <- asked["release_transition"],
        merged <- IF pr = "merged" THEN hold.gen ELSE 0,
        closed <- Durable(J, {"completion"})

GuardedMergeHolds == Promise!Spec
=============================================================================
