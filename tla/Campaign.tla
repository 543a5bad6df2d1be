------------------------------ MODULE Campaign ------------------------------
(***************************************************************************)
(* One campaign pass of a run: the variation activity that drives a coding    *)
(* agent, the private evaluation of the candidate it stages, and the          *)
(* admission decision, each executed by a scheduler worker that may stop at    *)
(* any point and be taken over.  The module composes SessionService,           *)
(* RuntimeService, BudgetService, TerminalBudgetService, EvidenceService and   *)
(* ActivityService around the three handlers of application/campaign.py.       *)
(*                                                                            *)
(* A service call is one step (RunHistory, BudgetLedger and ActivityLeases     *)
(* open those up); what interleaves here are the calls, and inside            *)
(* commit_admission what it reads and what it commits.  Any call may raise:    *)
(* Fails stands for every refused precondition, so an action states only when  *)
(* the call succeeds.  A lease may expire at any time: a worker whose lease    *)
(* was taken over keeps executing its handler, as the code lets it.            *)
(***************************************************************************)
EXTENDS Naturals, FiniteSets, Lifecycle

CONSTANTS
  Workers,
  Limit,              \* BudgetSpec, one dimension
  VariationEstimate,
  EvaluationEstimates,  \* what the frozen profile may estimate for an evaluation
  ReportedUsages,     \* usage a provider may report in a turn's events
  SessionUsage,       \* what _usage_from_events returns for no events
  EvaluationUsages,   \* usage the evaluation records may sum to
  EvaluatorKeys,      \* how many evaluators the frozen profile names
  MaxThreads,         \* bound on provider threads, for model checking only
  MaxClaims           \* bound on claims of activities, for model checking only

ASSUME CampaignAssumption ==
  /\ {Limit, VariationEstimate, SessionUsage, MaxClaims} \cup EvaluationEstimates \subseteq Nat
  /\ ReportedUsages \subseteq Nat /\ EvaluationUsages \subseteq Nat
  /\ EvaluatorKeys \in Nat \ {0} /\ MaxThreads \in Nat \ {0}
  /\ VariationEstimate <= Limit

VARIABLES
  run,          \* RunRow.state
  activity,     \* ActivityRow of each kind: state and lease_epoch
  session,      \* VariationSessionRow: state, outcome and usage of its result
  attempt,      \* the AttemptRow exists
  invocation,   \* HarnessInvocationRow: state, runtime_session, native_operation_id
  provider,     \* external: the threads of the coding agent's provider
  attached,     \* the threads each worker process holds a client for
  candidate,    \* CandidateRow.state, "none" before it is staged
  evaluated,    \* EvaluationRows of the candidate: how many, and their usage
  admissions,   \* outcomes of the candidate's AdmissionRows
  reservation,  \* BudgetReservationRow of each kind; estimated is frozen with the run
  ledger,       \* BudgetLedgerRow
  openCases,    \* open ReconciliationCaseRows, all of the variation activity
  worker        \* where each worker's handler is

services == <<session, attempt, invocation, candidate, evaluated, admissions>>
budgets == <<reservation, ledger>>
runtime == <<provider, attached>>
journal == <<run, activity, openCases>>
vars == <<journal, services, budgets, runtime, worker>>

Kinds == {"variation", "evaluate", "admit"}
Threads == 1..MaxThreads
Usages == ReportedUsages \cup EvaluationUsages \cup {SessionUsage}

ActivityRow ==
  [state : {"none", "queued", "running", "completed", "reconciliation_required",
            "cancelled", "failed"},
   epoch : 0..MaxClaims]

InvocationRow ==
  [state : {"none", "started", "running", "completed", "reconciliation_required"},
   thread : 0..MaxThreads, operation : BOOLEAN]

Thread ==
  [state : {"absent", "not_started", "running", "completed", "lost"},
   outcome : {"none", "proposal_ready", "exhausted"}, usage : {0} \cup Usages]

ReservationRow ==
  [state : {"none", "reserved", "held", "completed", "exceeded", "released"},
   estimated : {VariationEstimate} \cup EvaluationEstimates, actual : {0} \cup Usages]

Steps ==
  {"idle", "recover", "execute", "invoke", "prepare", "save_thread", "turn", "save_turn",
   "stream", "attempt", "finish", "stage", "reserve", "enqueue", "over_budget", "envelope",
   "charge", "settle", "evaluate", "next_stage", "decide", "commit", "finish_run", "raised",
   "mark", "complete"}

WorkerState ==
  [pc : Steps, kind : Kinds, epoch : 0..MaxClaims, thread : 0..MaxThreads,
   operation : BOOLEAN, usage : {0} \cup Usages, recovering : BOOLEAN,
   prior : {"none"} \cup CandidateState]

\* Every row, file and call in flight has its type (the rows of the campaign handlers).
TypeOK ==
  /\ run \in RunState
  /\ activity \in [Kinds -> ActivityRow]
  /\ session \in [state : VariationSessionState,
                  outcome : {"none", "proposal_ready", "exhausted"},
                  usage : {0} \cup Usages]
  /\ attempt \in BOOLEAN
  /\ invocation \in InvocationRow
  /\ provider \in [Threads -> Thread]
  /\ attached \in [Workers -> SUBSET Threads]
  /\ candidate \in {"none"} \cup CandidateState
  /\ evaluated \in [keys : 0..EvaluatorKeys, usage : {0} \cup EvaluationUsages]
  /\ admissions \subseteq {"admit", "reject", "quarantine", "review_required"}
  /\ reservation \in [{"variation", "evaluate"} -> ReservationRow]
  /\ ledger \in [used : Nat, reserved : Nat]
  /\ openCases \in Nat
  /\ worker \in [Workers -> WorkerState]

Idle ==
  [pc |-> "idle", kind |-> "variation", epoch |-> 0, thread |-> 0, operation |-> FALSE,
   usage |-> 0, recovering |-> FALSE, prior |-> "none"]

\* A running run whose variation session, reservation and activity have been enqueued.
Init ==
  /\ run = "running"
  /\ activity = [k \in Kinds |->
       [state |-> IF k = "variation" THEN "queued" ELSE "none", epoch |-> 0]]
  /\ session = [state |-> "queued", outcome |-> "none", usage |-> 0]
  /\ attempt = FALSE
  /\ invocation = [state |-> "none", thread |-> 0, operation |-> FALSE]
  /\ provider = [t \in Threads |-> [state |-> "absent", outcome |-> "none", usage |-> 0]]
  /\ attached = [w \in Workers |-> {}]
  /\ candidate = "none"
  /\ evaluated = [keys |-> 0, usage |-> 0]
  /\ admissions = {}
  /\ \E e \in EvaluationEstimates :
       reservation = [k \in {"variation", "evaluate"} |->
         IF k = "variation"
         THEN [state |-> "reserved", estimated |-> VariationEstimate, actual |-> 0]
         ELSE [state |-> "none", estimated |-> e, actual |-> 0]]
  /\ ledger = [used |-> 0, reserved |-> VariationEstimate]
  /\ openCases = 0
  /\ worker = [w \in Workers |-> Idle]
-----------------------------------------------------------------------------
At(w, pc) == worker[w].pc = pc

Goes(w, pc) == worker' = [worker EXCEPT ![w].pc = pc]

\* What the handler held is not looked at again.
Leaves(w, pc) ==
  worker' = [worker EXCEPT ![w] =
    [Idle EXCEPT !.pc = pc, !.kind = worker[w].kind, !.epoch = worker[w].epoch]]

GoesIdle(w) == worker' = [worker EXCEPT ![w] = Idle]

\* ActivityService.claim_next, as in ActivityLeases.
Claim(w, k) ==
  /\ At(w, "idle")
  /\ run = "running"
  /\ activity[k].state \in {"queued", "running"}
  /\ activity["variation"].epoch + activity["evaluate"].epoch + activity["admit"].epoch
       < MaxClaims
  /\ activity' = [activity EXCEPT ![k] = [state |-> "running", epoch |-> @.epoch + 1]]
  /\ worker' = [worker EXCEPT ![w] =
       [Idle EXCEPT !.pc = "recover", !.kind = k, !.epoch = activity[k].epoch + 1]]
  /\ UNCHANGED <<run, openCases, services, budgets, runtime>>

\* runtime.inspect of a thread.  The process that started its turn and has not read the
\* turn's end from the stream says "running"; any other asks the provider.
Inspect(w, t) ==
  IF t \in attached[w] /\ provider[t].state # "not_started" THEN "running"
  ELSE provider[t].state

\* The evidence a completed invocation is recovered from is not all there.
ResultMissing ==
  \/ session.outcome = "none"
  \/ session.outcome = "proposal_ready" /\ candidate = "none"

\* CodingVariationActivityHandler.recover: what the durable invocation allows.
VariationRecovery(w) ==
  CASE invocation.state = "none" -> "execute"
    [] invocation.state = "completed" ->
         IF ResultMissing THEN "mark" ELSE "charge"
    [] invocation.state = "reconciliation_required" -> "mark"
    [] OTHER ->
         IF invocation.thread = 0 THEN "execute"
         ELSE IF Inspect(w, invocation.thread) \in {"not_started", "completed"}
              THEN "execute" ELSE "mark"

RecoverVariation(w) ==
  /\ At(w, "recover") /\ worker[w].kind = "variation"
  /\ worker' = [worker EXCEPT ![w] =
       IF VariationRecovery(w) = "charge"
       THEN [@ EXCEPT !.pc = "charge", !.usage = session.usage, !.recovering = TRUE]
       ELSE [@ EXCEPT !.pc = VariationRecovery(w)]]
  /\ UNCHANGED <<journal, services, budgets, runtime>>

\* CandidateEvaluationActivityHandler.recover: every evaluator's record is durable.
RecoverEvaluation(w) ==
  /\ At(w, "recover") /\ worker[w].kind = "evaluate"
  /\ worker' = [worker EXCEPT ![w] =
       IF evaluated.keys = EvaluatorKeys
       THEN [@ EXCEPT !.pc = "charge", !.usage = evaluated.usage, !.recovering = TRUE]
       ELSE [@ EXCEPT !.pc = "evaluate"]]
  /\ UNCHANGED <<journal, services, budgets, runtime>>

\* CandidateAdmissionActivityHandler.recover.
RecoverAdmission(w) ==
  /\ At(w, "recover") /\ worker[w].kind = "admit"
  /\ Goes(w, IF admissions = {} THEN "decide" ELSE "complete")
  /\ UNCHANGED <<journal, services, budgets, runtime>>
-----------------------------------------------------------------------------
\* execute: SessionService.start, when the session is still queued.
StartSession(w) ==
  /\ At(w, "execute")
  /\ session.state = "queued" => run = "running"
  /\ session' = IF session.state = "queued" THEN [session EXCEPT !.state = "running"]
                ELSE session
  /\ Goes(w, "invoke")
  /\ UNCHANGED <<journal, attempt, invocation, candidate, evaluated, admissions, budgets,
                 runtime>>

\* find_activity_invocation and, when there is none, record_invocation.
RecordInvocation(w) ==
  /\ At(w, "invoke")
  /\ invocation' = IF invocation.state = "none" THEN [invocation EXCEPT !.state = "started"]
                   ELSE invocation
  /\ worker' = [worker EXCEPT ![w].pc = IF invocation.thread = 0 THEN "prepare" ELSE "turn",
                              ![w].thread = invocation.thread,
                              ![w].operation = invocation.operation]
  /\ UNCHANGED <<journal, session, attempt, candidate, evaluated, admissions, budgets,
                 runtime>>

\* runtime.prepare opens a thread that this process alone holds a client for.
PrepareThread(w, t) ==
  /\ At(w, "prepare")
  /\ provider[t].state = "absent"
  /\ provider' = [provider EXCEPT ![t].state = "not_started"]
  /\ attached' = [attached EXCEPT ![w] = @ \cup {t}]
  /\ worker' = [worker EXCEPT ![w].pc = "save_thread", ![w].thread = t]
  /\ UNCHANGED <<journal, services, budgets>>

\* replace_invocation: where the envelope may go from the state it is in.
EnvelopeMoves(target) ==
  \/ invocation.state = target
  \/ /\ invocation.state = "started"
     /\ target \in {"running", "completed", "reconciliation_required"}
  \/ invocation.state = "running" /\ target \in {"completed", "reconciliation_required"}

ReplaceInvocation(target, t, operation) ==
  /\ EnvelopeMoves(target)
  /\ invocation' = [state |-> target, thread |-> t, operation |-> operation]

SaveThreadLater(w) ==
  /\ At(w, "save_thread")
  /\ EnvelopeMoves("started")
  /\ Goes(w, "turn")
  /\ UNCHANGED <<journal, services, budgets, runtime>>

\* The prepared thread is saved before any turn is started on it.
SaveThread(w) ==
  /\ At(w, "save_thread")
  /\ ReplaceInvocation("started", worker[w].thread, FALSE)
  /\ Goes(w, "turn")
  /\ UNCHANGED <<journal, session, attempt, candidate, evaluated, admissions, budgets,
                 runtime>>

\* A turn is started once, on a thread inspected to have none and held by this process.
\* start_turn raises for a thread that another process prepared.
StartTurn(w) ==
  /\ At(w, "turn")
  /\ ~worker[w].operation
  /\ Inspect(w, worker[w].thread) = "not_started"
  /\ worker[w].thread \in attached[w]
  /\ provider' = [provider EXCEPT ![worker[w].thread] =
       [state |-> "running", outcome |-> "none", usage |-> 0]]
  /\ worker' = [worker EXCEPT ![w].pc = "save_turn", ![w].operation = TRUE]
  /\ UNCHANGED <<journal, services, budgets, attached>>

\* The inspected turn had already completed: it is finalized from the inspection, and no
\* events are observed.
AdoptTurn(w) ==
  /\ At(w, "turn")
  /\ Inspect(w, worker[w].thread) = "completed"
  /\ worker' = [worker EXCEPT ![w].pc = "attempt", ![w].usage = SessionUsage]
  /\ UNCHANGED <<journal, services, budgets, runtime>>

SaveTurn(w) ==
  /\ At(w, "save_turn")
  /\ ReplaceInvocation("running", worker[w].thread, TRUE)
  /\ Goes(w, "stream")
  /\ UNCHANGED <<journal, session, attempt, candidate, evaluated, admissions, budgets,
                 runtime>>

\* External: the provider ends the turn with a completion, or loses it.
TurnEnds(t, outcome, usage) ==
  /\ provider[t].state = "running"
  /\ provider' = [provider EXCEPT ![t] =
       [state |-> "completed", outcome |-> outcome, usage |-> usage]]
  /\ UNCHANGED <<journal, services, budgets, attached, worker>>

TurnLost(t) ==
  /\ provider[t].state = "running"
  /\ provider' = [provider EXCEPT ![t].state = "lost"]
  /\ UNCHANGED <<journal, services, budgets, attached, worker>>

\* events and wait: the usage is what the observed events report.
StreamTurn(w) ==
  /\ At(w, "stream")
  /\ provider[worker[w].thread].state = "completed"
  /\ worker' = [worker EXCEPT ![w].pc = "attempt",
                              ![w].usage = provider[worker[w].thread].usage]
  /\ attached' = [attached EXCEPT ![w] = @ \ {worker[w].thread}]
  /\ UNCHANGED <<journal, services, budgets, provider>>
-----------------------------------------------------------------------------
\* _finalize_completion: record_attempt.  A second record of the same attempt carries
\* another completion time, so it conflicts with the first.
AttemptAccepted == session.state = "running" /\ ~attempt

RecordAttempt(w) ==
  /\ At(w, "attempt")
  /\ AttemptAccepted
  /\ attempt' = TRUE
  /\ Goes(w, "finish")
  /\ UNCHANGED <<journal, session, invocation, candidate, evaluated, admissions, budgets,
                 runtime>>

FinishSessionUnstaged(w) ==
  LET outcome == provider[worker[w].thread].outcome IN
    /\ At(w, "finish")
    /\ session.outcome = "none"
    /\ can_transition(SESSION_TRANSITIONS, session.state, outcome)
    /\ session' = [state |-> outcome, outcome |-> outcome, usage |-> worker[w].usage]
    /\ Goes(w, "envelope")
    /\ UNCHANGED <<journal, attempt, invocation, candidate, evaluated, admissions, budgets,
                   runtime>>

\* SessionService.finish.
FinishSession(w) ==
  LET outcome == provider[worker[w].thread].outcome IN
    /\ At(w, "finish")
    /\ session.outcome = "none"
    /\ can_transition(SESSION_TRANSITIONS, session.state, outcome)
    /\ session' = [state |-> outcome, outcome |-> outcome, usage |-> worker[w].usage]
    /\ Goes(w, IF outcome = "exhausted" THEN "envelope" ELSE "stage")
    /\ UNCHANGED <<journal, attempt, invocation, candidate, evaluated, admissions, budgets,
                   runtime>>

\* EvidenceService.stage_candidate.
StageCandidate(w) ==
  /\ At(w, "stage")
  /\ candidate = "none"
  /\ candidate' = "staged"
  /\ Goes(w, "reserve")
  /\ UNCHANGED <<journal, session, attempt, invocation, evaluated, admissions, budgets,
                 runtime>>

Estimate(k) == reservation[k].estimated

Fits(used, reserved) == used + reserved <= Limit

\* BudgetService.reserve for the evaluation; a refusal leads to the terminal settlement.
ReserveEvaluation(w) ==
  LET reserved == ledger.reserved + Estimate("evaluate") IN
    /\ At(w, "reserve")
    /\ IF reservation["evaluate"].state = "none" /\ Fits(ledger.used, reserved)
       THEN /\ reservation' = [reservation EXCEPT !["evaluate"].state = "reserved"]
            /\ ledger' = [ledger EXCEPT !.reserved = reserved]
       ELSE UNCHANGED budgets
    /\ Goes(w, IF reservation["evaluate"].state # "none" \/ Fits(ledger.used, reserved)
               THEN "enqueue" ELSE "over_budget")
    /\ UNCHANGED <<journal, services, runtime>>

\* ActivityService.enqueue is idempotent in the activity key and asks nothing of the run.
Enqueued(k) ==
  activity' = IF activity[k].state = "none" THEN [activity EXCEPT ![k].state = "queued"]
              ELSE activity

EnqueueEvaluation(w) ==
  /\ At(w, "enqueue")
  /\ Enqueued("evaluate")
  /\ Goes(w, "envelope")
  /\ UNCHANGED <<run, openCases, services, budgets, runtime>>

\* execute: replace_invocation(completed), on the normal and on the exhausted path.
CompleteInvocation(w) ==
  /\ worker[w].pc \in {"envelope", "over_budget"}
  /\ ReplaceInvocation("completed", worker[w].thread, TRUE)
  /\ Goes(w, IF At(w, "envelope") THEN "charge" ELSE "settle")
  /\ UNCHANGED <<journal, session, attempt, candidate, evaluated, admissions, budgets,
                 runtime>>
-----------------------------------------------------------------------------
Settling(k) == reservation[k].state \in {"reserved", "held"}

\* BudgetService.complete of the worker's reservation.
ChargeReservation(w) ==
  LET k == worker[w].kind
      used == ledger.used + worker[w].usage IN
    /\ At(w, "charge")
    /\ Settling(k)
    /\ ledger.reserved >= Estimate(k)
    /\ Fits(used, ledger.reserved - Estimate(k))
    /\ ledger' = [used |-> used, reserved |-> ledger.reserved - Estimate(k)]
    /\ reservation' = [reservation EXCEPT ![k] =
         [state |-> "completed", estimated |-> @.estimated, actual |-> worker[w].usage]]
    /\ Leaves(w, "complete")
    /\ UNCHANGED <<journal, services, runtime>>

\* The same completion again is returned as done.
ChargedAlready(w) ==
  /\ At(w, "charge")
  /\ reservation[worker[w].kind].state = "completed"
  /\ reservation[worker[w].kind].actual = worker[w].usage
  /\ Leaves(w, "complete")
  /\ UNCHANGED <<journal, services, budgets, runtime>>

\* BudgetExceededError: the variation handler settles, the evaluation handler does not.
OverBudget(w) ==
  LET k == worker[w].kind IN
    /\ At(w, "charge")
    /\ k = "variation"
    /\ Settling(k)
    /\ ~Fits(ledger.used + worker[w].usage, ledger.reserved - Estimate(k))
    /\ Goes(w, "settle")
    /\ UNCHANGED <<journal, services, budgets, runtime>>

EvaluationAlwaysCancellable == TRUE

\* _cancel_evaluation refuses an evaluation that a worker has claimed or paid for.
EvaluationCancellable ==
  /\ activity["evaluate"].state \in {"none", "queued", "cancelled"}
  /\ reservation["evaluate"].state \in {"none", "reserved", "held", "released"}

\* The budget that remains reserved once the evaluation's reservation is released.
ReservedAfterSettlement ==
  ledger.reserved - VariationEstimate
    - (IF candidate # "none" /\ Settling("evaluate") THEN Estimate("evaluate") ELSE 0)

EvaluationReleased ==
  IF candidate # "none" /\ Settling("evaluate")
  THEN [reservation["evaluate"] EXCEPT !.state = "released"] ELSE reservation["evaluate"]

\* A staged candidate of an exhausted run is blocked by policy.
CandidateAfterSettlement == IF candidate = "none" THEN "none" ELSE "policy_blocked"

\* settle_exhausted_variation, atomically: the candidate is blocked, its evaluation
\* cancelled and released, the usage charged, the activity completed, the run failed and
\* the activity's open cases resolved.  Usage that fits, a stale lease, a claimed
\* evaluation or a run that may not fail raises.  An activity that an operator completed
\* in the meantime goes through when the result accepted is this one.
SettleExhausted(w) ==
  LET used == ledger.used + worker[w].usage
      unreserved == IF candidate # "none" /\ ~Settling("evaluate")
                    THEN Estimate("evaluate") ELSE 0 IN
    /\ At(w, "settle")
    /\ \/ activity["variation"] = [state |-> "running", epoch |-> worker[w].epoch]
       \/ activity["variation"].state \in {"reconciliation_required", "completed"}
    /\ Settling("variation")
    /\ ~Fits(used, ledger.reserved - VariationEstimate + unreserved)
    /\ candidate \in {"none", "staged", "policy_blocked"}
    /\ candidate # "none" => EvaluationCancellable
    /\ run = "failed" \/ can_transition(RUN_TRANSITIONS, run, "failed")
    /\ candidate' = CandidateAfterSettlement
    /\ activity' = [activity EXCEPT
         !["variation"].state = "completed",
         !["evaluate"].state = IF @ = "queued" THEN "cancelled" ELSE @]
    /\ reservation' = [k \in {"variation", "evaluate"} |->
         IF k = "variation"
         THEN [state |-> "exceeded", estimated |-> VariationEstimate,
               actual |-> worker[w].usage]
         ELSE EvaluationReleased]
    /\ ledger' = [used |-> used, reserved |-> ReservedAfterSettlement]
    /\ run' = "failed"
    /\ openCases' = 0
    /\ Leaves(w, "complete")
    /\ UNCHANGED <<session, attempt, invocation, evaluated, admissions, runtime>>

\* settle_exhausted_variation of a variation that was settled with this usage: only cases
\* opened since are left to resolve.
SettledAlready(w) ==
  /\ At(w, "settle")
  /\ reservation["variation"].state = "exceeded"
  /\ reservation["variation"].actual = worker[w].usage
  /\ run = "failed" /\ activity["variation"].state = "completed"
  /\ openCases' = 0
  /\ Leaves(w, "complete")
  /\ UNCHANGED <<run, activity, services, budgets, runtime>>
-----------------------------------------------------------------------------
\* CandidateEvaluationActivityHandler.execute: the runner's records are stored key by key.
\* A key that is stored already must return the same record.
RecordEvaluation(w, usage) ==
  /\ At(w, "evaluate")
  /\ evaluated.keys > 0 => usage = evaluated.usage
  /\ evaluated.keys < EvaluatorKeys
  /\ evaluated' = [keys |-> evaluated.keys + 1, usage |-> usage]
  /\ candidate' = "evaluating"
  /\ worker' = [worker EXCEPT
       ![w].pc = IF evaluated.keys + 1 = EvaluatorKeys THEN "next_stage" ELSE "evaluate",
       ![w].usage = usage]
  /\ UNCHANGED <<journal, session, attempt, invocation, admissions, budgets, runtime>>

\* Every key was stored by another worker with the same records.
RepeatEvaluation(w) ==
  /\ At(w, "evaluate")
  /\ evaluated.keys = EvaluatorKeys
  /\ worker' = [worker EXCEPT ![w].pc = "next_stage", ![w].usage = evaluated.usage]
  /\ UNCHANGED <<journal, services, budgets, runtime>>

EnqueueAdmission(w) ==
  /\ At(w, "next_stage")
  /\ Enqueued("admit")
  /\ Goes(w, "charge")
  /\ UNCHANGED <<run, openCases, services, budgets, runtime>>

\* CandidateAdmissionActivityHandler.execute up to the rows commit_admission reads: the
\* evaluations, a run nobody cancels, and the champion the decision expects.
ReadForAdmission(w) ==
  /\ At(w, "decide")
  /\ evaluated.keys > 0
  /\ run \notin {"cancelling", "cancelled"}
  /\ "admit" \notin admissions
  /\ worker' = [worker EXCEPT ![w].pc = "commit", ![w].prior = candidate]
  /\ UNCHANGED <<journal, services, budgets, runtime>>

DecidedState(outcome) ==
  CASE outcome = "reject" -> "rejected"
    [] outcome = "quarantine" -> "quarantined"
    [] OTHER -> outcome

\* A decision that does not admit commits without looking at the run again.  The session
\* writes the candidate's state only where it differs from the one that was read.
CommitDecision(w, outcome) ==
  /\ At(w, "commit")
  /\ admissions' = admissions \cup {outcome}
  /\ candidate' = IF DecidedState(outcome) = worker[w].prior THEN candidate
                  ELSE DecidedState(outcome)
  /\ Leaves(w, "complete")
  /\ UNCHANGED <<journal, session, attempt, invocation, evaluated, budgets, runtime>>

SwapsChampionUnfenced == "admit" \notin admissions

\* The compare-and-swap of an admission: the run is running at the commit and its champion
\* is still the expected one.  Its test of the run's revision refuses more than this
\* (AdmissionLineage); a refusal is Fails.
SwapsChampion == run = "running" /\ "admit" \notin admissions

\* An admission; a candidate that was waiting for a review has none here.
CommitAdmission(w) ==
  /\ At(w, "commit")
  /\ worker[w].prior # "review_required"
  /\ SwapsChampion
  /\ admissions' = admissions \cup {"admit"}
  /\ candidate' = "admitted"
  /\ Leaves(w, "finish_run")
  /\ UNCHANGED <<journal, session, attempt, invocation, evaluated, budgets, runtime>>

\* complete_on_admission: the run is completed if it is still running.
FinishRun(w) ==
  /\ At(w, "finish_run")
  /\ run' = IF run = "running" THEN "completed" ELSE run
  /\ Leaves(w, "complete")
  /\ UNCHANGED <<activity, openCases, services, budgets, runtime>>

\* ActivityService.complete, fenced by the epoch.
CompleteActivity(w) ==
  LET k == worker[w].kind IN
    /\ At(w, "complete")
    /\ activity[k] = [state |-> "running", epoch |-> worker[w].epoch]
    /\ activity' = [activity EXCEPT ![k].state = "completed"]
    /\ GoesIdle(w)
    /\ UNCHANGED <<run, openCases, services, budgets, runtime>>
-----------------------------------------------------------------------------
\* A call raises.  Inside execute the scheduler classifies the failure; in recover,
\* complete and mark the exception leaves the loop.
Fails(w) ==
  /\ ~At(w, "idle")
  /\ IF worker[w].pc \in {"recover", "complete", "raised", "mark"} \/ worker[w].recovering
     THEN GoesIdle(w)
     ELSE Leaves(w, "raised")
  /\ UNCHANGED <<journal, services, budgets, runtime>>

\* classify_failure: only a variation that has a thread is uncertain.
ClassifyFailure(w) ==
  LET uncertain == worker[w].kind = "variation" /\ invocation.thread # 0 IN
    /\ At(w, "raised")
    /\ invocation' = IF uncertain /\ EnvelopeMoves("reconciliation_required")
                     THEN [invocation EXCEPT !.state = "reconciliation_required"]
                     ELSE invocation
    /\ IF uncertain THEN Leaves(w, "mark") ELSE GoesIdle(w)
    /\ UNCHANGED <<journal, session, attempt, candidate, evaluated, admissions, budgets,
                   runtime>>

\* mark_reconciliation_required: the running session and the reservation follow.
MarkReconciliation(w) ==
  /\ At(w, "mark")
  /\ activity["variation"].state \in {"running", "queued"}
  /\ activity["variation"].epoch = worker[w].epoch
  /\ \/ run = "blocked_reconciliation"
     \/ can_transition(RUN_TRANSITIONS, run, "blocked_reconciliation")
  /\ activity' = [activity EXCEPT !["variation"].state = "reconciliation_required"]
  /\ run' = "blocked_reconciliation"
  /\ openCases' = openCases + 1
  /\ session' = IF session.state = "running"
                THEN [session EXCEPT !.state = "reconciliation_required"] ELSE session
  /\ reservation' = IF reservation["variation"].state = "reserved"
                    THEN [reservation EXCEPT !["variation"].state = "held"]
                    ELSE reservation
  /\ GoesIdle(w)
  /\ UNCHANGED <<attempt, invocation, candidate, evaluated, admissions, ledger, runtime>>

\* The worker process dies: its handler and its provider clients are gone.
WorkerStops(w) ==
  /\ ~At(w, "idle") \/ attached[w] # {}
  /\ GoesIdle(w)
  /\ attached' = [attached EXCEPT ![w] = {}]
  /\ UNCHANGED <<journal, services, budgets, provider>>
-----------------------------------------------------------------------------
AtSafeBoundary ==
  session.state # "running" /\ \A k \in Kinds : activity[k].state # "running"

\* The start, pause, resume and cancel commands; a stop that finds the run at a safe
\* boundary settles in the same call (settle_control_request).
CommandTarget ==
  CASE run \in {"ready", "paused", "blocked_reconciliation"} ->
         {"running", "ready", "cancelled"}
    [] run = "running" -> {"pausing", "cancelling"}
    [] run = "pausing" -> {"cancelling"}
    [] OTHER -> {}

Settled(state) ==
  IF ~AtSafeBoundary THEN state
  ELSE CASE state = "pausing" -> "paused"
         [] state = "cancelling" -> "cancelled"
         [] OTHER -> state

Command(t) ==
  /\ t \in CommandTarget
  /\ can_transition(RUN_TRANSITIONS, run, t)
  /\ run' = Settled(t)
  /\ UNCHANGED <<activity, openCases, services, budgets, runtime, worker>>

\* A repeated pause request settles again; a repeated cancel request does not.
SettleAgain ==
  /\ run = "pausing" /\ AtSafeBoundary
  /\ run' = "paused"
  /\ UNCHANGED <<activity, openCases, services, budgets, runtime, worker>>

\* resolve_reconciliation: the states each resolution asks the activity, run and session
\* to take.
Resolved(resolution) ==
  CASE resolution = "retry" -> [activity |-> "queued", target |-> "running"]
    [] resolution = "accept_result" -> [activity |-> "completed", target |-> "running"]
    [] resolution = "cancel" -> [activity |-> "cancelled", target |-> "cancelled"]
    [] OTHER -> [activity |-> "failed", target |-> "failed"]

ReleasesOnCancel(resolution) == resolution = "cancel"

ReleasesHeld(resolution) == resolution \in {"cancel", "fail"}

\* The run and the session must both allow their new state, and the reservation's
\* estimate is returned to the ledger when the work is given up.
ResolveReconciliation(resolution) ==
  LET r == Resolved(resolution) IN
    /\ openCases > 0
    /\ can_transition(RUN_TRANSITIONS, run, r.target)
    /\ can_transition(SESSION_TRANSITIONS, session.state, r.target)
    /\ ReleasesHeld(resolution) => ledger.reserved >= VariationEstimate
    /\ activity' = [activity EXCEPT !["variation"].state = r.activity]
    /\ run' = r.target
    /\ session' = [session EXCEPT !.state = r.target]
    /\ reservation' = [reservation EXCEPT !["variation"].state =
         IF resolution = "retry" THEN "reserved"
         ELSE IF resolution \in {"cancel", "fail"} THEN "released" ELSE @]
    /\ ledger' = IF ReleasesHeld(resolution)
                 THEN [ledger EXCEPT !.reserved = @ - VariationEstimate] ELSE ledger
    /\ openCases' = openCases - 1
    /\ UNCHANGED <<attempt, invocation, candidate, evaluated, admissions, runtime, worker>>
-----------------------------------------------------------------------------
VariationStep(w) ==
  \/ RecoverVariation(w) \/ StartSession(w) \/ RecordInvocation(w)
  \/ \E t \in Threads : PrepareThread(w, t)
  \/ SaveThread(w) \/ StartTurn(w) \/ AdoptTurn(w) \/ SaveTurn(w)
  \/ StreamTurn(w) \/ RecordAttempt(w) \/ FinishSession(w) \/ StageCandidate(w)
  \/ ReserveEvaluation(w) \/ EnqueueEvaluation(w) \/ CompleteInvocation(w)
  \/ ChargeReservation(w) \/ ChargedAlready(w) \/ OverBudget(w) \/ SettleExhausted(w)
  \/ SettledAlready(w)

EvaluationStep(w) ==
  \/ RecoverEvaluation(w) \/ RepeatEvaluation(w) \/ EnqueueAdmission(w)
  \/ \E u \in EvaluationUsages : RecordEvaluation(w, u)

AdmissionStep(w) ==
  \/ RecoverAdmission(w) \/ ReadForAdmission(w) \/ CommitAdmission(w) \/ FinishRun(w)
  \/ \E o \in {"reject", "quarantine", "review_required"} : CommitDecision(w, o)

SchedulerStep(w) ==
  \/ \E k \in Kinds : Claim(w, k)
  \/ CompleteActivity(w) \/ Fails(w) \/ ClassifyFailure(w) \/ MarkReconciliation(w)
  \/ WorkerStops(w)

ProviderStep(t) ==
  \/ \E o \in {"proposal_ready", "exhausted"}, u \in ReportedUsages : TurnEnds(t, o, u)
  \/ TurnLost(t)

OperatorStep ==
  \/ \E t \in RunState : Command(t)
  \/ SettleAgain
  \/ \E r \in {"retry", "accept_result", "cancel", "fail"} : ResolveReconciliation(r)

Next ==
  \/ \E w \in Workers :
       VariationStep(w) \/ EvaluationStep(w) \/ AdmissionStep(w) \/ SchedulerStep(w)
  \/ \E t \in Threads : ProviderStep(t)
  \/ OperatorStep

Spec == Init /\ [][Next]_vars
-----------------------------------------------------------------------------
SumOf(state, of) ==
  (IF reservation["variation"].state \in state THEN of["variation"] ELSE 0)
    + (IF reservation["evaluate"].state \in state THEN of["evaluate"] ELSE 0)

(* The rows are well formed, and the ledger equals its reservations across recovery,
   terminal settlement and operator resolution: reserved is what active reservations
   estimated, and used is what the settled ones cost (BudgetService,
   TerminalBudgetService, resolve_reconciliation). *)
LedgerConserved ==
  /\ TypeOK
  /\ ledger.reserved = SumOf({"reserved", "held"},
                             [k \in {"variation", "evaluate"} |-> Estimate(k)])
  /\ ledger.used = SumOf({"completed", "exceeded"},
                         [k \in {"variation", "evaluate"} |-> reservation[k].actual])

(* At most one provider turn exists for the activity, whatever crashed: a turn is started
   only on the persisted thread after it was seen to have none (campaign.py execute). *)
OneTurn ==
  Cardinality({t \in Threads : provider[t].state \in {"running", "completed", "lost"}}) <= 1

(* A completed invocation has the evidence its recovery reads: the session's result, and
   for a proposal the staged candidate (recover returns AMBIGUOUS otherwise). *)
CompletedIsRecoverable ==
  invocation.state = "completed" =>
    /\ session.outcome # "none"
    /\ session.outcome = "proposal_ready" => candidate # "none"

(* An exhausted budget leaves nothing behind: the settlement ends the run, its variation,
   evaluation and candidate together, and no worker revives them afterwards
   (settle_exhausted_variation, _cancel_evaluation). *)
ExhaustionIsFinal ==
  reservation["variation"].state = "exceeded" =>
    /\ run = "failed" /\ openCases = 0
    /\ activity["variation"].state = "completed"
    /\ candidate \in {"none", "policy_blocked"}
    /\ activity["evaluate"].state \in {"none", "cancelled"}
    /\ ~Settling("evaluate")

(* Once a cancellation was committed the candidate is not admitted any more, however late
   the worker that read a running run commits its decision (commit_admission's fence and
   its compare-and-swap of the champion).  A decision that does not admit may still land. *)
CancellationFence ==
  [][(run \in {"cancelling", "cancelled"}) =>
       /\ "admit" \in admissions' => "admit" \in admissions
       /\ candidate' = "admitted" => candidate = "admitted"]_vars

(* What the design promises of the three stages: a worker drains them, so an evaluation
   that completed has handed its candidate to admission. *)
StagesDrain ==
  activity["evaluate"].state = "completed" => activity["admit"].state # "none"
=============================================================================
