--------------------------- MODULE ActivityLeases ---------------------------
(***************************************************************************)
(* Workers and operators around the activity journal of one run:             *)
(* ActivityService (leases and epochs), the Scheduler loop of each worker,    *)
(* RuntimeService.resolve_reconciliation, and the pause, resume, start and    *)
(* cancel commands with settle_control_request.  The activities are the ones  *)
(* that carry neither a session nor a budget reservation; Campaign has those. *)
(*                                                                            *)
(* A service call reads its rows one SELECT at a time and then commits one    *)
(* write transaction.  A call that read the run row fails when another event  *)
(* took the number after it (RunHistory).  began is a history field: the       *)
(* run's event number when a completion or a mark read the activity.  No       *)
(* guard looks at it; it tells the calls whose two reads an event tore apart.  *)
(***************************************************************************)
EXTENDS Naturals, FiniteSets, Lifecycle

CONSTANTS
  Activities, Workers, Operators,
  Digests,        \* result digests
  None,           \* no owner, no result, no case
  MaxEvents,      \* bound on the run's event sequence, for model checking only
  MaxCases        \* bound on reconciliation cases, for model checking only

\* What the proofs ask of the constants.
LeaseConstants == MaxCases \in Nat

VARIABLES
  run,         \* RunRow: state and event_sequence
  activities,  \* ActivityRow; live: the lease has not expired
  cases,       \* ReconciliationCaseRow
  worker,      \* where each worker's scheduler loop is
  operator     \* where each operator's API call is

vars == <<run, activities, cases, worker, operator>>

ActivityState ==
  {"none", "queued", "running", "completed", "reconciliation_required", "cancelled",
   "failed"}

ActivityRow ==
  [state : ActivityState, lease_epoch : Nat, lease_owner : Workers \cup {None},
   live : BOOLEAN, result_digest : Digests \cup {None}]

CaseRow == [id : 1..MaxCases, activity : Activities, state : {"open", "resolved"}]

Idle == [pc |-> "idle"]

\* "executing" covers recovery and execution; "result" and "uncertain" are about to
\* complete or to mark; the others are between two reads, or a read and the write.
WorkerState ==
  {Idle}
    \cup [pc : {"selected"}, activity : Activities]
    \cup [pc : {"executing", "uncertain", "beating"}, activity : Activities, epoch : Nat]
    \cup [pc : {"result"}, activity : Activities, epoch : Nat, digest : Digests]
    \cup [pc : {"completing"}, activity : Activities, epoch : Nat, digest : Digests,
          began : Nat]
    \cup [pc : {"complete"}, activity : Activities, epoch : Nat, digest : Digests,
          began : Nat, sequence : Nat]
    \cup [pc : {"marking"}, activity : Activities, epoch : Nat, began : Nat]
    \cup [pc : {"mark"}, activity : Activities, epoch : Nat, began : Nat,
          state : RunState, sequence : Nat]

Resolutions == {"retry", "accept_result", "cancel", "fail"}

OperatorState ==
  {Idle}
    \cup [pc : {"settle"}]
    \cup [pc : {"checking", "settling"}, state : {"pausing", "cancelling"}, sequence : Nat]
    \cup [pc : {"case"}, case : CaseRow, resolution : Resolutions]
    \cup [pc : {"activity"}, case : CaseRow, resolution : Resolutions,
          read : ActivityState]
    \cup [pc : {"resolve"}, case : CaseRow, resolution : Resolutions,
          read : ActivityState, state : RunState, sequence : Nat]

\* Every row, file and call in flight has its type (the rows of ActivityService).
TypeOK ==
  /\ run \in [state : RunState, event_sequence : Nat]
  /\ activities \in [Activities -> ActivityRow]
  /\ cases \subseteq CaseRow
  /\ worker \in [Workers -> WorkerState]
  /\ operator \in [Operators -> OperatorState]

Init ==
  /\ run = [state |-> "ready", event_sequence |-> 3]
  /\ activities = [a \in Activities |->
       [state |-> "none", lease_epoch |-> 0, lease_owner |-> None, live |-> FALSE,
        result_digest |-> None]]
  /\ cases = {}
  /\ worker = [w \in Workers |-> Idle]
  /\ operator = [o \in Operators |-> Idle]
-----------------------------------------------------------------------------
\* An event whose number follows the run row read at sequence n; state is the run's new
\* state, written only by the calls that change it.
AppendEvent(n, state) ==
  /\ n < MaxEvents
  /\ run.event_sequence = n
  /\ run' = [state |-> state, event_sequence |-> n + 1]

WorkerGoes(w, s) == worker' = [worker EXCEPT ![w] = s]

OperatorGoes(o, s) == operator' = [operator EXCEPT ![o] = s]

SetActivity(a, row) == activities' = [activities EXCEPT ![a] = row]

\* The lease columns are cleared; they are only looked at while the row is running.
Unleased(row, state) == [row EXCEPT !.state = state, !.lease_owner = None, !.live = FALSE]

\* enqueue: nothing but the run's existence is asked of the run.
Enqueue(a) ==
  /\ activities[a].state = "none"
  /\ AppendEvent(run.event_sequence, run.state)
  /\ SetActivity(a, [activities[a] EXCEPT !.state = "queued"])
  /\ UNCHANGED <<cases, worker, operator>>

EligibleIgnoringExpiry(a) ==
  \/ activities[a].state = "queued"
  \/ activities[a].state = "running" /\ activities[a].result_digest = None

\* A queued activity, or one whose lease expired before it had a result.
Eligible(a) ==
  \/ activities[a].state = "queued"
  \/ /\ activities[a].state = "running"
     /\ ~activities[a].live
     /\ activities[a].result_digest = None

NextEpochForQueued(row) ==
  IF row.state = "queued" THEN row.lease_epoch + 1 ELSE row.lease_epoch

\* Every claim, a takeover included, starts a new epoch.
NextEpoch(row) == row.lease_epoch + 1

\* claim_next, the SELECT: an eligible activity of a running run (the oldest; any here).
SelectActivity(w, a) ==
  /\ worker[w] = Idle
  /\ run.state = "running"
  /\ Eligible(a)
  /\ WorkerGoes(w, [pc |-> "selected", activity |-> a])
  /\ UNCHANGED <<run, activities, cases, operator>>

\* claim_next, the UPDATE ... WHERE eligible RETURNING: the run row is read inside the
\* write transaction, so the event is never refused, and the run's state is not read again.
ClaimActivity(w) ==
  LET a == worker[w].activity
      row == activities[a] IN
    /\ worker[w].pc = "selected"
    /\ Eligible(a)
    /\ AppendEvent(run.event_sequence, run.state)
    /\ SetActivity(a, [row EXCEPT !.state = "running", !.lease_epoch = NextEpoch(row),
                                  !.lease_owner = w, !.live = TRUE])
    /\ WorkerGoes(w, [pc |-> "executing", activity |-> a, epoch |-> NextEpoch(row)])
    /\ UNCHANGED <<cases, operator>>

\* recover or execute returned a result.
ReturnResult(w, d) ==
  /\ worker[w].pc = "executing"
  /\ WorkerGoes(w, [pc |-> "result", activity |-> worker[w].activity,
                    epoch |-> worker[w].epoch, digest |-> d])
  /\ UNCHANGED <<run, activities, cases, operator>>

\* No handler, an ambiguous recovery, or a failure classified as RECONCILE.
BecomeUncertain(w) ==
  /\ worker[w].pc = "executing"
  /\ WorkerGoes(w, [pc |-> "uncertain", activity |-> worker[w].activity,
                    epoch |-> worker[w].epoch])
  /\ UNCHANGED <<run, activities, cases, operator>>

HoldsLeaseAnyone(w, row) == row.state = "running"

\* The check of complete and heartbeat: running, leased to this worker, in this epoch.
HoldsLease(w, row) ==
  row.state = "running" /\ row.lease_owner = w /\ row.lease_epoch = worker[w].epoch

\* complete, the activity read: a failed check raises, and the worker gives up.
ReadToComplete(w) ==
  LET s == worker[w]
      row == activities[s.activity] IN
    /\ s.pc = "result"
    /\ WorkerGoes(w,
         IF ~HoldsLease(w, row) THEN Idle
         ELSE [pc |-> "completing", activity |-> s.activity, epoch |-> s.epoch,
               digest |-> s.digest, began |-> run.event_sequence])
    /\ UNCHANGED <<run, activities, cases, operator>>

\* complete, the run read.
ReadRunToComplete(w) ==
  LET s == worker[w] IN
    /\ s.pc = "completing"
    /\ WorkerGoes(w, [pc |-> "complete", activity |-> s.activity, epoch |-> s.epoch,
                      digest |-> s.digest, began |-> s.began,
                      sequence |-> run.event_sequence])
    /\ UNCHANGED <<run, activities, cases, operator>>

\* complete, the write: the row is updated by its primary key alone.
CommitComplete(w) ==
  LET s == worker[w] IN
    /\ s.pc = "complete"
    /\ AppendEvent(s.sequence, run.state)
    /\ SetActivity(s.activity, [Unleased(activities[s.activity], "completed")
                                  EXCEPT !.result_digest = s.digest])
    /\ WorkerGoes(w, Idle)
    /\ UNCHANGED <<cases, operator>>

\* mark_reconciliation_required, the activity read and its checks.
ReadToMark(w) ==
  LET s == worker[w]
      row == activities[s.activity] IN
    /\ s.pc = "uncertain"
    /\ WorkerGoes(w,
         IF row.state \notin {"running", "queued"} \/ row.lease_epoch # s.epoch THEN Idle
         ELSE [pc |-> "marking", activity |-> s.activity, epoch |-> s.epoch,
               began |-> run.event_sequence])
    /\ UNCHANGED <<run, activities, cases, operator>>

\* mark_reconciliation_required, the run read.
ReadRunToMark(w) ==
  LET s == worker[w] IN
    /\ s.pc = "marking"
    /\ WorkerGoes(w, [pc |-> "mark", activity |-> s.activity, epoch |-> s.epoch,
                      began |-> s.began, state |-> run.state,
                      sequence |-> run.event_sequence])
    /\ UNCHANGED <<run, activities, cases, operator>>

OpenCaseOnce(a) ==
  cases' = IF \E c \in cases : c.activity = a THEN cases
           ELSE cases \cup {[id |-> Cardinality(cases) + 1, activity |-> a, state |-> "open"]}

\* Every mark opens a case of its own.
OpenCase(a) ==
  cases' = cases \cup {[id |-> Cardinality(cases) + 1, activity |-> a, state |-> "open"]}

\* mark_reconciliation_required, the write: the activity leaves its lease, the run is
\* blocked (a run that may not be blocked raises instead), a new case is opened.
CommitMark(w) ==
  LET s == worker[w] IN
    /\ s.pc = "mark"
    /\ \/ s.state = "blocked_reconciliation"
       \/ can_transition(RUN_TRANSITIONS, s.state, "blocked_reconciliation")
    /\ Cardinality(cases) < MaxCases
    /\ AppendEvent(s.sequence, "blocked_reconciliation")
    /\ SetActivity(s.activity, Unleased(activities[s.activity], "reconciliation_required"))
    /\ OpenCase(s.activity)
    /\ WorkerGoes(w, Idle)
    /\ UNCHANGED operator

\* claim_next finds its activity taken and returns None; an event number taken, or a run
\* that may not be blocked, raises out of the loop.
WorkerRefused(w) ==
  LET s == worker[w] IN
    /\ \/ s.pc = "selected" /\ ~Eligible(s.activity)
       \/ s.pc \in {"complete", "mark"} /\ s.sequence # run.event_sequence
       \/ /\ s.pc = "mark"
          /\ s.state # "blocked_reconciliation"
          /\ ~can_transition(RUN_TRANSITIONS, s.state, "blocked_reconciliation")
    /\ WorkerGoes(w, Idle)
    /\ UNCHANGED <<run, activities, cases, operator>>

\* heartbeat, the read and its checks, while the handler executes.
ReadToBeat(w) ==
  LET s == worker[w]
      row == activities[s.activity] IN
    /\ s.pc = "executing"
    /\ HoldsLease(w, row) /\ row.live
    /\ WorkerGoes(w, [s EXCEPT !.pc = "beating"])
    /\ UNCHANGED <<run, activities, cases, operator>>

\* heartbeat, the write of lease_expires_at by primary key; it appends no event.
CommitBeat(w) ==
  LET s == worker[w] IN
    /\ s.pc = "beating"
    /\ SetActivity(s.activity, [activities[s.activity] EXCEPT !.live = TRUE])
    /\ WorkerGoes(w, [s EXCEPT !.pc = "executing"])
    /\ UNCHANGED <<run, cases, operator>>

\* lease_expires_at passes.
ExpireLease(a) ==
  /\ activities[a].live
  /\ SetActivity(a, [activities[a] EXCEPT !.live = FALSE])
  /\ UNCHANGED <<run, cases, worker, operator>>

\* The worker process dies, its call is rolled back, or a failure classified as RETRY
\* is raised out of the loop.  Nothing durable is written.
WorkerStops(w) ==
  /\ worker[w] # Idle
  /\ WorkerGoes(w, Idle)
  /\ UNCHANGED <<run, activities, cases, operator>>
-----------------------------------------------------------------------------
\* The states a command asks for: start, pause and resume name theirs, cancel picks by
\* the state it read, and the admission handler completes a running run.
CommandTarget(s) ==
  CASE s \in {"ready", "paused", "blocked_reconciliation"} ->
         {"running", "ready", "cancelled"}
    [] s = "running" -> {"pausing", "cancelling", "completed"}
    [] s = "pausing" -> {"cancelling"}
    [] OTHER -> {}

\* transition is a compare-and-swap on the run's revision (RunHistory), one step here;
\* pause and cancel go on to settle_control_request.
Command(o, t) ==
  /\ operator[o] = Idle
  /\ t \in CommandTarget(run.state)
  /\ can_transition(RUN_TRANSITIONS, run.state, t)
  /\ AppendEvent(run.event_sequence, t)
  /\ OperatorGoes(o, IF t \in {"pausing", "cancelling"} THEN [pc |-> "settle"] ELSE Idle)
  /\ UNCHANGED <<activities, cases, worker>>

\* A repeated pause request returns the recorded transition and settles again.
SettleAgain(o) ==
  /\ operator[o] = Idle
  /\ run.state = "pausing"
  /\ OperatorGoes(o, [pc |-> "settle"])
  /\ UNCHANGED <<run, activities, cases, worker>>

\* settle_control_request: the first read; only a requested stop is settled.
ReadControl(o) ==
  /\ operator[o].pc = "settle"
  /\ OperatorGoes(o, IF run.state \in {"pausing", "cancelling"}
                     THEN [pc |-> "checking", state |-> run.state,
                           sequence |-> run.event_sequence]
                     ELSE Idle)
  /\ UNCHANGED <<run, activities, cases, worker>>

AtSafeBoundaryLive ==
  \A a \in Activities : activities[a].state = "running" => ~activities[a].live

AtSafeBoundaryDrained ==
  \A a \in Activities : activities[a].state \notin {"queued", "running"}

\* No activity of the run is running.
AtSafeBoundary == \A a \in Activities : activities[a].state # "running"

\* settle_control_request: a separate transaction looks for running activities.
CheckBoundary(o) ==
  LET s == operator[o] IN
    /\ s.pc = "checking"
    /\ OperatorGoes(o, IF AtSafeBoundary THEN [s EXCEPT !.pc = "settling"] ELSE Idle)
    /\ UNCHANGED <<run, activities, cases, worker>>

\* settle_control_request: the transition at the revision of its first read.
Settle(o) ==
  LET s == operator[o] IN
    /\ s.pc = "settling"
    /\ AppendEvent(s.sequence, IF s.state = "pausing" THEN "paused" ELSE "cancelled")
    /\ OperatorGoes(o, Idle)
    /\ UNCHANGED <<activities, cases, worker>>

CaseOpen(c) == c.state = "open"

\* resolve_reconciliation, the case read: a resolved case ends the call.
ReadCase(o, c, r) ==
  /\ operator[o] = Idle
  /\ CaseOpen(c)
  /\ OperatorGoes(o, [pc |-> "case", case |-> c, resolution |-> r])
  /\ UNCHANGED <<run, activities, cases, worker>>

\* resolve_reconciliation, the activity read.
ReadCaseActivity(o) ==
  LET s == operator[o] IN
    /\ s.pc = "case"
    /\ OperatorGoes(o, [pc |-> "activity", case |-> s.case, resolution |-> s.resolution,
                        read |-> activities[s.case.activity].state])
    /\ UNCHANGED <<run, activities, cases, worker>>

\* resolve_reconciliation, the run read.
ReadCaseRun(o) ==
  LET s == operator[o] IN
    /\ s.pc = "activity"
    /\ OperatorGoes(o, [pc |-> "resolve", case |-> s.case, resolution |-> s.resolution,
                        read |-> s.read, state |-> run.state,
                        sequence |-> run.event_sequence])
    /\ UNCHANGED <<run, activities, cases, worker>>

RunTarget(r) ==
  CASE r \in {"retry", "accept_result"} -> "running"
    [] r = "cancel" -> "cancelled"
    [] r = "fail" -> "failed"

ActivityTarget(r) ==
  CASE r = "retry" -> "queued"
    [] r = "accept_result" -> "completed"
    [] r = "cancel" -> "cancelled"
    [] r = "fail" -> "failed"

\* resolve_reconciliation, the write: the activity's state column (if it changed from
\* what was read) and, when accepted, its result; the run's state; the case.
CommitResolve(o, d) ==
  LET s == operator[o]
      row == activities[s.case.activity]
      target == ActivityTarget(s.resolution) IN
    /\ s.pc = "resolve"
    /\ can_transition(RUN_TRANSITIONS, s.state, RunTarget(s.resolution))
    /\ AppendEvent(s.sequence, RunTarget(s.resolution))
    /\ SetActivity(s.case.activity,
         [row EXCEPT !.state = IF s.read = target THEN row.state ELSE target,
                     !.result_digest = IF s.resolution = "accept_result" THEN d
                                       ELSE row.result_digest])
    /\ cases' = (cases \ {s.case}) \cup {[s.case EXCEPT !.state = "resolved"]}
    /\ OperatorGoes(o, Idle)
    /\ UNCHANGED worker

\* The run changed since it was read, or may not move as the resolution asks.
OperatorRefused(o) ==
  LET s == operator[o] IN
    /\ \/ s.pc \in {"settling", "resolve"} /\ s.sequence # run.event_sequence
       \/ /\ s.pc = "resolve"
          /\ ~can_transition(RUN_TRANSITIONS, s.state, RunTarget(s.resolution))
    /\ OperatorGoes(o, Idle)
    /\ UNCHANGED <<run, activities, cases, worker>>

\* An API call fails, or its caller goes away, before it commits.
OperatorStops(o) ==
  /\ operator[o] # Idle
  /\ OperatorGoes(o, Idle)
  /\ UNCHANGED <<run, activities, cases, worker>>
-----------------------------------------------------------------------------
WorkerStep(w) ==
  \/ \E a \in Activities : SelectActivity(w, a)
  \/ ClaimActivity(w)
  \/ \E d \in Digests : ReturnResult(w, d)
  \/ BecomeUncertain(w)
  \/ ReadToComplete(w)
  \/ ReadRunToComplete(w)
  \/ CommitComplete(w)
  \/ ReadToMark(w)
  \/ ReadRunToMark(w)
  \/ CommitMark(w)
  \/ WorkerRefused(w)
  \/ ReadToBeat(w)
  \/ CommitBeat(w)

SettleStep(o) == SettleAgain(o) \/ ReadControl(o) \/ CheckBoundary(o) \/ Settle(o)

ResolveStep(o) ==
  \/ \E c \in cases, r \in Resolutions : ReadCase(o, c, r)
  \/ ReadCaseActivity(o)
  \/ ReadCaseRun(o)
  \/ \E d \in Digests : CommitResolve(o, d)

Next ==
  \/ \E a \in Activities : Enqueue(a) \/ ExpireLease(a)
  \/ \E w \in Workers : WorkerStep(w) \/ WorkerStops(w)
  \/ \E o \in Operators :
       \/ \E t \in RunState : Command(o, t)
       \/ SettleStep(o)
       \/ ResolveStep(o)
       \/ OperatorRefused(o) \/ OperatorStops(o)

Spec == Init /\ [][Next]_vars

\* A worker that is not killed polls, gets on with its loop, and its handler returns or
\* raises; an operator finishes the calls it began.  Nothing is fair about crashes or
\* about requests: nobody has to repeat a pause.
FairSpec ==
  /\ Spec
  /\ \A w \in Workers :
       /\ WF_vars(\E a \in Activities : SelectActivity(w, a))
       /\ WF_vars(ClaimActivity(w) \/ ReadToComplete(w) \/ ReadRunToComplete(w)
                    \/ CommitComplete(w) \/ ReadToMark(w) \/ ReadRunToMark(w)
                    \/ CommitMark(w) \/ CommitBeat(w) \/ WorkerRefused(w))
       /\ SF_vars(BecomeUncertain(w) \/ \E d \in Digests : ReturnResult(w, d))
  /\ \A o \in Operators :
       WF_vars(ReadControl(o) \/ CheckBoundary(o) \/ Settle(o) \/ ReadCaseActivity(o)
                 \/ ReadCaseRun(o) \/ OperatorRefused(o)
                 \/ \E d \in Digests : CommitResolve(o, d))
  /\ \A a \in Activities : WF_vars(ExpireLease(a))
-----------------------------------------------------------------------------
\* An activity waiting for reconciliation has an open case: no interleaving of marks,
\* completions and resolutions, with stale reads, leaves it where nobody can free it.
ReconcilingHasCase ==
  \A a \in Activities : activities[a].state = "reconciliation_required" =>
    \E c \in cases : c.activity = a /\ c.state = "open"

\* A run blocked on reconciliation has an open case to resolve.
BlockedHasCase ==
  run.state = "blocked_reconciliation" => \E c \in cases : c.state = "open"

Working == {"executing", "uncertain", "marking", "beating", "result", "completing",
            "complete", "mark"}

\* Two workers never hold the same lease epoch of an activity, and the newest epoch
\* handed out is the row's: the UPDATE of claim_next serialises claims.
EpochsExclusive ==
  \A w, v \in Workers :
    worker[w].pc \in Working =>
      /\ worker[w].epoch <= activities[worker[w].activity].lease_epoch
      /\ w # v /\ worker[v].pc \in Working /\ worker[v].activity = worker[w].activity =>
           worker[v].epoch # worker[w].epoch

\* A live lease is never taken over, although two workers may select the same activity.
LeaseKept ==
  \A a \in Activities :
    activities[a].state = "running" /\ activities[a].live =>
      activities'[a].lease_epoch = activities[a].lease_epoch
LiveLeaseKept == [][LeaseKept]_vars

\* Worker w commits its completion or its mark in this step.
Commits(w, pc) == worker[w].pc = pc /\ worker'[w] = Idle /\ run' # run

\* An event fell between the activity read and the run read of w's call.
TornReads(w) == worker[w].began # worker[w].sequence

\* A completion whose reads are not torn completes the running lease epoch it was claimed
\* under (complete).
CompletionFenced ==
  \A w \in Workers : Commits(w, "complete") /\ ~TornReads(w) =>
    LET row == activities[worker[w].activity] IN
      row.state = "running" /\ row.lease_epoch = worker[w].epoch

\* A durable result is given up only by a completion or a mark whose reads are torn, or by
\* an operator who resolves a case of the activity.
DurableResultKept ==
  \A a \in Activities :
    /\ activities[a].state = "completed"
    /\ \/ activities'[a].state # "completed"
       \/ activities'[a].result_digest # activities[a].result_digest
    =>
      \/ \E w \in Workers : /\ Commits(w, "complete") \/ Commits(w, "mark")
                            /\ TornReads(w)
      \/ \E o \in Operators : /\ operator[o].pc = "resolve" /\ operator'[o] = Idle
                              /\ operator[o].case.activity = a

\* The epoch fences what the event number covers (complete,
\* mark_reconciliation_required, resolve_reconciliation).
ResultFenced == CompletionFenced /\ DurableResultKept
FencedCompletion == [][ResultFenced]_vars

\* A pause or a cancellation is settled at a safe boundary: the check and the transition
\* are separate transactions, and no claim, completion or retry that falls between them
\* leaves an activity running (settle_control_request).
BoundaryWhenSettled ==
  \A o \in Operators :
    operator[o].pc = "settling" /\ operator'[o] = Idle /\ run' # run =>
      /\ run'.state \in {"paused", "cancelled"}
      /\ \A a \in Activities : activities[a].state # "running"
SettlesAtBoundary == [][BoundaryWhenSettled]_vars

\* What the design promises of a completion: it requires the current epoch.  A completion
\* that the event number will accept is of a running activity in the worker's epoch.
AcceptedCompletionsCurrent ==
  \A w \in Workers :
    worker[w].pc = "complete" /\ worker[w].sequence = run.event_sequence =>
      LET row == activities[worker[w].activity] IN
        row.state = "running" /\ row.lease_epoch = worker[w].epoch

\* The bounds of the model are reached, and events or cases can no longer be added.
AtBound == run.event_sequence = MaxEvents \/ Cardinality(cases) = MaxCases

\* What the lifecycle table promises of a pausing run: its active activities reach a safe
\* boundary.
PausingReachesBoundary ==
  run.state = "pausing" ~> run.state # "pausing" \/ AtSafeBoundary \/ AtBound
=============================================================================
