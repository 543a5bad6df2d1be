---------------------------- MODULE RunHistory ----------------------------
(***************************************************************************)
(* One run row and its append-only event table, written by any number of    *)
(* concurrent service calls (API threads, CLI processes, workers).          *)
(*                                                                          *)
(* The SQLite driver opens a transaction at the first INSERT or UPDATE, so   *)
(* the SELECTs of a service call are separate reads that precede one atomic  *)
(* write.  A call is therefore two or three steps: it may read the           *)
(* idempotency table, it reads the run row, and it commits.  Nothing locks   *)
(* the row in between; what keeps the writers apart is the compare-and-swap  *)
(* on revision (transition) and the unique index on (run_id, sequence)       *)
(* (every writer that appends an event).                                     *)
(***************************************************************************)
EXTENDS Naturals, FiniteSets, Lifecycle

CONSTANTS
  Clients,     \* concurrent service calls in flight
  Keys,        \* idempotency keys (actor, endpoint scope, key)
  NoKey,       \* a call without an idempotency key
  NoRevision,  \* a call without an expected revision
  MaxEvents    \* bound on the event sequence, for model checking only

VARIABLES
  run,     \* RunRow: state, revision, event_sequence
  events,  \* EventRow set; from, to and key record the step the event stands for
  idem,    \* IdempotencyRow set: the keys recorded, with their request
  call     \* what each client holds between its steps

vars == <<run, events, idem, call>>

RunRow == [state : RunState, revision : Nat, event_sequence : Nat]

EventRow ==
  [sequence : Nat, from : RunState, to : RunState, key : Keys \cup {NoKey}]

IdempotencyRow == [key : Keys, target : RunState]

Idle == [step |-> "idle"]

Request ==
  [target : RunState, key : Keys \cup {NoKey}, expected : Nat \cup {NoRevision}]

Call ==
  {Idle}
    \cup [step : {"checked"}, req : Request]
    \cup [step : {"transition"}, req : Request, row : RunRow]
    \cup [step : {"write"}, target : RunState, row : RunRow]

\* Every row, file and call in flight has its type (the rows of RunService).
TypeOK ==
  /\ run \in RunRow
  /\ events \subseteq EventRow
  /\ idem \subseteq IdempotencyRow
  /\ call \in [Clients -> Call]
-----------------------------------------------------------------------------
EventAfterAssignment(n, from, to, key) ==
  [sequence |-> n, from |-> to, to |-> to, key |-> key]

Event(n, from, to, key) == [sequence |-> n, from |-> from, to |-> to, key |-> key]

\* create_run: one event, or three when the run is prepared in the same call.
Init ==
  /\ \/ /\ run = [state |-> "created", revision |-> 1, event_sequence |-> 1]
        /\ events = {Event(1, "created", "created", NoKey)}
     \/ /\ run = [state |-> "ready", revision |-> 3, event_sequence |-> 3]
        /\ events = {Event(1, "created", "created", NoKey),
                     Event(2, "created", "validating", NoKey),
                     Event(3, "validating", "ready", NoKey)}
  /\ idem = {}
  /\ call = [c \in Clients |-> Idle]

KeyAlwaysFree(k) == TRUE

\* uq_events_run_sequence and uq_idempotency_scope: the insert fails on a duplicate.
SequenceFree(n) == \A e \in events : e.sequence # n

KeyFree(k) == \A r \in idem : r.key # k

Return(c) == call' = [call EXCEPT ![c] = Idle]

\* transition, first read.  A recorded key ends the call here: it returns the prior
\* run, or raises when the key stands for another request.
CheckIdempotency(c, req) ==
  /\ call[c] = Idle
  /\ KeyFree(req.key)
  /\ call' = [call EXCEPT ![c] = [step |-> "checked", req |-> req]]
  /\ UNCHANGED <<run, events, idem>>

\* transition, second read and its checks on what was read.
ReadForTransition(c) ==
  /\ call[c].step = "checked"
  /\ LET req == call[c].req IN
       call' = [call EXCEPT ![c] =
         IF /\ can_transition(RUN_TRANSITIONS, run.state, req.target)
            /\ req.expected \in {NoRevision, run.revision}
         THEN [step |-> "transition", req |-> req, row |-> run]
         ELSE Idle]
  /\ UNCHANGED <<run, events, idem>>

\* The guarded UPDATE ... WHERE revision = the revision read.
RevisionMatches(row) == run.revision = row.revision

\* transition, the write: compare-and-swap, event, idempotency record, one commit.
CommitTransition(c) ==
  /\ call[c].step = "transition"
  /\ LET row == call[c].row
         req == call[c].req
         n == row.event_sequence + 1 IN
       /\ n <= MaxEvents
       /\ RevisionMatches(row)
       /\ SequenceFree(n)
       /\ KeyFree(req.key)
       /\ run' = [state |-> req.target, revision |-> row.revision + 1,
                  event_sequence |-> n]
       /\ events' = events \cup {Event(n, row.state, req.target, req.key)}
       /\ idem' = IF req.key = NoKey THEN idem
                  ELSE idem \cup {[key |-> req.key, target |-> req.target]}
  /\ Return(c)

\* The states an event-appending service call may leave the run in, by the state it
\* read: most calls leave it alone; opening a reconciliation, settling an exhausted
\* budget and resolving a case move it.
WriteTargets(s) ==
  {s} \cup {t \in {"blocked_reconciliation", "failed", "running", "cancelled"} :
              can_transition(RUN_TRANSITIONS, s, t)}

\* Any other service call that appends an event reads the run row ...
ReadForWrite(c) ==
  /\ call[c] = Idle
  /\ \E t \in WriteTargets(run.state) :
       call' = [call EXCEPT ![c] = [step |-> "write", target |-> t, row |-> run]]
  /\ UNCHANGED <<run, events, idem>>

\* ... and writes the columns it changed with no guard but the event's unique index.
CommitWrite(c) ==
  /\ call[c].step = "write"
  /\ LET row == call[c].row
         t == call[c].target
         n == row.event_sequence + 1 IN
       /\ n <= MaxEvents
       /\ SequenceFree(n)
       /\ run' = [state |-> IF t = row.state THEN run.state ELSE t,
                  revision |-> row.revision + 1, event_sequence |-> n]
       /\ events' = events \cup {Event(n, row.state, t, NoKey)}
  /\ Return(c)
  /\ UNCHANGED idem

\* claim_next reads the run row after its UPDATE of the activity, inside the write
\* transaction: read and commit are one step.
ClaimEvent ==
  /\ run.event_sequence < MaxEvents
  /\ LET n == run.event_sequence + 1 IN
       /\ SequenceFree(n)
       /\ run' = [state |-> run.state, revision |-> run.revision + 1, event_sequence |-> n]
       /\ events' = events \cup {Event(n, run.state, run.state, NoKey)}
  /\ UNCHANGED <<idem, call>>

\* A constraint or compare-and-swap failure, a busy timeout or a crash: rolled back.
Rollback(c) ==
  /\ call[c] # Idle
  /\ Return(c)
  /\ UNCHANGED <<run, events, idem>>

\* What the API, the CLI, settle_control_request and the admission handler ask
\* transition for.  The expected revision is one the caller saw: the current one, or
\* none (an older one is rejected by the first check it meets, as revisions only grow).
CommandTargets ==
  {"running", "pausing", "paused", "ready", "cancelling", "cancelled", "completed"}

Command(c) ==
  \E req \in [target : CommandTargets, key : Keys \cup {NoKey},
             expected : {run.revision, NoRevision}] :
    CheckIdempotency(c, req)

Next ==
  \/ \E c \in Clients :
       \/ Command(c)
       \/ ReadForTransition(c)
       \/ CommitTransition(c)
       \/ ReadForWrite(c)
       \/ CommitWrite(c)
       \/ Rollback(c)
  \/ ClaimEvent

Spec == Init /\ [][Next]_vars
-----------------------------------------------------------------------------
\* provenance_service.verify reports event_sequence_gap unless a run's events are
\* numbered 1..event_sequence: concurrent writers leave neither a gap nor a duplicate.
EventsContiguous ==
  /\ \A n \in 1..run.event_sequence : \E e \in events : e.sequence = n
  /\ \A e \in events : e.sequence \in 1..run.event_sequence
  /\ \A e, f \in events : e.sequence = f.sequence => e = f

\* No lost update on the run row: every event starts from the state its predecessor
\* left, moves it along the transition table or not at all, and the last one left the
\* state the row has.  Stale readers of the row never commit on top of a newer state.
HistoryIsPath ==
  /\ \A e, f \in events : f.sequence = e.sequence + 1 => f.from = e.to
  /\ \A e \in events : e.from = e.to \/ can_transition(RUN_TRANSITIONS, e.from, e.to)
  /\ \A e \in events : e.sequence = run.event_sequence => e.to = run.state

\* Repeating a command with its idempotency key has one effect: at most one event
\* carries the key, however the repetitions interleave.
OneEffectPerKey ==
  \A e, f \in events : e.key = f.key /\ e.key # NoKey => e = f

\* A terminal run never leaves its state, whatever a stale caller still holds.
TerminalIsFinal == [][run.state \in TerminalRunState => run'.state = run.state]_vars
=============================================================================
