# Verification of AVO-Correlate

TLA+ specifications of `src/src/avo_correlate` (paths below are relative to it), the TLC
runs that check them on small instances, and TLAPS proofs of the main safety properties.
`PROJECT.json` maps every definition to the lines it translates and lists the runs, their
mutants, the findings, the hazards and the theorems.

## The system

AVO-Correlate has two halves.

**The run engine** keeps one SQLite database. A *run* has a state machine, an append-only
event history, a budget ledger, a journal of leased activities, variation sessions, staged
candidates, evaluations, reviews and a lineage of admitted candidates. HTTP and CLI
commands, scheduler workers and operators call services on the same database; a worker
drives a coding agent through an external provider.

**Source promotion** turns an accepted candidate into commits on hosted branches: first on
the integration branch (promotion, campaigns, rollback, drills, validation), then on
protected main (graduation, its ledger, the personal exact compare-and-swap). It keeps
create-once records in filesystem journals, takes a lease file per target, and calls a
hosting service whose answers can be lost.

| Component | State | Operations | Hard behaviours |
|---|---|---|---|
| Run lifecycle, events (`application/run_service.py`, `domain/lifecycle`) | run row, events, idempotency rows | create, transition, every append of an event | reads outside the write transaction, retried commands |
| Budget ledger (`application/budget_service.py`, `domain/budgets.py`) | ledger, reservations | reserve, complete, release, observe, hold | stale reads, retries, limit met exactly |
| Activities, scheduler (`application/activity_service.py`, `scheduler.py`) | activity rows with leases | enqueue, claim, heartbeat, complete, mark; worker loop | expired leases, takeover, crashes |
| Reconciliation, control (`application/runtime_service.py`, `api/app.py`) | cases, run state | resolve, start, pause, resume, cancel, settle | operator and worker races, pauses that must settle |
| Campaign handlers (`application/campaign.py`, `terminal_budget_service.py`, `session_service.py`, `adapters/harness/codex.py`) | session, invocation, candidate, reservations | the three stage handlers with their recovery | restart between any two calls, worker without its lease |
| Evidence, review (`application/evidence_service.py`, `review_service.py`) | candidates, evaluations, decisions, lineage, reviews | stage, evaluate, decide, create, submit | two decisions against one champion, last approvals at once |
| Integration promotion (`application/integration_promotion_service.py`, `adapters/artifacts/promotion_journal.py`, `adapters/hosted_git/github.py`) | lease file, four create-once records per operation, pull request, branch | promote, recover, release | two processes, crashes, lost and late answers, pushes by others |
| Integration campaign (`application/integration_campaign_service.py`, `campaign_journal.py`) | plan, intent, completion records, the pull request's marker | plan, run, finalize, resume | torn index files, a marker every run overwrites |
| Rollback and live rollback (`application/integration_rollback_service.py`, `integration_live_rollback*.py`) | four create-once records, branch | authorize, run, complete | two operators, death while an index is written |
| Synthetic validation, integration drills, offline drill, dry run (`application/synthetic_validation_service.py`, `integration_drill_service.py`, `main_graduation_offline_*.py`, `promotion_service.py`) | create-once journals, validation ref, worktree, repository | trigger, clean up, run a case, measure, dry run | two runners, late requests, sources that change between reads |
| Stage executor (`application/c4_stage_executor.py`, `adapters/artifacts/main_graduation_journal.py`) | identity indexes, intents, markers, receipts, fences, one slot per target | execute, recover, observe, close | racing runners, stops between two files, late effects |
| Main graduation (`application/main_graduation_coordinator.py`, `main_graduation_completion_coordinator.py`) | 25 kinds of record, hosted repository | prepare, complete | a hosted repository that moves between any two steps |
| Graduation ledger (`application/main_graduation_activation_service.py`, `main_graduation_ledger_service.py`) | activation, submissions, accumulator, terminal package | activate, submit, classify, bound, close | two services over one journal, expiry |
| Exact compare-and-swap and hosted reads (`application/main_personal_exact_cas_controller.py`, `adapters/hosted_git/*exact_cas*.py`, `c8_phase2.py`) | journal, main, evidence leaves | run, recover, collect, preflight | one PATCH whose answer is lost, reads of several resources |
| Artifact store, harnesses, sandboxes, git composition, statistics, queries, command line | none that is raced for | I/O, checks of one input | none to interleave |

The services of the engine interact through the rows of the database only. The one thing
that every writer of a run touches is the run row's event number: `(run_id, sequence)` of
the event table is unique, and that index is the engine's optimistic lock. What it covers
depends on which row a call reads last, and most of the engine's modules are about that.

The promotion services interact through files that are created once and through the hosted
branches. There the questions are who created a record first, what a process may conclude
from one it finds, and what the hosting service did with a request nobody has an answer to.

### Transactions

The SQLite driver begins a transaction at the first INSERT or UPDATE. The SELECTs before it
are separate reads, each of the latest committed state, and the writes with everything after
them are one atomic step. SQLAlchemy updates only the columns a call changed. A service call
is therefore modelled as one step per read followed by one commit; a constraint failure, a
failed compare-and-swap, a busy timeout or a crash before the commit is a rollback.

### Files

A record file is written under a temporary name and linked or renamed into place, or it is
created empty and then written (the index files). The first kind appears complete or not at
all. Of the second kind a process that dies leaves a torn file, which every later reader
refuses. Each module says which kind it has. Digests are collision-free: the digest of a
record is modelled by the record itself.

## Modules

| Module | Models | Extends |
|---|---|---|
| `Lifecycle` | the transition tables | |
| `RunHistory` | one run row under concurrent calls | `Lifecycle` |
| `BudgetLedger` | `BudgetService` | |
| `ActivityLeases` | activity journal, scheduler loop, operators | `Lifecycle` |
| `Campaign` | the three handlers, composed with sessions, budgets, activities, evidence and the provider | `Lifecycle` |
| `AdmissionLineage` | evidence, reviews, lineage | `Lifecycle` |
| `IntegrationPromotion` | `promote` with journal, lease and hosting service | |
| `IntegrationCampaignContracts`, `IntegrationCampaign` | a live campaign over the promotion, its journal and its pull request | |
| `RollbackContracts`, `LiveRollback` | rollback, live rollback and its completion | |
| `PromotionPolicy` | pure checks: promotion policy and campaign quality | |
| `IntegrationDrills` | the eight failure drills and the attester drill, with the provider's checks of protection and check runs | `RollbackContracts` |
| `DryRunPromotion` | the dry-run controller and its rollback bundles | `PromotionPolicy` |
| `SyntheticValidation` | one validation ref from trigger to cleanup | |
| `OfflineDrillContracts`, `OfflineDrill` | controller root, frozen test matrix, report and package | |
| `MutationSlots` | the stage executor, file by file, and the target slot | |
| `GraduationContracts`, `GraduationJournal` | the records of a graduation and the predecessors each needs | |
| `ProtectedMain` | the hosted repository with its merge queue, as the read-only provider sees it | |
| `MainGraduation` | both coordinators, composed with the journal and the repository | `ProtectedMain`, `GraduationJournal` |
| `GuardedMerge` | abstract: what a graduation promises | |
| `LedgerContracts`, `GraduationLedger` | the graduation ledger | |
| `ExactCasContracts`, `ExactCas`, `ExactCasEvidence` | the exact compare-and-swap, and what is kept of its one PATCH | |
| `HostedParsers`, `HostedReads` | the read-only observers of the hosted repository | |
| `...Proofs` | theorems | their component |
| `MC...` | instances for TLC | one component, or several side by side |

Some `MC` modules hold components that do not interact, so that one run asks one kind of
question of all of them. Such a module has a variable (`live`, `team`, `cast`, `crew`) chosen
in its `Init` that says which component moves in a behaviour; the others stand still.

### RunHistory

`run`, `events` and `idem` are the tables; `call` is what each client has read. `transition`
is `CheckIdempotency`, `ReadForTransition` and `CommitTransition`; every other service call
that appends an event is `ReadForWrite` and `CommitWrite`, with the targets its own code
allows (`WriteTargets`). `claim_next` reads the run row inside its write transaction, so
`ClaimEvent` is one step. An event records the states before and after it, which the code
does not store; the properties need them.

### BudgetLedger

A call reads its reservation, the ledger and the run row, then commits one of
`CommitReserve`, `CommitComplete`, `CommitRelease`; observe and hold (`CommitUnguarded`) write
before they read the run row. The ten usage dimensions are added and compared one by one in
the code, so the model has one.

`began` is a history field that no guard reads: the run's event number at the call's first read. It
tells the calls whose reads an event tore apart. Those can break the ledger (see below), so the
properties say that nothing else does: `BalanceLostByTornReads`, `LimitLostByTornReads`.

### ActivityLeases

One run, its activities, workers that run the scheduler's loop, and operators that pause,
resume, cancel and resolve cases. `live` abstracts `lease_expires_at`: `ExpireLease` may end
a lease at any time and a heartbeat renews it. `SelectActivity` takes any eligible activity
where the code takes the oldest, which allows more behaviours. A worker may stop at any
point. `began` is a history field as in `BudgetLedger`: the event number at the activity read of a
completion or a mark, by which `FencedCompletion` tells torn calls from the others.

### Campaign

One pass of variation, evaluation and admission. The worker's `pc` walks through the calls of
the handler in the order of the code; each call is one step, because the modules above open
the calls up. The exception is `commit_admission`, whose reads and commit are two steps
(`ReadForAdmission`, then `CommitDecision` or `CommitAdmission`), since a cancellation may fall between
them: an admission compares and swaps the run, the other decisions do not. `Fails` stands for any call that raises; `WorkerStops` for the death of the
process, which also loses its provider clients; `Claim` may take over an activity that is
running, after which the previous worker carries on, as in the code. `provider` is external:
threads and turns as `inspect`, `start_turn`, `events` and `wait` see them. The frozen
evaluation estimate is chosen in `Init`, so that one run covers an evaluation that fits the
budget and one that is refused.

### AdmissionLineage

Two or more callers of `EvidenceService` and `ReviewService`. The statistics that say whether
a candidate is an improvement are not modelled: a decider may ask for any outcome, and a
refusal is a `Rollback`. Policy and evaluation records are never deleted, so the reads of
them that follow the candidate's read are one step with it. `RunMoves` is every other writer
of the run row. A decision cites policy decisions, of which the code asks only that they are
recorded, of whichever candidate: hence `policyRecorded`, one flag for the run.

### IntegrationPromotion and IntegrationCampaign

`promote` as a process with one step per durable read or write: receipt, intent, evidence,
lease, evidence record, replay, intent record, fence, observation, lease guard,
authorization, request, answer, reconciliation of pull request and target, receipt, release.
A record is its lease identity; the number of a call is the random identity the code draws.
The branch is the number of its commits, and commit *n* has parent *n - 1*. `Land` and
`OthersMerge` are the hosting service and its other users. A request may be answered, be lost, land
late, or land with its answer lost.
`Fails` is an error or crash at any step (the code's `finally` does not run in a crash, so a
crash leaves the lease), and `Unconfirmed` a record that exists although its directory could
not be synced. Release reads, compares and unlinks the lease file in two steps, as the code
does. Operators remove a lease only when nobody works on its operation and nothing of it is
pending.

`IntegrationCampaign` has processes that plan, run, finalize and resume the campaign of one
published candidate. The marker in the pull request's body names the operation it is bound
to. The promotion inside is the sequence of its durable records.

### The services that keep evidence

Each of these is a set of processes over one create-once journal, with one action per read or
write of a file and per request, and with deaths in between.

- `LiveRollback`: validation, authorization, intent, promotion, receipt, plan, execution and
  completion of one rollback. Promotion and validation are what they promise their callers.
- `SyntheticValidation`: `trigger` and `cleanup` of one ref. The create claim is a directory,
  then a record, then an index; a create request may be processed after its sender died, and others
  may move the ref, also to the exact commit.
- `IntegrationDrills`: the eight cases. The providers of a case live in the process that
  executes it, with their counts; the journals are shared. The authorization of a merge is durable
  (`Authorize`) before its mutation (`Merge`), and a process may die between the two.
- `OfflineDrill`: preparation of the controller root, the frozen test matrix, its report and
  package, over a worktree that changes. The test process is an external outcome.
- `DryRunPromotion` with `PromotionPolicy`: a dry run reads the protected repository twice and
  writes one bundle; `replay` judges a bundle again, one of the store or one its caller brings
  (`Brought`). `PolicyAllowsExactly` compares the ordered
  tests of `classify` with the set of gates they are to enforce.
- `GraduationLedger`: a service call reads and derives (one step), the journal checks everything
  again (a second), and creates the record's file unless there is one (a third). The journal's lock
  is one of a process, so the steps of two processes interleave. Each service has a state cache.

### MutationSlots

The stage executor and the part of the journal it stands on, one action per access to the
slot, to an index or to the provider. `identity` are the three identity indexes, `intents`,
`owners`, `receipts`, `fences` and `resolutions` the records, `receiptIdentity` and
`resolutionIdentity` the indexes that make receipts and resolutions unique, `slot` the active
directory of the target and `closed` its history. Two stages stand for the six: the last of
`prepare` and the release of `complete`. A request that left a runner takes effect at any later time.

### MainGraduation, GuardedMerge

`J` is the journal (a function from the kinds recorded so far to records), `S` the durable stages,
`ProtectedMain` the hosted repository. `pc` walks through `prepare` and `complete`; a stage is
intent, owner marker, request, receipt and read-only recovery, as `MutationSlots` shows in
detail. `GuardedMerge` is the abstract promise: one claim, one release request under it, one merge
of the group it names, closing after the merge. The refinement mapping takes `tip` from `main`,
`claimed` from the durable claim, `requested` from the release requests sent, `merged` from the
merge and `closed` from the completion package.

### ExactCas, ExactCasEvidence, HostedReads

`ExactCas` has controllers that run and recover one compare-and-swap of main: lease,
authorization, intent, dispatch marker, PATCH, receipt, post-state, reconciliation, completion.
`ExactCasEvidence` is what collectors keep of the answer. `HostedReads` has four observers that
authenticate facts of several resources one GET after the other while the resources change; the
checks of each answer are the operators of `HostedParsers`.

## Runs

| Run | Question and answer |
|---|---|
| `admission_lineage` | Two callers, two candidates: the lineage is one path from the seed to the champion, an admitted candidate has its evidence, and a review is approved exactly when its quorum is. Two calls, with claims, on one run row: no update is lost, the events are numbered without gap, chain along the transition table and end in the row's state; a key has one effect. |
| `campaign` | One worker, restarted anywhere: one provider turn, a ledger that balances, completions that recovery can find, a final exhaustion, no admission after a cancellation. The same (except the one turn) when a second worker takes over and the first carries on. Two budget callers with every read split: the ledger leaves its reservations, or its limit, only when a call with torn reads commits. Two workers and two operators with every read split: an epoch has one owner, a live lease is not taken, a stop settles only at a safe boundary, everything that waits for reconciliation has an open case, and only torn calls complete or give up what they do not hold. |
| `campaign_stages` | Refutes that the three stages always drain (below). |
| `budget_overshoot` | Refutes that reservations never pass the hard limit (below). |
| `completion_fence` | Refutes that a completion requires the current epoch (below). |
| `pausing` | Refutes that the activities of a pausing run reach a safe boundary (below). |
| `hosted_branches` | Promotions, two processes on one operation with answers lost, or one process that may die on two: the merge is requested once, a success receipt is backed by an exact squash, a refusal is final. Two campaigns of one candidate: one merge, and a package only of that merge. Two controllers of the exact compare-and-swap: at most one PATCH, and receipts, post-states and completions that are true. Collectors: a conclusion only from consistent evidence. Observers: a configuration that held as a whole at one moment. |
| `promotion_ambiguity` | Refutes that an ambiguous merge keeps its lease (below). |
| `graduation` | The stage executor under racing runners, stops and late effects: a stage is sent once, a release follows its enqueue, and an unsettled request keeps the slot. One whole graduation against a repository that moves: what is merged was claimed, what is closed was merged, and the whole implements `GuardedMerge`. |
| `evidence_services` | The six services above, each under two racing processes that may die: counts that are those of the entries, records that never change, results about the pinned source, requests sent once, each record resting on the one before it, a policy that allows exactly its gates, bundles authorized over the snapshot they name. |
| `ledger_boundary` | Refutes that boundary evidence can always be closed (below). |
| `validation_quarantine` | Refutes that only a preseeded ref is quarantined (below). |

Every property of a passing run has a mutant in `PROJECT.json`: a change of one mapped definition, of the
kind a slip in the code would make, under which TLC refutes the property.

### Bounds

- `MaxEvents` (6 in `RunHistory` and `BudgetLedger`, 10 in `ActivityLeases`) counts committed events; the
  creation of a prepared run has taken three. Six reach every run state from creation, including a
  terminal one, with a stale call still in flight; three budget events are a reservation, its
  completion and a retry of it, or two reservations and a foreign event between the reads of one;
  seven lease events are an enqueue, a claim, a takeover, a mark, a resolution and a second claim.
  The violation runs take what their counterexample needs (7 to 12).
- `MaxCases` bounds the reconciliation cases, which the run needs one after the other.
- `Limit` 1, `Amounts` 0 and 1: the limit is met exactly, missed by one, and met with an empty amount.
- `MaxClaims` 5 for one worker in `campaign`: three stages and two restarts; 2 when a second worker takes
  over. `MaxThreads` 2: a second thread is what the property must exclude. A reported usage of 5
  exceeds the limit of 4.
- `MaxRevision` 2: both candidates admitted, one after the other. The run leaves out the
  outcomes reject and quarantine, which take the same action as `review_required`.
- `MaxCalls` 4 and `MaxCommits` 3: the call that merges, a concurrent one, and a retry of each;
  the base, the squash and a push of others on top of it or in its place.
- The *disturbances* (ticks of the clock, deaths, lost answers, edits by others, revocations) are counted
  together where a run is about their combinations: at most two in a behaviour of `MainGraduation`,
  `ExactCas`, `HostedReads`, `IntegrationCampaign`, `OfflineDrill` and `DryRunPromotion`. Each of them,
  and each pair, happens; every mutant needs at most two.
- The casts of `hosted_branches` and the teams of `graduation` give two processes one operation or one process
  two operations. For `IntegrationPromotion` and `MutationSlots` the proofs below cover the rest.
- Two actors per kind: every property here compares at most two of them. Symmetry is used for
  clients, workers, keys, digests, candidates and operations, which no definition orders, and never in
  the run of a liveness property.
- `CHECK_DEADLOCK FALSE` stands where campaigns, promotions or bounded histories end.

### Fairness

Only the run `pausing` assumes any (`FairSpec` of `ActivityLeases`), so that its counterexample is not
one in which everybody simply stops. A worker that is not killed polls and gets on with its loop,
so its reads, commits and refusals are weakly fair. That its handler returns or raises is an
assumption on the external harness, which the scheduler awaits without a limit of its own; heartbeats
switch that step on and off, hence strong fairness. An operator finishes the calls it began, and
leases expire. Nothing is assumed of crashes or of requests: nobody has to repeat a pause, and
`settle_control_request` is called by the pause and cancel commands only.

## Proofs

TLAPS proves these for every value of the constants. The assumptions are the `ASSUME`s of the
component modules, all of them about the kind of the constants (bounds and amounts are naturals,
a missing value or record is not a member of the set it is missing from), and what a theorem
names itself: `BudgetConstants`, `LeaseConstants` and `ConstantsOK`, of the same kind, for the budget,
the leases and a graduation, and a single worker for the one turn.

**`RunHistoryProofs`**: `TypeCorrect`, `EventsAreContiguous`, `HistoryIsAPath`,
`KeysHaveOneEffect`, `TerminalStatesAreFinal`. None of the properties is inductive alone: a
commit writes what its call has read. `Inv` adds `SnapshotsAgree` (a snapshot with the current
event number has the current state), `MovesLegal` (the move a call is about to make is legal from
the state it read) and `KeysRecorded` (an event under a key has its idempotency row). A commit
succeeds only with the next event number (the unique index), so its snapshot is fresh
(`FreshSnapshot`), and appending then keeps the path (`AppendKeepsHistory`). A terminal state has
no legal successor, so the last theorem follows from the first ones.

**`BudgetLedgerProofs`**: `TypeCorrect`, `ColumnsStayWithinLimit`, `LimitHolds`, `SettledHolds`, for every
interleaving of reads, commits and foreign events. `Inv` adds `CallsCurrent`: what a call has read of
its reservation and of the ledger is what they still are, as long as no event was recorded since it
began. A commit needs the next event number, so a call whose reads are not torn writes on what it
read, and the limit and a settled reservation hold as they would sequentially. For the calls that are
torn there remains `ReadsWithinLimit`: each column of what they read was within the limit, hence
each column they write is, and no difference goes below zero.

**`ActivityLeasesProofs`**: `Invariance`, `WaitingHasCase`, `LeasesExclusive`, `LiveLeaseStays`,
`SettledAtBoundary` and `ResultsFenced`, for any number of activities, workers and operators whose calls
read and write in any order and stop anywhere. `Inv` adds to the properties:

- `CaseIds` and `OperatorFact`, for resolutions: a new case has an id that no case has and no
  operator has read, and a case that an operator has read still exists;
- `ReconcilingIsWatched`: a waiting activity has an open case which no operator is about to resolve
  from a reading of the activity in another state. `resolve_reconciliation` writes the activity's
  state only if it differs from the one it read, so a stale call resolves a case and leaves the
  activity waiting; the case of the mark that made it wait is then another one, and open;
- `WorkerFact`: as long as no event was appended since the activity read, what the call checked is
  still so. Every write that could spoil it appends an event, and a heartbeat changes only the expiry.
  The commit of a call that is not torn therefore finds the lease it checked;
- `OperatorFact`, for a settlement whose event number is still free: no activity is running. A claim
  appends an event, so none came after the boundary check.

**`AdmissionLineageProofs`**: `LineagePath`, `AdmissionEvidence`, `ReviewsNeedQuorum`, for any
number of callers, candidates and reviewers. `PathInv` is the path
with the champion at its end; the commit compares the champion with the one its decision expects
and swaps it in the same step, so an entry is added behind the entry it was decided against.
`EvidenceInv` adds that lineage entries and admitting decisions come and go together and that a
call about to admit has seen a passing evaluation of its candidate and a policy record of some
candidate, which are never removed.
`ReviewInv` adds that a reviewer has one vote and that votes are on reviews that exist, so that counting
approvals is counting reviewers (`ApprovalsAreReviewers`).

**`CampaignProofs`**: `Invariance`, `LedgerBalanced`, `CompletedRecovers`, `ExhaustionFinal`,
`CancelledAdmitsNothing`, for any number of workers that stop anywhere and carry on without their
lease, and for every limit, estimate and usage. The properties constrain each other, so the
invariant is the conjunction of what each relies on:

- `HandlersShaped`: which handler each step belongs to, and at which steps it has a thread;
- `LedgerInv`: the ledger, reservation by reservation;
- `SessionInv`: a session without a result has an active reservation. This is why an
  operator's resolution never returns an estimate twice: a finished session refuses it;
- `FinalInv`: the attempt is recorded once, so one worker at most is between the attempt and
  the completed invocation, and only after the completion does anybody charge or settle;
- `StageInv`: nobody works on an evaluation or an admission before the evaluation was claimed.
  The settlement refuses claimed evaluations, so after it there is nobody to revive anything;
- `ExhaustionInv`: `ExhaustionIsFinal`, and that the invocation was completed before.

`CancelledAdmitsNothing` needs none of it: the compare-and-swap of the commit tests the run's state.

`SingleWorkerOneTurn` is `OneTurn` for one worker process, restarted any number of times. Its
invariant `TurnInv` says that turns exist on the saved thread only and that a worker prepares a thread
only while none is saved. With two workers it is false (below), and TLC's counterexample is the
schedule in which a worker without its lease saves its own thread last.

**`IntegrationPromotionProofs`**: `TypeCorrect`, `MergesOnce`, `SuccessExact`, `RefusalFinal`, for
any number of processes, operations, crashes and lost answers. The lease alone does not give them,
since operators remove leases and release is not atomic. What gives them is that records are created
once. The first lease evidence fixes one lease identity for an operation, and no other call ever
holds it (`IdsDistinct`, `OwnerUnique`), so that call alone can go from intent to authorization to
request (`Chain`). What a call believes it has read (`Known`) survives every step of the others
(`Undisturbed`, `KnownKept`): they create records but never change one, and submit or refuse only
operations they own. That merges of different operations follow one another is not among the
theorems, because it does not hold (below).

**`MutationSlotsProofs`**: `Invariance`, `DispatchedOnce`, `SlotKeptUntilSettled`,
`MutationsAreSerial`, for any number of runners and operations that stop between two files and
whose requests land late. `IdentityInv` says that an index entry is an intent of its own stage,
`CallsShaped` what a runner carries and has made durable by each step, `DispatchInv` that only the
intent all three indexes name has an owner marker, and that the marker's creator alone may still send,
`EffectInv` that what is recorded as having happened did happen and that a release is worked on only
after its enqueue happened, and `SlotInv` that every recorded intent has the slot or is settled. The slot
changes hands only when its holder's intent is settled, and what is settled stays settled. This
gives `MutationsAreSerial`: of all recorded mutations of one branch at most one is unsettled.

**`MainGraduationProofs`**: `ImplementsGuardedMerge`, `Invariance`, `SentOnce`, `SentInOrder`,
`MergeWasClaimed`, `ClosedIsTrue`, for every bound on the clock, on the generations of the queue
entry, on the edits of the repository and on the stops of the coordinators. The hypothesis
`ConstantsOK` says that the bounds are naturals and that a missing check run is no check run. The
first theorem is the refinement: every action keeps `Inv` and is, under the mapping, a step of
`GuardedMerge` or a stutter (`Refines`), one lemma per action. `Inv` is needed because the promise
is about the repository, while the code decides on records:

- `JournalInv`: a record agrees with the records it was published over, since none ever changes;
- `StageInv`: a stage that was sent has its owner marker, and the release has the claim before it and
  an authorization that had not run out;
- `HostedInv`: what the repository shows follows from what was sent: a merge from the release of the
  group that was held;
- `EffectInv`: an outcome recorded as applied did apply;
- `CallInv`: the stage a call works on, and what of it is durable at each of its steps. Only the step
  after the creation of the owner marker sends, and a restarted call never comes back to it.

Each inductive invariant was an invariant of the component's TLC run before it was proved.

**Only model-checked.** `BalanceLostByTornReads`, a sum over any set of reservations, because facts about
folds need induction over data (`LedgerConserved` has two reservations and is proved). The promotion campaign, the exact
compare-and-swap, the hosted reads and the evidence services have no proofs yet.
`PolicyAllowsExactly` compares two definitions over bounded inputs.

## Where the code departs from its documents

Seven have a run:

- `StagesDrain`: recovery completes an evaluation when every record is stored, without
  enqueuing the admission that `execute` enqueues after the records (`campaign.py:626`). A worker
  that stops between the two leaves an evaluated candidate that nobody admits.
- `AmbiguityKeepsLease`: a call that finds a receipt releases the matching lease whatever the
  outcome, `reconciliation_required` included (`integration_promotion_service.py:157`). After one
  retry a second operation can merge while the first request may still land.
- `QuarantinedIsPreseeded`: `trigger` reads the authorization before the ref
  (`synthetic_validation_service.py:195`). A ref that a second trigger authorized and created in
  between is quarantined as preseeded.
- `ReservationsWithinLimit`: `reserve` reads the ledger before the run row that guards it
  (`budget_service.py:49`). A reservation committed between the reads is overwritten, and the limit is
  passed. The implementation packet (v3, lines 544 and 1128) excludes it; line 548 excludes that a
  retried completion charges twice, which the same window allows (`:95`).
- `AcceptedCompletionsCurrent`: the lease is checked on a row read before the run row
  (`activity_service.py:163`), so a takeover between the reads is not noticed, and the old epoch's
  result is stored.
- `PausingReachesBoundary`: a settlement waits for every running activity, and expired ones are handed
  out in running runs only (`run_service.py:280`, `activity_service.py:99`). The activity of a dead worker
  keeps the run pausing. A pause that finds an activity at work is settled only by another request.
- `BoundaryClosable`: the ledger's lock is one of a process
  (`adapters/artifacts/main_graduation_ledger_journal.py:110`), and what the journal checks may be
  outdated when the record is created (`:822`). A stage created behind boundary evidence makes the
  observation of the reset fail for good. The terminal fences hold within one process only; what
  holds between processes is `LedgerHolds` and `LedgerKept`.

The others are schedules TLC showed on these models while they were built; they can be followed in
the actions.

- Claim: the run's state is checked by the SELECT and not by the UPDATE (`activity_service.py:107`), so
  a run paused in between has a running activity.
- Cancellation: the run's state is read before the transaction (`evidence_service.py:192`), and only an
  admission tests it again. A rejection, a quarantine or a request for review is recorded after a
  cancellation that came in between.
- Policy evidence: a decision's policy ids must be recorded, of whichever candidate or run
  (`evidence_service.py:286`), so an admitted candidate need not have a policy decision of its own.
- Admission: `commit_admission` assigns a candidate's state without its transition table
  (`evidence_service.py:214`) and `record_evaluation` moves any candidate back to evaluating (`:147`),
  so an admitted state is not final. The review gate looks at a state read before the transaction
  (`:219`), so an admission in flight passes a decision that asks for review.
- Review: an approval in flight overwrites a rejection (`review_service.py:155`).
- Campaign: a failure after `SessionService.finish` and before the completed invocation goes to a
  case that cannot be resolved, since the finished session refuses the transition
  (`campaign.py:546`). A completion adopted from `inspect` is charged without the usage reported
  in the lost stream (`campaign.py:314`). A worker that lost its lease between `prepare` and saving
  the thread starts a second turn (`campaign.py:274`).
- Cancel: cancelling a blocked run leaves its case open and its reservation held
  (`api/app.py:361`), which the provenance verifier reports as an error.
- Release: the lease file is compared and then unlinked by path (`promotion_journal.py:188`), so the
  slower of two releases can remove a lease acquired in between. With this, with the release of an
  ambiguous merge above and with leases that operators remove, the lease does not serialize merges, as
  `docs/adr/0009-pr-native-integration-promotion.md:22` says it does; one merge per operation and
  exactness rest on the create-once records.
- Drills: a process of case 7 that dies between the durable authorization and the mutation
  (`integration_drill_service.py:390`) leaves a promotion that the next run reconciles as already
  applied, with no mutation counted.
- Rollback: a `promote` that fails before its request ends as invalid
  (`integration_promotion_service.py:294`), and a rollback records that as rejected
  (`integration_rollback_service.py:534`) although the merge of a concurrent call may land.
- Dry run: the rollback bundle's authorization is recorded before the final staleness check
  (`promotion_service.py:625`), so it outlives a run that is refused as stale.
- Exact compare-and-swap: a controller that loses the race for the marker is answered as rejected
  although the winner's request may succeed, and a marker whose writer died before the receipt
  is never resolved by recovery alone.

## Not modelled

`PROJECT.json` lists every component with its reason. Left out are the artifact store, whose
collection nothing in the source calls; the main rollback coordinator, which cannot get past its hold
(`main_rollback_coordinator.py:1158` binds an attestation of the source operation, and the journal
asks for one of the rollback operation); the durability probe and the construction of git trees, which
are I/O; search supervision and the statistics over samples, whose verdicts are inputs of the
models; harnesses, sandboxes, model gateways, queries, the reference scenario and the command line,
which share no state; and `open_reconciliation`, which nothing in the source calls. Parsers and
schemas appear as checks of the fields that the properties tell apart.
