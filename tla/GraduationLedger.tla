-------------------------- MODULE GraduationLedger --------------------------
(***************************************************************************)
(* The C6 graduation ledger: MainGraduationActivationService,               *)
(* MainGraduationLedgerService and MainGraduationLedgerJournal.  Service    *)
(* instances of several processes share one journal directory; the          *)
(* journal's lock is one of a process.  A service call reads and derives    *)
(* its record (one action), its journal call checks everything again        *)
(* (another), and then creates the record's file, unless there is one (a    *)
(* third).  In between other instances write, the clock moves, or the       *)
(* instance stops.  The injected authority verifier accepts what is well    *)
(* formed.                                                                  *)
(***************************************************************************)
EXTENDS LedgerContracts, Functions, TLC

CONSTANTS
  Services,        \* instances of the ledger service
  Authority,       \* the controller authority in force
  FreshnessWindow, \* freshness_window of the activation service
  Watermarks,      \* scheduler watermarks an activation may start from
  Verdicts,        \* what the classifier finds: empty, ordinary
  Outcomes,        \* outcomes a campaign ends with
  MaxSequence,     \* bound on scheduler sequences, for model checking only
  MaxNow           \* bound on the clock, for model checking only

VARIABLES
  now,     \* the trusted clock
  ledger,  \* the journal: one field per kind of record
  calls,   \* the journal call each service makes, and whether its checks have passed
  cache    \* _state_cache of each service

vars == <<now, ledger, calls, cache>>

NoCall == [op |-> "none", checked |-> FALSE]

Empty ==
    [activation |-> NoRecord, entry |-> << >>, classification |-> << >>,
     outcome |-> << >>, transition |-> << >>, boundary |-> NoRecord,
     reset |-> NoRecord, package |-> NoRecord]

Active == ledger.activation # NoRecord

First == ledger.activation.watermark + 1

Genesis == main_ledger_genesis_state(ledger.activation.watermark)

-----------------------------------------------------------------------------
(* What the journal reads back.                                            *)

Classified(i) == i \in DOMAIN ledger.classification

Eligible(i) == Classified(i) /\ ledger.classification[i].class = "eligible"

(* Classification, outcome where one is due, and transition are durable.   *)
Resolved(i) ==
    /\ Classified(i) /\ (Eligible(i) => i \in DOMAIN ledger.outcome)
    /\ i \in DOMAIN ledger.transition

(* Replay stops at the first sequence that is not resolved.                *)
Processed == {i \in DOMAIN ledger.entry : \A j \in First .. i : Resolved(j)}

CurrentAccumulatorState ==
    IF Processed = {} THEN Genesis ELSE ledger.transition[Max(Processed)].result

PriorState(i) == IF i = First THEN Genesis ELSE ledger.transition[i - 1].result

HasPriorState(i) == i = First \/ (i - 1 \in DOMAIN ledger.entry /\ Resolved(i - 1))

(* No new record after a durable terminal fence.                           *)
FreshMutationAllowed ==
    /\ ~CurrentAccumulatorState.complete
    /\ ledger.package = NoRecord /\ ledger.boundary = NoRecord /\ ledger.reset = NoRecord

(* Boundary evidence is an observation of the index: the processed prefix   *)
(* ends right before the expected sequence in the state it names, and       *)
(* nothing from there on has been touched.                                 *)
ValidateBoundaryObservation(b) ==
    LET seqs == DOMAIN ledger.entry  i == b.expected IN
    /\ i >= First /\ \A j \in First .. (i - 1) : j \in seqs /\ Resolved(j)
    /\ b.state = PriorState(i)
    /\ b.envelope = IF i \in seqs THEN ledger.entry[i] ELSE NoRecord
    /\ \A j \in seqs : j >= i =>
         j \notin DOMAIN ledger.classification \cup DOMAIN ledger.outcome
                    \cup DOMAIN ledger.transition

BoundaryPredecessor(r) ==
    r.prior.last = r.violation.expected - 1 /\ r.prior = PriorState(r.violation.expected)

PackageWriteAllowed ==
    /\ ledger.boundary # NoRecord => ledger.reset # NoRecord
    /\ CurrentAccumulatorState.complete \/ ledger.reset # NoRecord

PackageClosure(p) ==
    /\ p.activation = ledger.activation
    /\ p.submissions = ledger.entry
    /\ p.boundary = ledger.boundary /\ p.reset = ledger.reset
    /\ \A i \in Prefix(p) :
         /\ Classified(i) /\ p.classifications[i] = ledger.classification[i]
         /\ Eligible(i) => p.outcomes[i] = ledger.outcome[i]
         /\ i \in DOMAIN ledger.transition /\ p.transitions[i] = ledger.transition[i]
    /\ p.status = "boundary_reset" => ValidateBoundaryObservation(p.boundary)

-----------------------------------------------------------------------------
(* The service's view: _current_state, with its cache.                     *)

FullReplay ==
    IF ledger.reset # NoRecord THEN ledger.reset.result ELSE CurrentAccumulatorState

CachedState(s) ==
    LET c == cache[s] IN
    IF c = NoRecord THEN FullReplay
    ELSE IF ledger.reset # NoRecord
         THEN IF ledger.reset.prior = c THEN ledger.reset.result ELSE FullReplay
         ELSE IF c.complete \/ c.last + 1 \notin DOMAIN ledger.transition THEN c
              ELSE FullReplay

CurrentState(s) == CachedState(s)

EnsureNotTerminal(s) ==
    /\ ~CurrentState(s).complete
    /\ ledger.boundary = NoRecord /\ ledger.package = NoRecord /\ ledger.reset = NoRecord

MutationNow ==
    LET a == ledger.activation IN
    /\ a.authority.from <= now /\ now <= a.authority.until
    /\ a.cutoff <= now /\ a.at <= now

NextState(prior, class, outcome) ==
    LET success == outcome # NoRecord /\ outcome.outcome = "success" IN
    IF class = "excluded" THEN [prior EXCEPT !.last = @ + 1]
    ELSE [prior EXCEPT !.last = @ + 1,
                       !.streak = IF success THEN @ + 1 ELSE 0,
                       !.successes = IF success THEN @ + 1 ELSE @,
                       !.failures = IF success THEN @ ELSE @ + 1,
                       !.complete = success /\ prior.streak + 1 = Threshold]

BoundaryState(prior) ==
    [prior EXCEPT !.streak = 0, !.boundaries = @ + 1, !.complete = FALSE]

Idle(s) == calls[s] = NoCall

Reads(s) == cache' = [cache EXCEPT ![s] = CurrentState(s)]

(* The service has its record and turns to the journal.                    *)
CallsJournal(s, op, record) ==
    /\ calls' = [calls EXCEPT ![s] = [op |-> op, record |-> record, checked |-> FALSE]]
    /\ UNCHANGED <<now, ledger>>

(* The journal call is over, its record written or not.                    *)
Ends(s) == calls' = [calls EXCEPT ![s] = NoCall]

(* The call's checks pass, now, and the file is still to be created.       *)
Checked(s) ==
    /\ ~calls[s].checked
    /\ calls' = [calls EXCEPT ![s].checked = TRUE]
    /\ UNCHANGED <<now, ledger, cache>>

(* Without the exclusive creation of the file.                             *)
OverwritesSequence(s, kind, seq) == calls[s].checked

(* A record of a sequence whose checks passed is created exclusively: a    *)
(* hard link, or a file opened for exclusive creation.                     *)
CreatesSequence(s, kind, seq) == calls[s].checked /\ seq \notin DOMAIN ledger[kind]

(* Likewise a record of the whole ledger.                                  *)
CreatesRecord(s, kind) == calls[s].checked /\ ledger[kind] = NoRecord

(* The end of a call for a sequence: what is there stays.                  *)
Writes(s, kind, seq, record) ==
    /\ ledger' = IF CreatesSequence(s, kind, seq)
                 THEN [ledger EXCEPT ![kind] = (seq :> record) @@ @] ELSE ledger
    /\ Ends(s)

-----------------------------------------------------------------------------
(* Activation.                                                             *)

ActivationValues(authority, proof, capability, watermark) ==
    [authority |-> authority, proof |-> proof, capability |-> capability,
     watermark |-> watermark, at |-> now,
     cutoff |-> Max({authority.from, now - FreshnessWindow})]

(* MainGraduationActivationService.activate, up to the ledger: with no      *)
(* activation durable, the evidence must be fresh, of one authority and of  *)
(* one release issuer.                                                     *)
Activate(s, proof, capability, watermark) ==
    LET a == ActivationValues(Authority, proof, capability, watermark) IN
    /\ Idle(s) /\ ~Active
    /\ capability.issuer = proof.issuer
    /\ a \in MainLedgerActivation
    /\ UNCHANGED cache
    /\ CallsJournal(s, "activation", a)

(* The ledger's own activate and record_activation: the window is checked   *)
(* again, and the first activation stays.                                  *)
RecordActivation(s) ==
    LET a == calls[s].record
        accepted == ~Active /\ a.authority.from <= now /\ now <= a.authority.until IN
    /\ calls[s].op = "activation"
    /\ \/ accepted /\ Checked(s)
       \/ /\ calls[s].checked \/ ~accepted
          /\ ledger' = IF CreatesRecord(s, "activation")
                       THEN [ledger EXCEPT !.activation = a] ELSE ledger
          /\ Ends(s)
          /\ UNCHANGED <<now, cache>>

-----------------------------------------------------------------------------
(* Submissions, classifications, outcomes, transitions.                    *)

Submit(s, seq, identity, content) ==
    /\ Idle(s) /\ Active
    /\ ~\E i \in DOMAIN ledger.entry :
          i = seq /\ ledger.entry[i].identity = identity /\ ledger.entry[i].content = content
    /\ EnsureNotTerminal(s)
    /\ seq = CurrentState(s).last + 1
    /\ MutationNow
    /\ Reads(s)
    /\ CallsJournal(s, "submission",
         [seq |-> seq, identity |-> identity, content |-> content])

(* Without the scan of the history for the same content.                   *)
SubmissionUnscanned(r) ==
    /\ r.seq > ledger.activation.watermark
    /\ r.seq \notin DOMAIN ledger.entry
    /\ FreshMutationAllowed
    /\ r.seq = CurrentAccumulatorState.last + 1

SubmissionAccepted(r) ==
    /\ r.seq > ledger.activation.watermark
    /\ r.seq \notin DOMAIN ledger.entry
    /\ FreshMutationAllowed
    /\ r.seq = CurrentAccumulatorState.last + 1
    /\ \A i \in DOMAIN ledger.entry :
         ledger.entry[i].identity # r.identity /\ ledger.entry[i].content # r.content

RecordSubmission(s) ==
    LET r == calls[s].record IN
    /\ calls[s].op = "submission"
    /\ \/ SubmissionAccepted(r) /\ Checked(s)
       \/ /\ calls[s].checked \/ ~SubmissionAccepted(r)
          /\ Writes(s, "entry", r.seq, r)
          /\ UNCHANGED <<now, cache>>

(* The classifier's verdict on the content, made exact by                   *)
(* _derive_classification.                                                 *)
DeriveClassification(submission, empty, ordinary) ==
    LET eligible == ~empty /\ ordinary IN
    [submission |-> submission, authority |-> ledger.activation.authority,
     class |-> IF eligible THEN "eligible" ELSE "excluded",
     empty |-> empty, ordinary |-> ordinary,
     reason |-> IF eligible THEN NoRecord ELSE IF empty THEN "empty" ELSE "nonordinary"]

Classify(s, seq, empty, ordinary) ==
    /\ Idle(s) /\ Active
    /\ seq \in DOMAIN ledger.entry /\ ~Classified(seq)
    /\ EnsureNotTerminal(s)
    /\ Reads(s)
    /\ CallsJournal(s, "classification",
         DeriveClassification(ledger.entry[seq], empty, ordinary))

RecordClassification(s) ==
    LET r == calls[s].record  i == r.submission.seq
        accepted == ~Classified(i) /\ FreshMutationAllowed IN
    /\ calls[s].op = "classification"
    /\ \/ accepted /\ Checked(s)
       \/ /\ calls[s].checked \/ ~accepted
          /\ Writes(s, "classification", i, r)
          /\ UNCHANGED <<now, cache>>

Outcome(s, seq, outcome) ==
    /\ Idle(s) /\ Active
    /\ Eligible(seq) /\ seq \notin DOMAIN ledger.outcome
    /\ EnsureNotTerminal(s) /\ MutationNow
    /\ Reads(s)
    /\ CallsJournal(s, "outcome",
         [classification |-> ledger.classification[seq], outcome |-> outcome,
          package |-> outcome = "success"])

RecordOutcome(s) ==
    LET r == calls[s].record  i == r.classification.submission.seq
        accepted == i \notin DOMAIN ledger.outcome /\ FreshMutationAllowed IN
    /\ calls[s].op = "outcome"
    /\ \/ accepted /\ Checked(s)
       \/ /\ calls[s].checked \/ ~accepted
          /\ Writes(s, "outcome", i, r)
          /\ UNCHANGED <<now, cache>>

(* advance: at most the next sequence, and only when it is terminal.       *)
Advance(s) ==
    LET state == CurrentState(s)  i == state.last + 1
        class == ledger.classification[i].class
        outcome == IF Eligible(i) THEN ledger.outcome[i] ELSE NoRecord IN
    /\ Idle(s) /\ Active
    /\ EnsureNotTerminal(s)
    /\ i \in DOMAIN ledger.entry /\ i \notin DOMAIN ledger.transition
    /\ Classified(i) /\ (Eligible(i) => i \in DOMAIN ledger.outcome)
    /\ Reads(s)
    /\ CallsJournal(s, "transition",
         [classification |-> ledger.classification[i], outcome |-> outcome,
          prior |-> state, result |-> NextState(state, class, outcome),
          reset |-> outcome # NoRecord /\ outcome.outcome # "success"])

TransitionAccepted(r) ==
    LET i == r.classification.submission.seq IN
    /\ MainLedgerAccumulatorTransition(r)
    /\ HasPriorState(i) /\ r.prior = PriorState(i)
    /\ i \notin DOMAIN ledger.transition
    /\ FreshMutationAllowed

(* What is durable after the attempt is the state the service goes on with. *)
RecordTransition(s) ==
    LET r == calls[s].record  i == r.classification.submission.seq IN
    /\ calls[s].op = "transition"
    /\ \/ TransitionAccepted(r) /\ Checked(s)
       \/ /\ calls[s].checked \/ ~TransitionAccepted(r)
          /\ Writes(s, "transition", i, r)
          /\ cache' = IF i \in DOMAIN ledger'.transition
                      THEN [cache EXCEPT ![s] = ledger'.transition[i].result] ELSE cache
          /\ UNCHANGED now

-----------------------------------------------------------------------------
(* The boundary.                                                           *)

BoundaryReset(b, state) ==
    [prior |-> state, violation |-> b, result |-> BoundaryState(state)]

(* record_boundary_violation with no evidence durable.                     *)
BoundaryViolation(s, kind) ==
    LET state == CurrentState(s)  i == state.last + 1 IN
    /\ Idle(s) /\ Active
    /\ EnsureNotTerminal(s) /\ MutationNow
    /\ Reads(s)
    /\ CallsJournal(s, "boundary",
         [authority |-> ledger.activation.authority, expected |-> i, state |-> state,
          kind |-> kind, at |-> now,
          envelope |-> IF i \in DOMAIN ledger.entry THEN ledger.entry[i] ELSE NoRecord])

(* ... and with evidence that a stopped call left: only the reset is due.   *)
RecoverBoundary(s) ==
    LET state == CurrentState(s) IN
    /\ Idle(s) /\ Active
    /\ ledger.boundary # NoRecord /\ ledger.reset = NoRecord
    /\ ~state.complete /\ ledger.boundary.state = state
    /\ Reads(s)
    /\ CallsJournal(s, "reset", BoundaryReset(ledger.boundary, state))

EvidenceAccepted(b) ==
    /\ ledger.boundary = NoRecord
    /\ FreshMutationAllowed
    /\ ValidateBoundaryObservation(b)

(* The same violation that another service recorded is adopted.            *)
RecordBoundaryEvidence(s) ==
    LET b == calls[s].record
        durable == IF CreatesRecord(s, "boundary") THEN b ELSE ledger.boundary
        adopted == durable # NoRecord /\ durable.kind = b.kind /\ durable.state = b.state IN
    /\ calls[s].op = "boundary"
    /\ \/ EvidenceAccepted(b) /\ Checked(s)
       \/ /\ calls[s].checked \/ ~EvidenceAccepted(b)
          /\ ledger' = [ledger EXCEPT !.boundary = durable]
          /\ calls' = [calls EXCEPT ![s] =
               IF adopted
               THEN [op |-> "reset", record |-> BoundaryReset(durable, b.state),
                     checked |-> FALSE]
               ELSE NoCall]
          /\ UNCHANGED <<now, cache>>

ResetAccepted(r) ==
    /\ ledger.boundary = r.violation
    /\ ValidateBoundaryObservation(r.violation)
    /\ BoundaryPredecessor(r)

RecordBoundaryReset(s) ==
    LET r == calls[s].record IN
    /\ calls[s].op = "reset"
    /\ \/ ledger.reset = NoRecord /\ ResetAccepted(r) /\ Checked(s)
       \/ /\ calls[s].checked \/ ledger.reset # NoRecord \/ ~ResetAccepted(r)
          /\ ledger' = IF CreatesRecord(s, "reset")
                       THEN [ledger EXCEPT !.reset = r] ELSE ledger
          /\ cache' = IF ledger'.reset = r THEN [cache EXCEPT ![s] = r.result] ELSE cache
          /\ Ends(s)
          /\ UNCHANGED now

-----------------------------------------------------------------------------
(* The package.                                                            *)

UnresolvedTail(first) ==
    LET later == {i \in DOMAIN ledger.entry : i >= first} IN
    [i \in (IF later = {} THEN {first} ELSE later) |->
        [seq |-> i, envelope |-> IF i \in later THEN ledger.entry[i] ELSE NoRecord]]

PackageOf(status, state) ==
    LET prefix == IF status = "boundary_reset"
                  THEN {i \in DOMAIN ledger.entry : i < ledger.boundary.expected}
                  ELSE DOMAIN ledger.entry IN
    [status |-> status, activation |-> ledger.activation, submissions |-> ledger.entry,
     classifications |-> Restrict(ledger.classification, prefix),
     outcomes |-> Restrict(ledger.outcome, prefix \cap DOMAIN ledger.outcome),
     transitions |-> Restrict(ledger.transition, prefix),
     tail |-> IF status = "boundary_reset" THEN UnresolvedTail(ledger.boundary.expected)
              ELSE << >>,
     boundary |-> ledger.boundary, reset |-> ledger.reset, final |-> state]

Package(s) ==
    LET state == CurrentState(s) IN
    /\ Idle(s) /\ Active /\ ledger.package = NoRecord
    /\ IF ledger.reset # NoRecord THEN ResetAccepted(ledger.reset) ELSE state.complete
    /\ Reads(s)
    /\ CallsJournal(s, "package",
         PackageOf(IF ledger.reset # NoRecord THEN "boundary_reset"
                   ELSE "threshold_complete", state))

RecordPackage(s) ==
    LET p == calls[s].record
        accepted == /\ ledger.package = NoRecord /\ PackageWriteAllowed
                    /\ PackageClosure(p) /\ MainLedgerEvidencePackage(p) IN
    /\ calls[s].op = "package"
    /\ \/ accepted /\ Checked(s)
       \/ /\ calls[s].checked \/ ~accepted
          /\ ledger' = IF CreatesRecord(s, "package")
                       THEN [ledger EXCEPT !.package = p] ELSE ledger
          /\ Ends(s)
          /\ UNCHANGED <<now, cache>>

-----------------------------------------------------------------------------
Tick == now < MaxNow /\ now' = now + 1 /\ UNCHANGED <<ledger, calls, cache>>

(* A service stops and is started again: its call and its cache are gone.   *)
Restart(s) ==
    /\ Ends(s)
    /\ cache' = [cache EXCEPT ![s] = NoRecord]
    /\ UNCHANGED <<now, ledger>>

Init ==
    /\ now = 0
    /\ ledger = Empty
    /\ calls = [s \in Services |-> NoCall]
    /\ cache = [s \in Services |-> NoRecord]

Requests(s) ==
    \/ \E at, seen \in {0, now}, watermark \in Watermarks, issuer \in Issuers :
         Activate(s, [authority |-> Authority, at |-> at, issuer |-> issuer],
                  [authority |-> Authority, at |-> seen, issuer |-> "release"], watermark)
    \/ \E seq \in 1 .. MaxSequence, identity \in Identities, content \in Contents :
         Submit(s, seq, identity, content)
    \/ \E seq \in DOMAIN ledger.entry :
         \/ \E v \in Verdicts : Classify(s, seq, v.empty, v.ordinary)
         \/ \E outcome \in Outcomes : Outcome(s, seq, outcome)
    \/ Advance(s)
    \/ \E kind \in {"starvation", "withholding"} : BoundaryViolation(s, kind)
    \/ RecoverBoundary(s)
    \/ Package(s)

Records(s) ==
    \/ RecordActivation(s) \/ RecordSubmission(s) \/ RecordClassification(s)
    \/ RecordOutcome(s) \/ RecordTransition(s) \/ RecordBoundaryEvidence(s)
    \/ RecordBoundaryReset(s) \/ RecordPackage(s)

Next == Tick \/ \E s \in Services : Requests(s) \/ Records(s) \/ Restart(s)

Spec == Init /\ [][Next]_vars
-----------------------------------------------------------------------------
Succeeded(i) == i \in DOMAIN ledger.outcome /\ ledger.outcome[i].outcome = "success"

Kept(f, g) == \A i \in DOMAIN f : i \in DOMAIN g /\ g[i] = f[i]

(* Every durable record of the ledger is one its contract admits.           *)
TypeOK ==
    /\ now \in 0 .. MaxNow
    /\ ledger.activation \in MainLedgerActivation \cup {NoRecord}
    /\ \A i \in DOMAIN ledger.entry : ledger.entry[i] \in MainLedgerSubmissionEnvelope
    /\ \A i \in DOMAIN ledger.classification :
         ledger.classification[i] \in MainLedgerClassificationEvidence
    /\ \A i \in DOMAIN ledger.outcome : ledger.outcome[i] \in MainLedgerTerminalOutcome
    /\ \A i \in DOMAIN ledger.transition : MainLedgerAccumulatorTransition(ledger.transition[i])
    /\ ledger.boundary \in MainLedgerBoundaryViolationEvidence \cup {NoRecord}
    /\ ledger.reset \in MainLedgerBoundaryResetTransition \cup {NoRecord}
    /\ ledger.package # NoRecord =>
         /\ MainLedgerEvidencePackage(ledger.package)
         /\ \A i \in DOMAIN ledger.package.tail :
              ledger.package.tail[i] \in MainLedgerUnresolvedTailEntry

(* The streak in force is a recount of the history: the successes since the *)
(* last other outcome; no submission was skipped, left behind or counted    *)
(* under two sequences; and a threshold package closes over that many       *)
(* successes in a row (record_submission, advance, package).               *)
LedgerCounts ==
    Active =>
      LET seqs == DOMAIN ledger.entry
          failed == {i \in Processed : Eligible(i) /\ ~Succeeded(i)}
          since == {i \in Processed : Succeeded(i) /\ \A j \in failed : j < i} IN
      /\ seqs = First .. (First + Cardinality(seqs) - 1)
      /\ Cardinality(seqs \ Processed) <= 1
      /\ \A i, j \in seqs : i # j => ledger.entry[i].content # ledger.entry[j].content
      /\ CurrentAccumulatorState.streak = Cardinality(since)
      /\ CurrentAccumulatorState.failures = Cardinality(failed)
      /\ ledger.package # NoRecord /\ ledger.package.status = "threshold_complete" =>
           Cardinality(since) = Threshold /\ seqs = Processed

(* The state a service has cached never decides differently from a replay   *)
(* of the journal, whatever other instances recorded meanwhile.             *)
CacheIsCurrent == Active => \A s \in Services : CurrentState(s) = FullReplay

(* No record is ever changed, whichever processes race to create it, and    *)
(* nothing is added to the history of a completed threshold.               *)
HistoryKept ==
    LET history(l) == <<l.entry, l.classification, l.outcome, l.transition>> IN
    /\ \A k \in 1 .. 4 : Kept(history(ledger)[k], history(ledger')[k])
    /\ \A k \in {"activation", "boundary", "reset", "package"} :
         ledger[k] # NoRecord => ledger'[k] = ledger[k]
    /\ Active /\ CurrentAccumulatorState.complete => history(ledger') = history(ledger)

(* What _validate_boundary_observation is to give: boundary evidence that   *)
(* is durable without its reset can be closed, since no later stage changes *)
(* the chain behind it; the reset a recovering service derives is accepted. *)
BoundaryClosable ==
    ledger.boundary # NoRecord /\ ledger.reset = NoRecord =>
      /\ ledger.boundary.state = CurrentAccumulatorState
      /\ ResetAccepted(BoundaryReset(ledger.boundary, CurrentAccumulatorState))
=============================================================================
