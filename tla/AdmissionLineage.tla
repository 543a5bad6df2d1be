------------------------- MODULE AdmissionLineage -------------------------
(***************************************************************************)
(* The candidates of one run, their evaluations, reviews and admission      *)
(* decisions, and the lineage the admitted ones form (EvidenceService and    *)
(* ReviewService), under concurrent callers.                                *)
(*                                                                          *)
(* As in RunHistory a call reads first and then commits one transaction.     *)
(* Rows that the call read may have changed by then: only an admitting       *)
(* decision compares-and-swaps the run row, and nothing guards the candidate *)
(* and review rows, whose changed columns are simply written.                *)
(***************************************************************************)
EXTENDS Naturals, FiniteSets, FiniteSetsExt, Lifecycle

CONSTANTS
  Clients,            \* concurrent service calls in flight
  Candidates,         \* candidate ids, each with a source tree of its own
  Seed,               \* the candidate create_run puts at the head of the lineage
  Keys,               \* evaluator keys
  AdmissionIds,
  Outcomes,           \* the outcomes the deciders choose from
  Reviewers,
  ApprovalsRequired,  \* ReviewRequest.approvals_required, 1 or 2
  MaxRevision         \* bound on the run's revision, for model checking only

ASSUME ConstantsAssumption ==
  /\ Seed \notin Candidates
  /\ Outcomes \subseteq {"admit", "reject", "quarantine", "review_required"}
  /\ ApprovalsRequired \in 1 .. 2
  /\ MaxRevision \in Nat

VARIABLES
  run,          \* RunRow: state, revision, champion
  lineage,      \* LineageRow set
  candidate,    \* state of each CandidateRow, "none" before it is staged
  evaluations,  \* EvaluationRow set
  policyRecorded,  \* some PolicyDecisionRow exists, for whatever candidate or run
  admissions,   \* AdmissionRow set: the decisions
  review,       \* state of each candidate's candidate.admit ReviewRequestRow
  decisions,    \* ReviewDecisionRow set
  call          \* what each client holds between its steps

vars == <<run, lineage, candidate, evaluations, policyRecorded, admissions, review,
          decisions, call>>

evidence == <<lineage, candidate, evaluations, policyRecorded, admissions>>
reviews == <<review, decisions>>

RunRow == [state : RunState, revision : Nat, champion : Candidates \cup {Seed}]

LineageRow == [sequence : Nat, candidate : Candidates \cup {Seed}]

EvaluationRow == [candidate : Candidates, key : Keys, passes : BOOLEAN]

\* AdmissionDecision, stored whole in its AdmissionRow.
Decision ==
  [id : AdmissionIds, candidate : Candidates, expected : Candidates \cup {Seed},
   outcome : Outcomes]

ReviewDecisionRow ==
  [candidate : Candidates, reviewer : Reviewers, outcome : {"approve", "reject"}]

Idle == [step |-> "idle"]

Call ==
  {Idle}
    \cup [step : {"stage"}, candidate : Candidates]
    \cup [step : {"evaluate"}, row : EvaluationRow, prior : CandidateState]
    \cup [step : {"decide"}, decision : Decision, row : RunRow]
    \cup [step : {"commit"}, decision : Decision, row : RunRow, prior : CandidateState]
    \cup [step : {"create"}, candidate : Candidates]
    \cup [step : {"submit"}, decision : ReviewDecisionRow]

\* Every row, file and call in flight has its type (the rows of EvidenceService and ReviewService).
TypeOK ==
  /\ run \in RunRow
  /\ lineage \subseteq LineageRow
  /\ candidate \in [Candidates -> CandidateState \cup {"none"}]
  /\ evaluations \subseteq EvaluationRow
  /\ policyRecorded \in BOOLEAN
  /\ admissions \subseteq Decision
  /\ review \in [Candidates -> {"none", "pending", "approved", "rejected"}]
  /\ decisions \subseteq ReviewDecisionRow
  /\ call \in [Clients -> Call]
-----------------------------------------------------------------------------
\* create_run puts the seed at sequence 0 and makes it champion.  The model starts
\* once the run is running.
Init ==
  /\ run = [state |-> "running", revision |-> 0, champion |-> Seed]
  /\ lineage = {[sequence |-> 0, candidate |-> Seed]}
  /\ candidate = [c \in Candidates |-> "none"]
  /\ evaluations = {}
  /\ policyRecorded = FALSE
  /\ admissions = {}
  /\ review = [c \in Candidates |-> "none"]
  /\ decisions = {}
  /\ call = [k \in Clients |-> Idle]

Goes(k, next) == call' = [call EXCEPT ![k] = next]

\* A refused check (a comparison that is no improvement, a missing role or piece of
\* evidence, an expired review), an integrity error or a failed compare-and-swap raises, and the
\* session rolls back.
Rollback(k) ==
  /\ call[k] # Idle
  /\ Goes(k, Idle)
  /\ UNCHANGED <<run, evidence, reviews>>

\* Commands and other services move the run and append an event, which takes the
\* next revision.
RunMoves ==
  /\ run.revision < MaxRevision
  /\ \E s \in {run.state} \cup {"running", "blocked_review", "cancelling", "cancelled"} :
       /\ s = run.state \/ can_transition(RUN_TRANSITIONS, run.state, s)
       /\ run' = [state |-> s, revision |-> run.revision + 1, champion |-> run.champion]
  /\ UNCHANGED <<evidence, reviews, call>>
-----------------------------------------------------------------------------
\* stage_candidate: a new manifest must name the current champion as a parent; what
\* the manifest's parents are is the caller's.
ReadForStage(k, c) ==
  /\ call[k] = Idle
  /\ candidate[c] = "none"
  /\ Goes(k, [step |-> "stage", candidate |-> c])
  /\ UNCHANGED <<run, evidence, reviews>>

StageCandidate(k) ==
  /\ call[k].step = "stage"
  /\ candidate[call[k].candidate] = "none"
  /\ candidate' = [candidate EXCEPT ![call[k].candidate] = "staged"]
  /\ Goes(k, Idle)
  /\ UNCHANGED <<run, lineage, evaluations, policyRecorded, admissions, reviews>>

\* uq_evaluation_activity
EvaluationFree(e) ==
  \A f \in evaluations : f.candidate # e.candidate \/ f.key # e.key

ReadForEvaluation(k, e) ==
  /\ call[k] = Idle
  /\ candidate[e.candidate] # "none"
  /\ EvaluationFree(e)
  /\ Goes(k, [step |-> "evaluate", row |-> e, prior |-> candidate[e.candidate]])
  /\ UNCHANGED <<run, evidence, reviews>>

\* An ORM assignment writes the column only when it differs from the value read.
Written(current, prior, assigned) == IF assigned = prior THEN current ELSE assigned

RecordEvaluation(k) ==
  /\ call[k].step = "evaluate"
  /\ LET e == call[k].row
         c == e.candidate IN
       /\ EvaluationFree(e)
       /\ evaluations' = evaluations \cup {e}
       /\ candidate' = [candidate EXCEPT
            ![c] = Written(candidate[c], call[k].prior, "evaluating")]
  /\ Goes(k, Idle)
  /\ UNCHANGED <<run, lineage, policyRecorded, admissions, reviews>>

\* record_policy_decision, one insert; the candidate it is about is optional.
RecordPolicyDecision ==
  /\ policyRecorded' = TRUE
  /\ UNCHANGED <<run, lineage, candidate, evaluations, admissions, reviews, call>>
-----------------------------------------------------------------------------
IdFree(i) == \A a \in admissions : a.id # i

ExpectedIgnored(d) == TRUE

\* The champion named by the decision, checked on the row read and again by the
\* compare-and-swap.
ExpectedIsChampion(d) == run.champion = d.expected

EvidenceUnchecked(d, cited) == cited # {} /\ policyRecorded

\* _validate_decision_evidence: the cited policy decisions exist, whoever they are about
\* and whatever they decide; the cited evaluations are of the candidate, and an admission
\* cites one that passes.
EvidenceValid(d, cited) ==
  /\ cited # {}
  /\ policyRecorded
  /\ \A key \in cited : \E e \in evaluations : e.candidate = d.candidate /\ e.key = key
  /\ d.outcome = "admit" =>
       \E e \in evaluations : e.candidate = d.candidate /\ e.key \in cited /\ e.passes

\* commit_admission reads the run row ...
ReadForDecision(k, d) ==
  /\ call[k] = Idle
  /\ IdFree(d.id)
  /\ ExpectedIsChampion(d)
  /\ run.state \notin {"cancelling", "cancelled"}
  /\ Goes(k, [step |-> "decide", decision |-> d, row |-> run])
  /\ UNCHANGED <<run, evidence, reviews>>

\* ... then the candidate row and the evidence.  Policy decisions and evaluations
\* are never deleted, so their separate reads are taken together with this one.
ReadCandidate(k) ==
  /\ call[k].step = "decide"
  /\ LET d == call[k].decision IN
       /\ candidate[d.candidate] # "none"
       /\ \E cited \in SUBSET Keys : EvidenceValid(d, cited)
       /\ Goes(k, [step |-> "commit", decision |-> d, row |-> call[k].row,
                   prior |-> candidate[d.candidate]])
  /\ UNCHANGED <<run, evidence, reviews>>

DecidedState(d) ==
  CASE d.outcome = "reject" -> "rejected"
    [] d.outcome = "quarantine" -> "quarantined"
    [] OTHER -> "review_required"

\* A decision other than admit: the row and the candidate's state, no event.
CommitDecision(k) ==
  /\ call[k].step = "commit"
  /\ LET d == call[k].decision
         c == d.candidate IN
       /\ d.outcome # "admit"
       /\ IdFree(d.id)
       /\ admissions' = admissions \cup {d}
       /\ candidate' = [candidate EXCEPT
            ![c] = Written(candidate[c], call[k].prior, DecidedState(d))]
  /\ Goes(k, Idle)
  /\ UNCHANGED <<run, lineage, evaluations, policyRecorded, reviews>>

\* The maximum is read in the write transaction, which the insert has begun.
NextSequence == Max({l.sequence : l \in lineage}) + 1

\* uq_admission_success_candidate, uq_lineage_run_candidate
AdmitFree(c) ==
  /\ \A a \in admissions : ~(a.candidate = c /\ a.outcome = "admit")
  /\ \A l \in lineage : l.candidate # c

\* An admission: an approved review if the candidate was read awaiting one, the
\* compare-and-swap on revision, champion and state, the lineage row and the event.
CommitAdmission(k) ==
  /\ call[k].step = "commit"
  /\ LET d == call[k].decision
         c == d.candidate IN
       /\ d.outcome = "admit"
       /\ IdFree(d.id)
       /\ AdmitFree(c)
       /\ call[k].prior = "review_required" => review[c] = "approved"
       /\ run.revision = call[k].row.revision
       /\ ExpectedIsChampion(d)
       /\ run.state = "running"
       /\ run.revision < MaxRevision
       /\ run' = [state |-> run.state, revision |-> run.revision + 1, champion |-> c]
       /\ lineage' = lineage \cup
            {[sequence |-> NextSequence, candidate |-> c]}
       /\ admissions' = admissions \cup {d}
       /\ candidate' = [candidate EXCEPT
            ![c] = Written(candidate[c], call[k].prior, "admitted")]
  /\ Goes(k, Idle)
  /\ UNCHANGED <<evaluations, policyRecorded, reviews>>
-----------------------------------------------------------------------------
\* ReviewService.create
ReadForReview(k, c) ==
  /\ call[k] = Idle
  /\ review[c] = "none"
  /\ candidate[c] = "review_required"
  /\ Goes(k, [step |-> "create", candidate |-> c])
  /\ UNCHANGED <<run, evidence, reviews>>

CreateReview(k) ==
  /\ call[k].step = "create"
  /\ review[call[k].candidate] = "none"
  /\ review' = [review EXCEPT ![call[k].candidate] = "pending"]
  /\ Goes(k, Idle)
  /\ UNCHANGED <<run, evidence, decisions>>

\* ReviewService.submit reads the request; expiry, role, proposer and evidence checks
\* refuse or let it through.
ReadForSubmit(k, d) ==
  /\ call[k] = Idle
  /\ review[d.candidate] = "pending"
  /\ Goes(k, [step |-> "submit", decision |-> d])
  /\ UNCHANGED <<run, evidence, reviews>>

\* uq on (review, reviewer)
ReviewerFree(d) ==
  \A e \in decisions : e.candidate # d.candidate \/ e.reviewer # d.reviewer

Approvals(c) == {d \in decisions : d.candidate = c /\ d.outcome = "approve"}

ApprovalsBeforeFlush(d) == Cardinality(Approvals(d.candidate))

\* The count follows the flush of the new decision, in the same transaction.
ApprovalsAfterFlush(d) == Cardinality(Approvals(d.candidate) \cup {d})

\* A rejection decides the review, and so does the last approval it requires.
Reviewed(d) ==
  IF d.outcome = "reject" THEN "rejected"
  ELSE IF ApprovalsAfterFlush(d) >= ApprovalsRequired THEN "approved"
  ELSE review[d.candidate]

SubmitReview(k) ==
  /\ call[k].step = "submit"
  /\ LET d == call[k].decision IN
       /\ ReviewerFree(d)
       /\ decisions' = decisions \cup {d}
       /\ review' = [review EXCEPT ![d.candidate] = Reviewed(d)]
  /\ Goes(k, Idle)
  /\ UNCHANGED <<run, evidence>>
-----------------------------------------------------------------------------
Step(k) ==
  \/ \E c \in Candidates : ReadForStage(k, c) \/ ReadForReview(k, c)
  \/ StageCandidate(k)
  \/ \E e \in EvaluationRow : ReadForEvaluation(k, e)
  \/ RecordEvaluation(k)
  \/ \E d \in Decision : ReadForDecision(k, d)
  \/ ReadCandidate(k)
  \/ CommitDecision(k)
  \/ CommitAdmission(k)
  \/ CreateReview(k)
  \/ \E d \in ReviewDecisionRow : ReadForSubmit(k, d)
  \/ SubmitReview(k)
  \/ Rollback(k)

Next ==
  \/ RunMoves
  \/ RecordPolicyDecision
  \/ \E k \in Clients : Step(k)

Spec == Init /\ [][Next]_vars
-----------------------------------------------------------------------------
Admits(c) == {a \in admissions : a.candidate = c /\ a.outcome = "admit"}

\* The rows are well formed, and the lineage is one path: its sequence numbers are
\* 0..n without a gap, no candidate appears twice, the run's champion is its last
\* entry, and every admission was decided against the entry just before it, whatever
\* calls were in flight (commit_admission's compare-and-swap).
LineageIsPath ==
  /\ TypeOK
  /\ \E n \in 0 .. MaxRevision : {l.sequence : l \in lineage} = 0 .. n
  /\ \A l, m \in lineage :
       l # m => l.sequence # m.sequence /\ l.candidate # m.candidate
  /\ \A l \in lineage :
       (\A m \in lineage : m.sequence <= l.sequence) => l.candidate = run.champion
  /\ \A l, m \in lineage :
       m.sequence = l.sequence + 1 =>
         \A a \in Admits(m.candidate) : a.expected = l.candidate

\* A candidate in state admitted, and every lineage entry but the seed, has exactly
\* one admitting decision, a passing evaluation of its own and a place in the lineage, and
\* a policy decision is recorded, if not of the candidate (commit_admission).
AdmittedHasEvidence ==
  \A c \in Candidates :
    candidate[c] = "admitted" \/ (\E l \in lineage : l.candidate = c) =>
      /\ Cardinality(Admits(c)) = 1
      /\ \E e \in evaluations : e.candidate = c /\ e.passes
      /\ policyRecorded
      /\ \E l \in lineage : l.candidate = c

\* A review is approved only by as many different reviewers as it requires, and
\* enough approvals with no rejection always approve it, also when the last two are
\* submitted at once (ReviewService.submit).
ReviewQuorum ==
  \A c \in Candidates :
    LET reviewers == {d.reviewer : d \in Approvals(c)} IN
    /\ review[c] = "approved" => Cardinality(reviewers) >= ApprovalsRequired
    /\ /\ Cardinality(reviewers) >= ApprovalsRequired
       /\ \A d \in decisions : d.candidate = c => d.outcome = "approve"
       => review[c] = "approved"
=============================================================================
