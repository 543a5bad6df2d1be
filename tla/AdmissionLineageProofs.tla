----------------------- MODULE AdmissionLineageProofs -----------------------
(***************************************************************************)
(* Proofs about AdmissionLineage for every set of clients, candidates, keys *)
(* and reviewers and every bound.  The inductive invariant adds to the       *)
(* checked properties that admitting decisions and lineage entries come and  *)
(* go together, that a call about to admit has seen evidence that cannot     *)
(* disappear, and that a reviewer has one vote.                             *)
(***************************************************************************)
EXTENDS AdmissionLineage, TLAPS

Listed(c) == \E l \in lineage : l.candidate = c

HasEvidence(c) ==
  policyRecorded /\ \E e \in evaluations : e.candidate = c /\ e.passes

\* The part of LineageIsPath beyond the types, with the path no longer than the run's
\* revision: every entry takes one.
PathInv ==
  /\ run.revision <= MaxRevision
  /\ \E n \in 0 .. run.revision : {l.sequence : l \in lineage} = 0 .. n
  /\ \A l, m \in lineage :
       l # m => l.sequence # m.sequence /\ l.candidate # m.candidate
  /\ \A l \in lineage :
       (\A m \in lineage : m.sequence <= l.sequence) => l.candidate = run.champion
  /\ \A l, m \in lineage :
       m.sequence = l.sequence + 1 =>
         \A a \in Admits(m.candidate) : a.expected = l.candidate

CallsBacked ==
  \A k \in Clients :
    call[k].step = "commit" /\ call[k].decision.outcome = "admit" =>
      HasEvidence(call[k].decision.candidate)

\* An admitting decision is in the lineage, an entry but the seed has one admitting
\* decision and its evidence, and so has what a call is about to admit.
EvidenceInv ==
  /\ \A a \in admissions : a.outcome = "admit" => Listed(a.candidate)
  /\ \A c \in Candidates : Listed(c) => HasEvidence(c) /\ \E a \in admissions : Admits(c) = {a}
  /\ \A c \in Candidates : candidate[c] = "admitted" => Listed(c)
  /\ CallsBacked

\* A reviewer decides once, on a review that was created, and the state of a review
\* agrees with its approvals.
ReviewInv ==
  /\ IsFiniteSet(decisions)
  /\ \A d, e \in decisions : d.candidate = e.candidate /\ d.reviewer = e.reviewer => d = e
  /\ \A d \in decisions : review[d.candidate] # "none"
  /\ \A k \in Clients : call[k].step = "submit" => review[call[k].decision.candidate] # "none"
  /\ \A c \in Candidates :
       /\ review[c] = "approved" => Cardinality(Approvals(c)) >= ApprovalsRequired
       /\ /\ Cardinality(Approvals(c)) >= ApprovalsRequired
          /\ \A d \in decisions : d.candidate = c => d.outcome = "approve"
          => review[c] = "approved"

Inv == TypeOK /\ PathInv /\ EvidenceInv /\ ReviewInv
-----------------------------------------------------------------------------
\* What a call in flight holds, by its step.
LEMMA CallTypes ==
  ASSUME TypeOK, NEW k \in Clients
  PROVE  /\ call[k].step = "stage" => call[k].candidate \in Candidates
         /\ call[k].step = "evaluate" =>
              call[k].row \in EvaluationRow /\ call[k].prior \in CandidateState
         /\ call[k].step = "decide" =>
              call[k].decision \in Decision /\ call[k].row \in RunRow
         /\ call[k].step = "commit" =>
              /\ call[k].decision \in Decision
              /\ call[k].row \in RunRow
              /\ call[k].prior \in CandidateState
         /\ call[k].step = "create" => call[k].candidate \in Candidates
         /\ call[k].step = "submit" => call[k].decision \in ReviewDecisionRow
<1>1. call[k] \in Call
  BY Zenon DEF TypeOK
<1> QED
  BY <1>1 DEF Call, Idle

\* A step that gives a client another call keeps the calls well formed.
LEMMA GoesType ==
  ASSUME TypeOK, NEW k \in Clients, NEW next \in Call, Goes(k, next)
  PROVE  call' \in [Clients -> Call]
BY Zenon DEF TypeOK, Goes

\* The sequence number an admission takes is the one after the last.
LEMMA NextIsLast ==
  ASSUME NEW n \in Nat, {l.sequence : l \in lineage} = 0 .. n
  PROVE  NextSequence = n + 1
<1>1. Max(0 .. n) = n
  BY DEF Max
<1> QED
  BY <1>1, Zenon DEF NextSequence

\* Every step keeps the types.
LEMMA TypeStep == TypeOK /\ PathInv /\ [Next]_vars => TypeOK'
<1> SUFFICES ASSUME TypeOK, PathInv, [Next]_vars PROVE TypeOK'
  BY Zenon
<1>0. Idle \in Call
  BY Zenon DEF Call
<1>1. CASE RunMoves
  <2>1. PICK s \in {run.state} \cup {"running", "blocked_review", "cancelling", "cancelled"} :
          run' = [state |-> s, revision |-> run.revision + 1, champion |-> run.champion]
    BY <1>1, Zenon DEF RunMoves
  <2>2. run' \in RunRow
    BY <2>1 DEF TypeOK, RunRow, RunState
  <2> QED
    BY <1>1, <2>2, Zenon DEF RunMoves, TypeOK, evidence, reviews
<1>2. CASE RecordPolicyDecision
  BY <1>2, Zenon DEF TypeOK, RecordPolicyDecision, reviews
<1>3. ASSUME NEW k \in Clients, Step(k) PROVE TypeOK'
  <2>1. ASSUME NEW c \in Candidates, ReadForStage(k, c) PROVE TypeOK'
    <3>1. [step |-> "stage", candidate |-> c] \in Call
      BY Zenon DEF Call
    <3> QED
      BY <2>1, <3>1, GoesType, Zenon DEF TypeOK, ReadForStage, evidence, reviews
  <2>2. ASSUME NEW c \in Candidates, ReadForReview(k, c) PROVE TypeOK'
    <3>1. [step |-> "create", candidate |-> c] \in Call
      BY Zenon DEF Call
    <3> QED
      BY <2>2, <3>1, GoesType, Zenon DEF TypeOK, ReadForReview, evidence, reviews
  <2>3. CASE StageCandidate(k)
    <3>1. candidate' \in [Candidates -> CandidateState \cup {"none"}]
      BY <2>3, CallTypes, Zenon DEF TypeOK, StageCandidate, CandidateState
    <3> QED
      BY <2>3, <3>1, <1>0, GoesType, Zenon DEF TypeOK, StageCandidate, reviews
  <2>4. ASSUME NEW e \in EvaluationRow, ReadForEvaluation(k, e) PROVE TypeOK'
    <3>1. e.candidate \in Candidates
      BY Zenon DEF EvaluationRow
    <3>2. candidate[e.candidate] \in CandidateState
      BY <2>4, <3>1, Zenon DEF TypeOK, ReadForEvaluation
    <3>3. [step |-> "evaluate", row |-> e, prior |-> candidate[e.candidate]] \in Call
      BY <3>2, Zenon DEF Call
    <3> QED
      BY <2>4, <3>3, GoesType, Zenon DEF TypeOK, ReadForEvaluation, evidence, reviews
  <2>5. CASE RecordEvaluation(k)
    <3>1. call[k].row \in EvaluationRow /\ call[k].row.candidate \in Candidates
      BY <2>5, CallTypes, Zenon DEF RecordEvaluation, EvaluationRow
    <3>2. candidate' \in [Candidates -> CandidateState \cup {"none"}]
      BY <2>5, <3>1, Zenon DEF TypeOK, RecordEvaluation, Written, CandidateState
    <3> QED
      BY <2>5, <3>1, <3>2, <1>0, GoesType, Zenon DEF TypeOK, RecordEvaluation, reviews
  <2>6. ASSUME NEW d \in Decision, ReadForDecision(k, d) PROVE TypeOK'
    <3>1. [step |-> "decide", decision |-> d, row |-> run] \in Call
      BY Zenon DEF Call, TypeOK
    <3> QED
      BY <2>6, <3>1, GoesType, Zenon DEF TypeOK, ReadForDecision, evidence, reviews
  <2>7. CASE ReadCandidate(k)
    <3>1. /\ call[k].decision \in Decision /\ call[k].row \in RunRow
          /\ call[k].decision.candidate \in Candidates
      BY <2>7, CallTypes, Zenon DEF ReadCandidate, Decision
    <3>2. candidate[call[k].decision.candidate] \in CandidateState
      BY <2>7, <3>1, Zenon DEF TypeOK, ReadCandidate
    <3>3. [step |-> "commit", decision |-> call[k].decision, row |-> call[k].row,
           prior |-> candidate[call[k].decision.candidate]] \in Call
      BY <3>1, <3>2, Zenon DEF Call
    <3> QED
      BY <2>7, <3>3, GoesType, Zenon DEF TypeOK, ReadCandidate, evidence, reviews
  <2>8. CASE CommitDecision(k)
    <3>1. call[k].decision \in Decision /\ call[k].decision.candidate \in Candidates
      BY <2>8, CallTypes, Zenon DEF CommitDecision, Decision
    <3>2. DecidedState(call[k].decision) \in CandidateState
      BY Zenon DEF DecidedState, CandidateState
    <3>3. candidate' \in [Candidates -> CandidateState \cup {"none"}]
      BY <2>8, <3>1, <3>2, Zenon DEF TypeOK, CommitDecision, Written
    <3> QED
      BY <2>8, <3>1, <3>3, <1>0, GoesType, Zenon DEF TypeOK, CommitDecision, reviews
  <2>9. CASE CommitAdmission(k)
    <3> DEFINE d == call[k].decision
    <3>1. d \in Decision /\ d.candidate \in Candidates
      BY <2>9, CallTypes, Zenon DEF CommitAdmission, Decision
    <3>2. candidate' \in [Candidates -> CandidateState \cup {"none"}]
      BY <2>9, <3>1, Zenon DEF TypeOK, CommitAdmission, Written, CandidateState
    <3>3. run' \in RunRow
      BY <2>9, <3>1 DEF TypeOK, CommitAdmission, RunRow
    <3>4. NextSequence \in Nat
      <4>1. PICK n \in 0 .. run.revision : {l.sequence : l \in lineage} = 0 .. n
        BY Zenon DEF PathInv
      <4>2. n \in Nat
        BY DEF TypeOK, RunRow
      <4> QED
        BY <4>1, <4>2, NextIsLast
    <3>5. lineage' \subseteq LineageRow
      BY <2>9, <3>1, <3>4 DEF TypeOK, CommitAdmission, LineageRow
    <3> QED
      BY <2>9, <3>1, <3>2, <3>3, <3>5, <1>0, GoesType, Zenon DEF TypeOK, CommitAdmission, reviews
  <2>10. CASE CreateReview(k)
    <3>1. call[k].candidate \in Candidates
      BY <2>10, CallTypes, Zenon DEF CreateReview
    <3>2. review' \in [Candidates -> {"none", "pending", "approved", "rejected"}]
      BY <2>10, <3>1, Zenon DEF TypeOK, CreateReview
    <3> QED
      BY <2>10, <3>2, <1>0, GoesType, Zenon DEF TypeOK, CreateReview, evidence
  <2>11. ASSUME NEW d \in ReviewDecisionRow, ReadForSubmit(k, d) PROVE TypeOK'
    <3>1. [step |-> "submit", decision |-> d] \in Call
      BY Zenon DEF Call
    <3> QED
      BY <2>11, <3>1, GoesType, Zenon DEF TypeOK, ReadForSubmit, evidence, reviews
  <2>12. CASE SubmitReview(k)
    <3>1. call[k].decision \in ReviewDecisionRow /\ call[k].decision.candidate \in Candidates
      BY <2>12, CallTypes, Zenon DEF SubmitReview, ReviewDecisionRow
    <3>2. Reviewed(call[k].decision) \in {"none", "pending", "approved", "rejected"}
      BY <3>1, Zenon DEF Reviewed, TypeOK
    <3>3. review' \in [Candidates -> {"none", "pending", "approved", "rejected"}]
      BY <2>12, <3>1, <3>2, Zenon DEF TypeOK, SubmitReview
    <3> QED
      BY <2>12, <3>1, <3>3, <1>0, GoesType, Zenon DEF TypeOK, SubmitReview, evidence
  <2>13. CASE Rollback(k)
    BY <2>13, <1>0, GoesType, Zenon DEF TypeOK, Rollback, evidence, reviews
  <2> QED
    BY <1>3, <2>1, <2>2, <2>3, <2>4, <2>5, <2>6, <2>7, <2>8, <2>9, <2>10, <2>11, <2>12,
       <2>13, Zenon DEF Step
<1>4. CASE UNCHANGED vars
  BY <1>4, Zenon DEF vars, TypeOK
<1> QED
  BY <1>1, <1>2, <1>3, <1>4, Zenon DEF Next
-----------------------------------------------------------------------------
\* A step that adds nothing to the lineage and no admitting decision, and loses no
\* evidence, keeps the path and its evidence.
LEMMA LineageFrame ==
  ASSUME PathInv, EvidenceInv, TypeOK, TypeOK',
         lineage' = lineage,
         run'.champion = run.champion,
         run'.revision >= run.revision, run'.revision <= MaxRevision,

         \A a : a \in admissions' /\ a.outcome = "admit" <=> a \in admissions /\ a.outcome = "admit",
         evaluations \subseteq evaluations',
         (policyRecorded => policyRecorded'),
         \A c \in Candidates : candidate'[c] = "admitted" => candidate[c] = "admitted",
         CallsBacked'
  PROVE  PathInv' /\ EvidenceInv'
<1>1. \A c : Admits(c)' = Admits(c)
  BY Zenon DEF Admits
<1>2. \A c : Listed(c)' <=> Listed(c)
  BY Zenon DEF Listed
<1>3. \A c : HasEvidence(c) => HasEvidence(c)'
  BY Zenon DEF HasEvidence
<1>4. PathInv'
  <2>1. \E n \in 0 .. run'.revision : {l.sequence : l \in lineage'} = 0 .. n
    BY DEF PathInv, TypeOK, RunRow
  <2> QED
    BY <1>1, <2>1, Zenon DEF PathInv
<1>5. EvidenceInv'
  <2>1. \A a \in admissions' : a.outcome = "admit" => Listed(a.candidate)'
    BY <1>2, Zenon DEF EvidenceInv
  <2>2. ASSUME NEW c \in Candidates, Listed(c)'
        PROVE  HasEvidence(c)' /\ \E a \in admissions' : Admits(c)' = {a}
    <3>1. PICK a \in admissions : Admits(c) = {a}
      BY <1>2, <2>2, Zenon DEF EvidenceInv
    <3>2. a \in admissions'
      BY <3>1, Zenon DEF Admits
    <3> QED
      BY <1>1, <1>2, <1>3, <2>2, <3>1, <3>2, Zenon DEF EvidenceInv
  <2>3. \A c \in Candidates : candidate'[c] = "admitted" => Listed(c)'
    BY <1>2, Zenon DEF EvidenceInv
  <2> QED
    BY <2>1, <2>2, <2>3, Zenon DEF EvidenceInv
<1> QED
  BY <1>4, <1>5, Zenon

\* A client that goes idle, or on to a call that admits nothing yet, leaves the calls
\* about to admit to the others.
LEMMA CallFrame ==
  ASSUME TypeOK, EvidenceInv, NEW k \in Clients, NEW next, Goes(k, next),
         next.step # "commit",
         evaluations \subseteq evaluations', (policyRecorded => policyRecorded')
  PROVE  CallsBacked'
<1>1. \A c : HasEvidence(c) => HasEvidence(c)'
  BY Zenon DEF HasEvidence
<1>2. \A j \in Clients : call'[j] = IF j = k THEN next ELSE call[j]
  BY Zenon DEF TypeOK, Goes
<1> QED
  BY <1>1, <1>2, Zenon DEF EvidenceInv, CallsBacked

\* An admission extends the path by the candidate the swap compared the champion for.
LEMMA AdmissionKeepsLineage ==
  ASSUME TypeOK, TypeOK', PathInv, EvidenceInv, NEW k \in Clients, CommitAdmission(k)
  PROVE  PathInv' /\ EvidenceInv'
<1>a. PICK d \in Decision : d = call[k].decision
  BY CallTypes, Zenon DEF CommitAdmission
<1>b. PICK c \in Candidates : c = d.candidate
  BY Zenon DEF Decision
<1>1. /\ c = d.candidate /\ d.outcome = "admit"
      /\ d.expected = run.champion
      /\ HasEvidence(c)
  BY <1>a, <1>b, Zenon DEF CommitAdmission, ExpectedIsChampion, EvidenceInv, CallsBacked
<1>2. PICK n \in 0 .. run.revision : {l.sequence : l \in lineage} = 0 .. n
  BY Zenon DEF PathInv
<1>3. n \in Nat /\ run.revision \in Nat /\ \A l \in lineage : l.sequence \in 0 .. n
  BY <1>2 DEF TypeOK, RunRow
<1> DEFINE new == [sequence |-> n + 1, candidate |-> c]
<1>4. /\ lineage' = lineage \cup {new}
      /\ admissions' = admissions \cup {d}
      /\ run'.champion = c /\ run'.revision = run.revision + 1 /\ run'.revision <= MaxRevision
      /\ evaluations' = evaluations /\ policyRecorded' = policyRecorded
      /\ \A l \in lineage : l.candidate # c
      /\ \A a \in admissions : ~(a.candidate = c /\ a.outcome = "admit")
  <2>1. NextSequence = n + 1
    BY <1>2, <1>3, NextIsLast, Zenon
  <2> QED
    BY <2>1, <1>a, <1>b, <1>3, ConstantsAssumption DEF CommitAdmission, AdmitFree
<1>5. /\ Admits(c)' = {d}
      /\ \A b : b # c => Admits(b)' = Admits(b)
  BY <1>1, <1>4, Zenon DEF Admits
<1>n. /\ new \in lineage' /\ new.sequence = n + 1 /\ new.candidate = c
      /\ \A l : l \in lineage' <=> l \in lineage \/ l = new
  BY <1>4, Zenon
<1> HIDE DEF new
<1>6. PathInv'
  <2>1. {l.sequence : l \in lineage'} = 0 .. (n + 1)
    <3>1. {l.sequence : l \in lineage'} = {l.sequence : l \in lineage} \cup {n + 1}
      BY <1>n, Zenon
    <3> QED
      BY <3>1, <1>2, <1>3
  <2>2. \E i \in 0 .. run'.revision : {l.sequence : l \in lineage'} = 0 .. i
    BY <2>1, <1>3, <1>4
  <2>3. \A l, m \in lineage' : l # m => l.sequence # m.sequence /\ l.candidate # m.candidate
    BY <1>3, <1>4, <1>n DEF PathInv
  <2>4. \A l \in lineage' :
          (\A m \in lineage' : m.sequence <= l.sequence) => l.candidate = run'.champion
    BY <1>3, <1>4, <1>n
  <2>5. ASSUME NEW l \in lineage', NEW m \in lineage', m.sequence = l.sequence + 1,
               NEW a \in Admits(m.candidate)'
        PROVE  a.expected = l.candidate
    <3>1. CASE m \in lineage
      <4>1. l \in lineage
        BY <3>1, <2>5, <1>3, <1>n
      <4> QED
        BY <3>1, <4>1, <2>5, <1>4, <1>5 DEF PathInv
    <3>2. CASE m = new
      <4>1. l \in lineage /\ \A i \in lineage : i.sequence <= l.sequence
        BY <3>2, <2>5, <1>3, <1>n
      <4>2. l.candidate = run.champion
        BY <4>1, Zenon DEF PathInv
      <4> QED
        BY <3>2, <4>2, <2>5, <1>1, <1>5, <1>n, Zenon
    <3> QED
      BY <3>1, <3>2, <2>5, <1>n, Zenon
  <2> QED
    BY <1>4, <2>2, <2>3, <2>4, <2>5, Zenon DEF PathInv
<1>7. EvidenceInv'
  <2>1. \A b : Listed(b)' <=> Listed(b) \/ b = c
    BY <1>n, Zenon DEF Listed
  <2>2. \A b : HasEvidence(b)' <=> HasEvidence(b)
    BY <1>4, Zenon DEF HasEvidence
  <2>3. \A a \in admissions' : a.outcome = "admit" => Listed(a.candidate)'
    BY <1>1, <1>4, <2>1, Zenon DEF EvidenceInv
  <2>4. ASSUME NEW b \in Candidates, Listed(b)'
        PROVE  HasEvidence(b)' /\ \E a \in admissions' : Admits(b)' = {a}
    <3>1. CASE b = c
      BY <3>1, <1>1, <1>4, <1>5, <2>2, Zenon
    <3>2. CASE b # c
      BY <3>2, <1>4, <1>5, <2>1, <2>2, <2>4, Zenon DEF EvidenceInv
    <3> QED
      BY <3>1, <3>2, Zenon
  <2>5. \A b \in Candidates : candidate'[b] = "admitted" => Listed(b)'
    <3>1. \A b \in Candidates : b # c => candidate'[b] = candidate[b]
      BY <1>a, <1>b DEF CommitAdmission, TypeOK
    <3> QED
      BY <3>1, <2>1, Zenon DEF EvidenceInv
  <2>6. CallsBacked'
    <3>1. Goes(k, Idle) /\ Idle.step # "commit"
      BY Zenon DEF CommitAdmission, Idle
    <3> QED
      BY <3>1, <1>4, CallFrame, Zenon
  <2> QED
    BY <2>3, <2>4, <2>5, <2>6, Zenon DEF EvidenceInv
<1> QED
  BY <1>6, <1>7, Zenon

\* Every step keeps the path and its evidence.
LEMMA LineageStep ==
  TypeOK /\ PathInv /\ EvidenceInv /\ [Next]_vars => PathInv' /\ EvidenceInv'
<1> SUFFICES ASSUME TypeOK, PathInv, EvidenceInv, [Next]_vars
             PROVE  PathInv' /\ EvidenceInv'
  BY Zenon
<1>t. TypeOK'
  BY TypeStep, Zenon
<1>r. run.revision \in Nat /\ run.revision <= MaxRevision /\ MaxRevision \in Nat
  BY ConstantsAssumption, Zenon DEF TypeOK, RunRow, PathInv
<1>i. Idle.step # "commit"
  BY Zenon DEF Idle
\* Steps that change nothing but the caller's own state.
<1>f. ASSUME NEW k \in Clients, NEW next, Goes(k, next), next.step # "commit",
             UNCHANGED <<run, evidence>>
      PROVE  PathInv' /\ EvidenceInv'
  BY <1>f, <1>t, <1>r, CallFrame, LineageFrame DEF evidence
<1>1. CASE RunMoves
  <2>1. /\ run'.champion = run.champion /\ run'.revision = run.revision + 1
        /\ run.revision < MaxRevision
        /\ UNCHANGED <<evidence, call>>
    BY <1>1 DEF RunMoves
  <2>2. CallsBacked'
    BY <2>1, Zenon DEF EvidenceInv, CallsBacked, HasEvidence, evidence
  <2> QED
    BY <2>1, <2>2, <1>t, <1>r, LineageFrame DEF evidence
<1>2. CASE RecordPolicyDecision
  <2>1. CallsBacked'
    BY <1>2, Zenon DEF RecordPolicyDecision, EvidenceInv, CallsBacked, HasEvidence
  <2> QED
    BY <1>2, <2>1, <1>t, <1>r, LineageFrame DEF RecordPolicyDecision
<1>3. ASSUME NEW k \in Clients, Step(k) PROVE PathInv' /\ EvidenceInv'
  <2>1. ASSUME NEW c \in Candidates, ReadForStage(k, c) \/ ReadForReview(k, c)
        PROVE  PathInv' /\ EvidenceInv'
    <3>1. /\ [step |-> "stage", candidate |-> c].step # "commit"
          /\ [step |-> "create", candidate |-> c].step # "commit"
      BY Zenon
    <3> QED
      BY <2>1, <3>1, <1>f, Zenon DEF ReadForStage, ReadForReview
  <2>2. CASE StageCandidate(k)
    <3>1. \A c \in Candidates : candidate'[c] = "admitted" => candidate[c] = "admitted"
      BY <2>2, Zenon DEF StageCandidate, TypeOK
    <3> QED
      BY <2>2, <3>1, <1>t, <1>r, <1>i, CallFrame, LineageFrame DEF StageCandidate
  <2>3. ASSUME NEW e \in EvaluationRow, ReadForEvaluation(k, e) PROVE PathInv' /\ EvidenceInv'
    <3>1. [step |-> "evaluate", row |-> e, prior |-> candidate[e.candidate]].step # "commit"
      BY Zenon
    <3> QED
      BY <2>3, <3>1, <1>f, Zenon DEF ReadForEvaluation
  <2>4. CASE RecordEvaluation(k)
    <3>1. \A c \in Candidates : candidate'[c] = "admitted" => candidate[c] = "admitted"
      BY <2>4, Zenon DEF RecordEvaluation, TypeOK, Written
    <3>2. evaluations \subseteq evaluations'
      BY <2>4, Zenon DEF RecordEvaluation
    <3> QED
      BY <2>4, <3>1, <3>2, <1>t, <1>r, <1>i, CallFrame, LineageFrame DEF RecordEvaluation
  <2>5. ASSUME NEW d \in Decision, ReadForDecision(k, d) PROVE PathInv' /\ EvidenceInv'
    <3>1. [step |-> "decide", decision |-> d, row |-> run].step # "commit"
      BY Zenon
    <3> QED
      BY <2>5, <3>1, <1>f, Zenon DEF ReadForDecision
  <2>6. CASE ReadCandidate(k)
    <3> DEFINE d == call[k].decision
    <3>1. d.outcome = "admit" => HasEvidence(d.candidate)
      BY <2>6, Zenon DEF ReadCandidate, EvidenceValid, HasEvidence
    <3>2. /\ \A j \in Clients \ {k} : call'[j] = call[j]
          /\ call'[k].step = "commit" => call'[k].decision = d
      BY <2>6, Zenon DEF ReadCandidate, Goes, TypeOK
    <3>3. CallsBacked'
      BY <2>6, <3>1, <3>2 DEF ReadCandidate, EvidenceInv, CallsBacked, HasEvidence, evidence
    <3> QED
      BY <2>6, <3>3, <1>t, <1>r, LineageFrame DEF ReadCandidate, evidence
  <2>7. CASE CommitDecision(k)
    <3>1. DecidedState(call[k].decision) # "admitted"
      BY Zenon DEF DecidedState
    <3>2. \A c \in Candidates : candidate'[c] = "admitted" => candidate[c] = "admitted"
      BY <2>7, <3>1, Zenon DEF CommitDecision, TypeOK, Written
    <3>3. \A a : a \in admissions' /\ a.outcome = "admit"
                 <=> a \in admissions /\ a.outcome = "admit"
      BY <2>7, Zenon DEF CommitDecision
    <3> QED
      BY <2>7, <3>2, <3>3, <1>t, <1>r, <1>i, CallFrame, LineageFrame DEF CommitDecision
  <2>8. CASE CommitAdmission(k)
    BY <2>8, <1>t, AdmissionKeepsLineage, Zenon
  <2>9. CASE CreateReview(k) \/ SubmitReview(k) \/ Rollback(k)
    BY <2>9, <1>i, <1>f, Zenon DEF CreateReview, SubmitReview, Rollback
  <2>10. ASSUME NEW d \in ReviewDecisionRow, ReadForSubmit(k, d) PROVE PathInv' /\ EvidenceInv'
    <3>1. [step |-> "submit", decision |-> d].step # "commit"
      BY Zenon
    <3> QED
      BY <2>10, <3>1, <1>f, Zenon DEF ReadForSubmit
  <2> QED
    BY <1>3, <2>1, <2>2, <2>3, <2>4, <2>5, <2>6, <2>7, <2>8, <2>9, <2>10, Zenon DEF Step
<1>4. CASE UNCHANGED vars
  <2>1. CallsBacked'
    BY <1>4, Zenon DEF vars, EvidenceInv, CallsBacked, HasEvidence
  <2> QED
    BY <1>4, <2>1, <1>t, <1>r, LineageFrame DEF vars
<1> QED
  BY <1>1, <1>2, <1>3, <1>4, Zenon DEF Next
-----------------------------------------------------------------------------
INSTANCE FiniteSetTheorems

\* Within one review, counting approvals is counting the reviewers who approved.
LEMMA ApprovalsAreReviewers ==
  ASSUME ReviewInv, NEW c \in Candidates
  PROVE  /\ IsFiniteSet(Approvals(c))
         /\ Cardinality({d.reviewer : d \in Approvals(c)}) = Cardinality(Approvals(c))
<1> DEFINE A == Approvals(c)
           R == {d.reviewer : d \in A}
           f == [d \in A |-> d.reviewer]
<1>1. IsFiniteSet(A)
  BY FS_Subset, Zenon DEF ReviewInv, Approvals
<1>2. f \in Bijection(A, R)
  <2>1. \A d, e \in A : f[d] = f[e] => d = e
    BY Zenon DEF ReviewInv, Approvals
  <2>2. f \in [A -> R] /\ \A r \in R : \E d \in A : f[d] = r
    BY Zenon
  <2> QED
    BY <2>1, <2>2, Zenon DEF Bijection, Injection, Surjection, IsInjective
<1>3. ExistsBijection(A, R)
  BY <1>2, Zenon DEF ExistsBijection
<1> QED
  BY <1>1, <1>3, FS_Bijection, Zenon

\* A step that decides no review, and starts no call that would on a review not yet
\* created, keeps the reviews in order.
LEMMA ReviewFrame ==
  ASSUME TypeOK, ReviewInv, UNCHANGED reviews,
         \A k \in Clients :
           call'[k].step = "submit" => review[call'[k].decision.candidate] # "none"
  PROVE  ReviewInv'
<1>1. \A c : Approvals(c)' = Approvals(c)
  BY Zenon DEF Approvals, reviews
<1> QED
  BY <1>1, Zenon DEF ReviewInv, reviews

\* A submitted decision is counted with those already there, and decides the review
\* when it should.
LEMMA SubmissionKeepsReviews ==
  ASSUME TypeOK, ReviewInv, NEW k \in Clients, SubmitReview(k)
  PROVE  ReviewInv'
<1>1. PICK d \in ReviewDecisionRow : d = call[k].decision
  BY CallTypes, Zenon DEF SubmitReview
<1>2. PICK c \in Candidates : c = d.candidate
  BY Zenon DEF ReviewDecisionRow
<1>3. /\ decisions' = decisions \cup {d}
      /\ \A b \in Candidates : review'[b] = IF b = c THEN Reviewed(d) ELSE review[b]
      /\ \A e \in decisions : e.candidate # c \/ e.reviewer # d.reviewer
      /\ review[c] # "none"
      /\ d.outcome \in {"approve", "reject"}
  BY <1>1, <1>2, Zenon DEF SubmitReview, ReviewerFree, TypeOK, ReviewInv, ReviewDecisionRow
<1>4. IsFiniteSet(decisions')
  BY <1>3, FS_AddElement, Zenon DEF ReviewInv
<1>5. \A a, b \in decisions' : a.candidate = b.candidate /\ a.reviewer = b.reviewer => a = b
  BY <1>2, <1>3 DEF ReviewInv
<1>6. Reviewed(d) # "none"
  BY <1>2, <1>3, Zenon DEF Reviewed
<1>7. \A e \in decisions' : review'[e.candidate] # "none"
  BY <1>2, <1>3, <1>6 DEF ReviewInv, TypeOK, ReviewDecisionRow
<1>8. ASSUME NEW j \in Clients, call'[j].step = "submit"
      PROVE  review'[call'[j].decision.candidate] # "none"
  <2>1. j # k /\ call'[j] = call[j]
    BY <1>8, Zenon DEF SubmitReview, Goes, TypeOK, Idle
  <2>2. call[j].decision.candidate \in Candidates /\ review[call[j].decision.candidate] # "none"
    BY <1>8, <2>1, CallTypes, Zenon DEF ReviewInv, ReviewDecisionRow
  <2> QED
    BY <2>1, <2>2, <1>3, <1>6, Zenon
<1>9. ASSUME NEW b \in Candidates
      PROVE  /\ review'[b] = "approved" => Cardinality(Approvals(b)') >= ApprovalsRequired
             /\ /\ Cardinality(Approvals(b)') >= ApprovalsRequired
                /\ \A e \in decisions' : e.candidate = b => e.outcome = "approve"
                => review'[b] = "approved"
  <2>1. CASE b # c
    <3>1. Approvals(b)' = Approvals(b)
      BY <2>1, <1>2, <1>3, Zenon DEF Approvals
    <3>2. review'[b] = review[b] /\ decisions \subseteq decisions'
      BY <2>1, <1>3, Zenon
    <3> QED
      BY <3>1, <3>2, Zenon DEF ReviewInv
  <2>2. CASE b = c /\ d.outcome = "reject"
    BY <2>2, <1>2, <1>3, Zenon DEF Reviewed
  <2>3. CASE b = c /\ d.outcome = "approve"
    <3>1. Approvals(c)' = Approvals(c) \cup {d}
      BY <2>3, <1>2, <1>3, Zenon DEF Approvals
    <3>2. /\ IsFiniteSet(Approvals(c))
          /\ d \notin Approvals(c)
      BY <1>2, <1>3, ApprovalsAreReviewers, Zenon DEF Approvals
    <3>3. /\ Cardinality(Approvals(c)) \in Nat
          /\ Cardinality(Approvals(c) \cup {d}) = Cardinality(Approvals(c)) + 1
      BY <3>2, FS_AddElement, FS_CardinalityType, Zenon
    <3>4. review'[c] = IF Cardinality(Approvals(c) \cup {d}) >= ApprovalsRequired
                       THEN "approved" ELSE review[c]
      BY <2>3, <1>2, <1>3, Zenon DEF Reviewed, ApprovalsAfterFlush
    <3>5. review[c] = "approved" => Cardinality(Approvals(c)) >= ApprovalsRequired
      BY Zenon DEF ReviewInv
    <3> QED
      BY <2>3, <3>1, <3>3, <3>4, <3>5, ConstantsAssumption
  <2> QED
    BY <2>1, <2>2, <2>3, <1>3, Zenon
<1> QED
  BY <1>4, <1>5, <1>7, <1>8, <1>9, Zenon DEF ReviewInv

\* Every step keeps the reviews in order.
LEMMA ReviewStep == TypeOK /\ ReviewInv /\ [Next]_vars => ReviewInv'
<1> SUFFICES ASSUME TypeOK, ReviewInv, [Next]_vars PROVE ReviewInv'
  BY Zenon
<1>f. ASSUME NEW k \in Clients, NEW next, Goes(k, next), UNCHANGED reviews,
             next.step = "submit" => review[next.decision.candidate] # "none"
      PROVE  ReviewInv'
  BY <1>f, ReviewFrame, Zenon DEF Goes, TypeOK, ReviewInv
<1>i. Idle.step # "submit"
  BY Zenon DEF Idle
<1>1. CASE RunMoves
  BY <1>1, ReviewFrame, Zenon DEF RunMoves, ReviewInv
<1>2. CASE RecordPolicyDecision
  BY <1>2, ReviewFrame, Zenon DEF RecordPolicyDecision, ReviewInv
<1>3. ASSUME NEW k \in Clients, Step(k) PROVE ReviewInv'
  <2>1. ASSUME NEW c \in Candidates, ReadForStage(k, c) \/ ReadForReview(k, c) PROVE ReviewInv'
    <3>1. /\ [step |-> "stage", candidate |-> c].step # "submit"
          /\ [step |-> "create", candidate |-> c].step # "submit"
      BY Zenon
    <3> QED
      BY <2>1, <3>1, <1>f, Zenon DEF ReadForStage, ReadForReview
  <2>2. ASSUME NEW e \in EvaluationRow, ReadForEvaluation(k, e) PROVE ReviewInv'
    <3>1. [step |-> "evaluate", row |-> e, prior |-> candidate[e.candidate]].step # "submit"
      BY Zenon
    <3> QED
      BY <2>2, <3>1, <1>f, Zenon DEF ReadForEvaluation
  <2>3. ASSUME NEW d \in Decision, ReadForDecision(k, d) PROVE ReviewInv'
    <3>1. [step |-> "decide", decision |-> d, row |-> run].step # "submit"
      BY Zenon
    <3> QED
      BY <2>3, <3>1, <1>f, Zenon DEF ReadForDecision
  <2>4. CASE ReadCandidate(k)
    <3>1. [step |-> "commit", decision |-> call[k].decision, row |-> call[k].row,
           prior |-> candidate[call[k].decision.candidate]].step # "submit"
      BY Zenon
    <3> QED
      BY <2>4, <3>1, <1>f, Zenon DEF ReadCandidate
  <2>5. CASE StageCandidate(k) \/ RecordEvaluation(k) \/ CommitDecision(k)
               \/ CommitAdmission(k) \/ Rollback(k)
    BY <2>5, <1>i, <1>f, Zenon
       DEF StageCandidate, RecordEvaluation, CommitDecision, CommitAdmission, Rollback
  <2>6. CASE CreateReview(k)
    <3>1. PICK c \in Candidates : c = call[k].candidate
      BY <2>6, CallTypes, Zenon DEF CreateReview
    <3>2. /\ review[c] = "none" /\ decisions' = decisions
          /\ \A b \in Candidates : review'[b] = IF b = c THEN "pending" ELSE review[b]
      BY <2>6, <3>1, Zenon DEF CreateReview, TypeOK
    <3>3. \A b : Approvals(b)' = Approvals(b)
      BY <3>2, Zenon DEF Approvals
    <3>4. Cardinality(Approvals(c)) = 0
      <4>1. Approvals(c) = {}
        BY <3>2 DEF ReviewInv, Approvals
      <4> QED
        BY <4>1, FS_EmptySet, Zenon
    <3>5. \A d \in decisions' : review'[d.candidate] # "none"
      BY <3>2, Zenon DEF ReviewInv, TypeOK, ReviewDecisionRow
    <3>6. ASSUME NEW j \in Clients, call'[j].step = "submit"
          PROVE  review'[call'[j].decision.candidate] # "none"
      <4>1. call'[j] = call[j]
        BY <2>6, <3>6, Zenon DEF CreateReview, Goes, TypeOK, Idle
      <4>2. call[j].decision.candidate \in Candidates
        BY <3>6, <4>1, CallTypes, Zenon DEF ReviewDecisionRow
      <4> QED
        BY <3>2, <3>6, <4>1, <4>2 DEF ReviewInv
    <3>7. ASSUME NEW b \in Candidates
          PROVE  /\ review'[b] = "approved" => Cardinality(Approvals(b)') >= ApprovalsRequired
                 /\ /\ Cardinality(Approvals(b)') >= ApprovalsRequired
                    /\ \A e \in decisions' : e.candidate = b => e.outcome = "approve"
                    => review'[b] = "approved"
      <4>1. CASE b = c
        BY <4>1, <3>2, <3>3, <3>4, ConstantsAssumption
      <4>2. CASE b # c
        BY <4>2, <3>2, <3>3, Zenon DEF ReviewInv
      <4> QED
        BY <4>1, <4>2, Zenon
    <3> QED
      BY <3>2, <3>5, <3>6, <3>7, Zenon DEF ReviewInv
  <2>7. ASSUME NEW d \in ReviewDecisionRow, ReadForSubmit(k, d) PROVE ReviewInv'
    <3>1. [step |-> "submit", decision |-> d].decision = d
      BY Zenon
    <3> QED
      BY <2>7, <3>1, <1>f, Zenon DEF ReadForSubmit
  <2>8. CASE SubmitReview(k)
    BY <2>8, SubmissionKeepsReviews, Zenon
  <2> QED
    BY <1>3, <2>1, <2>2, <2>3, <2>4, <2>5, <2>6, <2>7, <2>8, Zenon DEF Step
<1>4. CASE UNCHANGED vars
  BY <1>4, ReviewFrame, Zenon DEF vars, reviews, ReviewInv
<1> QED
  BY <1>1, <1>2, <1>3, <1>4, Zenon DEF Next
-----------------------------------------------------------------------------
\* create_run's rows satisfy the invariant.
LEMMA InitInv == Init => Inv
<1> SUFFICES ASSUME Init PROVE Inv
  BY Zenon
<1>0. Idle \in Call /\ Idle.step = "idle"
  BY Zenon DEF Call, Idle
<1>1. TypeOK
  <2>1. policyRecorded \in BOOLEAN
    BY Zenon DEF Init
  <2>2. run \in RunRow /\ lineage \subseteq LineageRow
    <3>1. /\ run = [state |-> "running", revision |-> 0, champion |-> Seed]
          /\ lineage = {[sequence |-> 0, candidate |-> Seed]}
      BY Zenon DEF Init
    <3> QED
      BY <3>1 DEF RunRow, LineageRow, RunState
  <2> QED
    BY <1>0, <2>1, <2>2, Zenon DEF Init, TypeOK
<1>2. PathInv
  <2>1. /\ run.revision = 0 /\ run.champion = Seed
        /\ lineage = {[sequence |-> 0, candidate |-> Seed]}
        /\ \A c : Admits(c) = {}
    BY Zenon DEF Init, Admits
  <2>2. {l.sequence : l \in lineage} = 0 .. 0
    BY <2>1
  <2> QED
    BY <2>1, <2>2, ConstantsAssumption DEF PathInv
<1>3. EvidenceInv
  <2>1. \A c \in Candidates : ~ Listed(c)
    BY ConstantsAssumption DEF Init, Listed
  <2> QED
    BY <1>0, <2>1, Zenon DEF Init, EvidenceInv, CallsBacked
<1>4. ReviewInv
  <2>1. /\ \A c : Approvals(c) = {}
        /\ decisions = {} /\ call = [k \in Clients |-> Idle]
        /\ review = [c \in Candidates |-> "none"]
    BY Zenon DEF Init, Approvals
  <2> QED
    BY <1>0, <2>1, FS_EmptySet, ConstantsAssumption DEF ReviewInv
<1> QED
  BY <1>1, <1>2, <1>3, <1>4, Zenon DEF Inv

\* The invariant is inductive.
THEOREM Invariance == Spec => []Inv
<1>1. Inv /\ [Next]_vars => Inv'
  BY TypeStep, LineageStep, ReviewStep, Zenon DEF Inv
<1> QED
  BY <1>1, InitInv, PTL DEF Spec

\* For any number of callers and candidates the lineage is one path from the seed to
\* the champion, each entry admitted against the one before it.
THEOREM LineagePath == Spec => []LineageIsPath
<1>1. Inv => LineageIsPath
  <2> SUFFICES ASSUME Inv PROVE LineageIsPath
    BY Zenon
  <2>1. \E n \in 0 .. MaxRevision : {l.sequence : l \in lineage} = 0 .. n
    BY ConstantsAssumption DEF Inv, TypeOK, RunRow, PathInv
  <2> QED
    BY <2>1, Zenon DEF Inv, PathInv, LineageIsPath
<1> QED
  BY <1>1, Invariance, PTL

\* Whatever calls run at once, a candidate that is admitted or in the lineage has one
\* admitting decision, a passing evaluation and its lineage entry (commit_admission).
THEOREM AdmissionEvidence == Spec => []AdmittedHasEvidence
<1>1. Inv => AdmittedHasEvidence
  <2> SUFFICES ASSUME Inv, NEW c \in Candidates,
                      candidate[c] = "admitted" \/ (\E l \in lineage : l.candidate = c)
               PROVE  /\ Cardinality(Admits(c)) = 1
                      /\ \E e \in evaluations : e.candidate = c /\ e.passes
                      /\ policyRecorded
                      /\ \E l \in lineage : l.candidate = c
    BY Zenon DEF AdmittedHasEvidence
  <2>1. Listed(c)
    BY Zenon DEF Inv, EvidenceInv, Listed
  <2>2. PICK a \in admissions : Admits(c) = {a}
    BY <2>1, Zenon DEF Inv, EvidenceInv
  <2>3. Cardinality(Admits(c)) = 1
    BY <2>2, FS_Singleton, Zenon
  <2> QED
    BY <2>1, <2>3, Zenon DEF Inv, EvidenceInv, HasEvidence, Listed
<1> QED
  BY <1>1, Invariance, PTL

\* A review is approved exactly by enough different reviewers, for any number of
\* reviewers submitting at once.
THEOREM ReviewsNeedQuorum == Spec => []ReviewQuorum
<1>1. Inv => ReviewQuorum
  BY ApprovalsAreReviewers, Zenon DEF Inv, ReviewInv, ReviewQuorum
<1> QED
  BY <1>1, Invariance, PTL
=============================================================================
