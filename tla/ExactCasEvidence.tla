-------------------------- MODULE ExactCasEvidence --------------------------
(***************************************************************************)
(* What is kept of the one PATCH besides the controller's own records: the *)
(* transport leaf (hosted_git/main_personal_exact_cas_github.py), the      *)
(* create-once response evidence and its classification, the read-only     *)
(* post-state a collector captures, and the bundle composed of them        *)
(* (adapters/artifacts/main_personal_exact_cas_{response_evidence,         *)
(* response_reconciliation,post_state,evidence_bundle}.py).                *)
(*                                                                         *)
(* Of the authority journal only its readers are used: intent and marker   *)
(* of an operation, readable while the trusted source accepts them.        *)
(* Bodies and headers are abstracted: an answer is well formed or it is    *)
(* not.                                                                    *)
(***************************************************************************)
EXTENDS ExactCasContracts

CONSTANTS
  Collectors,      \* concurrent capture() calls
  AnswerStatuses,  \* the HTTP statuses GitHub answers with
  MaxEvidenceTime  \* bound on the trusted clock

VARIABLES
  evNow,           \* the trusted clock
  main,            \* refs/heads/main, with the operations whose PATCH moved it
  chain,           \* operation -> when its marker was recorded, or NoRecord
  readable,        \* the journal's readers accept the authority chain
  patch,           \* operation -> the exchange and what it returned
  evidence,        \* the response evidence index
  classified,      \* the classification index
  captures,        \* capture() in progress
  postState        \* the post-state index

evidenceVars == <<evNow, main, chain, readable, patch, evidence, classified,
                  captures, postState>>

\* ----- the authority journal and GitHub -----------------------------------
\* _authority_chain, _authority_model: intent and marker, re-read each time.
AuthorityChain(o) == readable /\ chain[o] # NoRecord

MarkDispatch(o) ==
  /\ chain[o] = NoRecord
  /\ chain' = [chain EXCEPT ![o] = evNow]
  /\ UNCHANGED <<evNow, main, readable, patch, evidence, classified, captures, postState>>

AuthorityUnreadable ==
  /\ readable /\ readable' = FALSE
  /\ UNCHANGED <<evNow, main, chain, patch, evidence, classified, captures, postState>>

PatchLands(o, status) ==
  /\ patch[o].state \in {"flying", "abandoned"}
  /\ patch' = [patch EXCEPT ![o] =
                 [state |-> IF @.state = "flying" THEN "answered" ELSE "failed",
                  status |-> status, at |-> 0]]
  /\ \/ /\ status = 200 \/ status >= 500
        /\ main.head # "later"
        /\ main' = [head |-> "candidate",
                    movers |-> IF main.head = "base" THEN main.movers \cup {o}
                               ELSE main.movers]
     \/ status # 200 /\ UNCHANGED main
  /\ UNCHANGED <<evNow, chain, readable, evidence, classified, captures, postState>>

MainMoves ==
  /\ main.head = "candidate" /\ main' = [main EXCEPT !.head = "later"]
  /\ UNCHANGED <<evNow, chain, readable, patch, evidence, classified, captures, postState>>

\* ----- MainPersonalExactCasGitHubTransport.exchange ------------------------
Exchange(o) ==
  /\ chain[o] # NoRecord /\ patch[o].state = "none"
  /\ patch' = [patch EXCEPT ![o].state = "flying"]
  /\ UNCHANGED <<evNow, main, chain, readable, evidence, classified, captures, postState>>

\* _open: the exchange times out; the request may still be processed.
ExchangeFails(o) ==
  /\ patch[o].state = "flying"
  /\ patch' = [patch EXCEPT ![o].state = "abandoned"]
  /\ UNCHANGED <<evNow, main, chain, readable, evidence, classified, captures, postState>>

\* _parse and parse_main_personal_exact_cas_response: an answer within bounds is
\* an observation, any other one an error that carries none.
Parse(o, wellFormed) ==
  /\ patch[o].state = "answered"
  /\ patch' = [patch EXCEPT ![o] =
                 IF wellFormed THEN [@ EXCEPT !.state = "observed", !.at = evNow]
                 ELSE [@ EXCEPT !.state = "failed"]]
  /\ UNCHANGED <<evNow, main, chain, readable, evidence, classified, captures, postState>>

\* ----- record_response_evidence, classify ---------------------------------
EvidenceOf(o) ==
  [op |-> o, marker |-> chain[o], status |-> patch[o].status,
   class |-> ClassificationForStatus(patch[o].status), at |-> patch[o].at]

\* _validate_scope: the observation is of this intent, after its marker.
ValidateScope(o) == patch[o].state = "observed" /\ patch[o].at >= chain[o]

RecordResponseEvidence(o) ==
  /\ AuthorityChain(o) /\ ValidateScope(o)
  /\ evidence[o] \in {NoRecord, EvidenceOf(o)}
  /\ evidence' = [evidence EXCEPT ![o] = EvidenceOf(o)]
  /\ UNCHANGED <<evNow, main, chain, readable, patch, classified, captures, postState>>

\* read_response_evidence: the bytes are parsed again and bound to the chain.
ReadResponseEvidence(o) ==
  /\ AuthorityChain(o) /\ evidence[o] # NoRecord
  /\ evidence[o].marker = chain[o]
  /\ evidence[o].class = ClassificationForStatus(evidence[o].status)

AnyFailureRejects(class) ==
  IF class = "candidate_response" THEN "candidate_observed"
  ELSE "conclusive_rejection_observed"
Conclusion(class) == ClassificationByResponse(class)

Classify(o) ==
  /\ ReadResponseEvidence(o)
  /\ LET c == [op |-> o, evidence |-> evidence[o], class |-> evidence[o].class,
               kind |-> Conclusion(evidence[o].class)] IN
     /\ classified[o] \in {NoRecord, c}
     /\ classified' = [classified EXCEPT ![o] = c]
  /\ UNCHANGED <<evNow, main, chain, readable, patch, evidence, captures, postState>>

\* ----- capture: the post-state reader between two reads of the chain -------
ReadPostState(o) == AuthorityChain(o) /\ postState[o] # NoRecord

StartCapture(x, o) ==
  /\ captures[x] = NoRecord
  /\ AuthorityChain(o) /\ postState[o] = NoRecord
  /\ captures' = [captures EXCEPT ![x] =
                    [op |-> o, marker |-> chain[o], started |-> evNow, step |-> "ref",
                     ref |-> "base"]]
  /\ UNCHANGED <<evNow, main, chain, readable, patch, evidence, classified, postState>>

\* observe: the ref first; the commit it names is immutable ...
ObserveRef(x) ==
  /\ captures[x] # NoRecord /\ captures[x].step = "ref"
  /\ captures' = [captures EXCEPT ![x].step = "fence", ![x].ref = main.head]
  /\ UNCHANGED <<evNow, main, chain, readable, patch, evidence, classified, postState>>

\* ... and the ref again, which must not have drifted.
FenceHolds(x) == main.head = captures[x].ref

ObserveFence(x) ==
  /\ captures[x] # NoRecord /\ captures[x].step = "fence"
  /\ captures' = [captures EXCEPT ![x] =
                    IF FenceHolds(x) THEN [@ EXCEPT !.step = "publish"] ELSE NoRecord]
  /\ UNCHANGED <<evNow, main, chain, readable, patch, evidence, classified, postState>>

\* _validate_observation and _publish_index, create-once.
PublishCapture(x) ==
  /\ captures[x] # NoRecord /\ captures[x].step = "publish"
  /\ LET k == captures[x]
         p == [op |-> k.op, commit |-> k.ref, started |-> k.started, finished |-> evNow] IN
     IF AuthorityChain(k.op) /\ chain[k.op] = k.marker /\ p.started >= k.marker
        /\ postState[k.op] \in {NoRecord, p}
     THEN postState' = [postState EXCEPT ![k.op] = p]
     ELSE UNCHANGED postState
  /\ captures' = [captures EXCEPT ![x] = NoRecord]
  /\ UNCHANGED <<evNow, main, chain, readable, patch, evidence, classified>>

StopCapture(x) ==
  /\ captures[x] # NoRecord
  /\ captures' = [captures EXCEPT ![x] = NoRecord]
  /\ UNCHANGED <<evNow, main, chain, readable, patch, evidence, classified, postState>>

\* ----- MainPersonalExactCasEvidenceBundleAdapter.compose -------------------
\* Nothing is written: a bundle is what the two indexes hold, of one chain.
Composes(o) ==
  /\ ReadResponseEvidence(o) /\ ReadPostState(o)
  /\ evidence[o].op = o /\ postState[o].op = o
  /\ evidence[o].at >= chain[o] /\ postState[o].started >= chain[o]

Bundle(o) == [op |-> o, response |-> evidence[o], post |-> postState[o]]

EvidenceTick ==
  /\ evNow < MaxEvidenceTime /\ evNow' = evNow + 1
  /\ UNCHANGED <<main, chain, readable, patch, evidence, classified, captures, postState>>

EvidenceInit ==
  /\ evNow = 0
  /\ main = [head |-> "base", movers |-> {}]
  /\ chain = [o \in Operations |-> NoRecord]
  /\ readable = TRUE
  /\ patch = [o \in Operations |-> [state |-> "none", status |-> 0, at |-> 0]]
  /\ evidence = [o \in Operations |-> NoRecord]
  /\ classified = [o \in Operations |-> NoRecord]
  /\ captures = [x \in Collectors |-> NoRecord]
  /\ postState = [o \in Operations |-> NoRecord]

EvidenceNext ==
  \/ \E o \in Operations :
       \/ MarkDispatch(o) \/ Exchange(o) \/ ExchangeFails(o)
       \/ RecordResponseEvidence(o) \/ Classify(o)
       \/ \E status \in AnswerStatuses : PatchLands(o, status)
       \/ \E wellFormed \in BOOLEAN : Parse(o, wellFormed)
       \/ \E x \in Collectors : StartCapture(x, o)
  \/ \E x \in Collectors :
       ObserveRef(x) \/ ObserveFence(x) \/ PublishCapture(x) \/ StopCapture(x)
  \/ MainMoves \/ AuthorityUnreadable \/ EvidenceTick

EvidenceSpec == EvidenceInit /\ [][EvidenceNext]_evidenceVars

\* ----- properties ---------------------------------------------------------
\* The indexes hold records of their contracts, and no bundle mixes operations.
EvidenceTypeOK ==
  /\ evNow \in 0..MaxEvidenceTime /\ main.head \in Commits
  /\ \A o \in Operations :
       /\ evidence[o] # NoRecord => MainPersonalExactCasResponseEvidence(evidence[o])
       /\ classified[o] # NoRecord =>
            MainPersonalExactCasResponseReconciliationClassification(classified[o])
       /\ postState[o] # NoRecord => MainPersonalExactCasReadOnlyPostState(postState[o])
       /\ Composes(o) => Bundle(o).response.op = o /\ Bundle(o).post.op = o

\* A conclusive rejection is of a PATCH that did not move main, a candidate
\* response of a main that reached the candidate, and a bundle contradicts its
\* candidate response only when its collector started before that response was
\* observed (classify, capture, compose).
EvidenceTrue ==
  \A o \in Operations :
    /\ classified[o] # NoRecord /\ classified[o].kind = "conclusive_rejection_observed" =>
         o \notin main.movers
    /\ evidence[o] # NoRecord /\ evidence[o].class = "candidate_response" =>
         main.head # "base"
    /\ Composes(o) /\ Bundle(o).response.class = "candidate_response"
         /\ Bundle(o).post.commit = "base" =>
         Bundle(o).post.started <= Bundle(o).response.at
=============================================================================
