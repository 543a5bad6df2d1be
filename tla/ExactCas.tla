------------------------------ MODULE ExactCas ------------------------------
(***************************************************************************)
(* One personal exact compare-and-swap of refs/heads/main from B to C:     *)
(* the create-once journal                                                 *)
(* (adapters/artifacts/main_personal_exact_cas_journal.py), the controller *)
(* that orders and recovers it                                             *)
(* (application/main_personal_exact_cas_controller.py) and the writer that *)
(* sends the one PATCH (adapters/hosted_git/main_exact_cas_github.py).     *)
(*                                                                         *)
(* The controller takes its dispatch port by injection; the port here      *)
(* behaves as the repository's writer does.  The lease, the authority      *)
(* verifier and the trusted source reader are injected too: the lease and  *)
(* the dispatch verifier may refuse at any time, the trusted source may    *)
(* stop accepting the activation, the verifier accepts what the contracts  *)
(* accept.                                                                 *)
(***************************************************************************)
EXTENDS ExactCasContracts

CONSTANTS
  Controllers,     \* concurrent execute() calls
  LeaseRefuses,    \* whether the lease port may refuse before the lease expires
  AuthorizedAt,    \* authorized_at of the authorizations callers hold
  Statuses,        \* the HTTP statuses GitHub answers with
  MaxCasTime,      \* bound on the trusted clock
  NoCall

VARIABLES
  casNow,          \* the trusted clock
  trusted,         \* the trusted source reader accepts the activation
  activation,      \* the journal's single activation record
  cas,             \* the journal: operation -> kind -> record
  casCalls,        \* execute() in progress
  refused,         \* operations a caller was told were rejected after their dispatch began
  head,            \* refs/heads/main
  movers,          \* the operations whose PATCH moved it
  wire             \* the PATCH of each operation and GitHub's answer to it

casVars == <<casNow, trusted, activation, cas, casCalls, refused, head, movers, wire>>

Kinds == {"authorization", "intent", "marker", "receipt", "observation",
          "reconciliation", "completion"}

\* ----- MainPersonalExactCasJournal ----------------------------------------
\* _require_activation and _trusted_evidence_for_activation: the activation is
\* re-read from the trusted source on every write and every read.
TrustedActivation == activation # NoRecord /\ trusted

\* _record: a create-once index; equal bytes are a replay, others a conflict.
Publishable(o, kind, r) == cas[o][kind] \in {NoRecord, r}

AssertScope(r, authority) == r.op = authority.op

RecordAuthorization(a) ==
  TrustedActivation /\ Publishable(a.op, "authorization", a)

RecordIntent(i) ==
  /\ TrustedActivation
  /\ cas[i.op].authorization = i.authorization
  /\ AssertScope(i, i.authorization)
  /\ Publishable(i.op, "intent", i)

DispatchBinding(m) ==
  /\ TrustedActivation
  /\ cas[m.op].intent = m.intent
  /\ AssertScope(m, m.intent)

\* claim_dispatch_started: ownership is the outcome of the exclusive creation.
ClaimedByReplay(m) == DispatchBinding(m) /\ Publishable(m.op, "marker", m)
ClaimDispatchStarted(m) == DispatchBinding(m) /\ cas[m.op].marker = NoRecord

VerifiedReceipt(r) ==
  /\ TrustedActivation
  /\ cas[r.op].intent = r.intent
  /\ cas[r.op].marker = r.marker
  /\ AssertScope(r, r.intent)

RecordReceipt(r) == VerifiedReceipt(r) /\ Publishable(r.op, "receipt", r)

RecordPostState(p) ==
  /\ cas[p.op].receipt = p.receipt /\ VerifiedReceipt(p.receipt)
  /\ Publishable(p.op, "observation", p)

RecordReconciliation(r) ==
  /\ cas[r.op].receipt = r.receipt /\ VerifiedReceipt(r.receipt)
  /\ cas[r.op].observation = r.observation
  /\ r.receipt.outcome = "ambiguous"
  /\ Publishable(r.op, "reconciliation", r)

\* _assert_completion_arm: an applied receipt, or an ambiguous one reconciled
\* as applied, and exact topology in both arms.
AssertCompletionArm(c) ==
  /\ ExactTopology(c.observation.commit)
  /\ \/ c.receipt.outcome = "applied" /\ c.reconciliation = NoRecord
     \/ /\ c.receipt.outcome = "ambiguous"
        /\ c.reconciliation # NoRecord
        /\ c.reconciliation.outcome = "applied"

RecordCompletion(c) ==
  /\ cas[c.op].receipt = c.receipt /\ VerifiedReceipt(c.receipt)
  /\ cas[c.op].observation = c.observation
  /\ cas[c.op].reconciliation = c.reconciliation
  /\ AssertCompletionArm(c)
  /\ Publishable(c.op, "completion", c)

\* read_*: a record that is there is returned only if its chain revalidates.
Read(o, kind) == cas[o][kind]
RevalidateChain(o, kind) == cas[o][kind] # NoRecord => TrustedActivation

Write(o, kind, r) == cas' = [cas EXCEPT ![o][kind] = r]

\* ----- controller plumbing ------------------------------------------------
Call(c) == casCalls[c]
At(c, pc) == casCalls[c] # NoCall /\ casCalls[c].pc = pc

Goes(c, call) == casCalls' = [casCalls EXCEPT ![c] = call] /\ UNCHANGED refused

Returns(c, state) ==
  /\ casCalls' = [casCalls EXCEPT ![c] = NoCall]
  /\ refused' = IF state = "rejected" /\ cas[casCalls[c].op].marker # NoRecord
                THEN refused \cup {casCalls[c].op} ELSE refused

Unresolved(c) == Returns(c, "reconciliation_required")
SafeFailure(c) == Returns(c, "rejected")

World == <<head, movers, wire>>
Authority == <<casNow, trusted, activation>>

BeforeExpiry == casNow < LeaseExpiry

\* The clock and lease checks against the time of the last record.
LeaseHolds(since) == BeforeExpiry /\ casNow >= since
LeaseFails(since) == LeaseRefuses \/ ~LeaseHolds(since)

\* ----- execute ------------------------------------------------------------
Begin(c, a) ==
  /\ casCalls[c] = NoCall
  /\ Goes(c, [op |-> a.op, pc |-> "completion", authorization |-> a,
              at |-> 0, intent |-> NoRecord, marker |-> NoRecord,
              receipt |-> NoRecord, observation |-> NoRecord,
              reconciliation |-> NoRecord])
  /\ UNCHANGED <<Authority, cas, World>>

ReadCompletion(c) ==
  /\ At(c, "completion")
  /\ LET o == Call(c).op IN
       CASE ~RevalidateChain(o, "completion") -> Unresolved(c)
         [] Read(o, "completion") # NoRecord -> Returns(c, "completed")
         [] OTHER -> Goes(c, [Call(c) EXCEPT !.pc = "marker"])
  /\ UNCHANGED <<Authority, cas, World>>

ReadMarker(c) ==
  /\ At(c, "marker")
  /\ LET o == Call(c).op IN
       IF RevalidateChain(o, "marker")
       THEN Goes(c, [Call(c) EXCEPT !.pc = "receipt", !.marker = Read(o, "marker")])
       ELSE Unresolved(c)
  /\ UNCHANGED <<Authority, cas, World>>

\* A marker without a receipt is never dispatched again; a receipt is recovered.
ReadReceipt(c) ==
  /\ At(c, "receipt")
  /\ LET o == Call(c).op
         r == Read(o, "receipt") IN
       CASE ~RevalidateChain(o, "receipt") -> Unresolved(c)
         [] r = NoRecord /\ Call(c).marker # NoRecord -> Unresolved(c)
         [] r = NoRecord /\ Call(c).marker = NoRecord ->
              Goes(c, [Call(c) EXCEPT !.pc = "authorize"])
         [] r # NoRecord /\ r.outcome = "rejected" -> Returns(c, "rejected")
         [] OTHER -> Goes(c, [Call(c) EXCEPT !.pc = "recover", !.receipt = r])
  /\ UNCHANGED <<Authority, cas, World>>

\* _recover_receipt: intent and marker, then the observation, then the reconciliation.
RecoverObservation(c) ==
  /\ At(c, "recover")
  /\ LET o == Call(c).op IN
       IF TrustedActivation /\ Read(o, "intent") # NoRecord /\ Read(o, "marker") # NoRecord
       THEN Goes(c, [Call(c) EXCEPT !.pc = "recovered",
                                    !.observation = Read(o, "observation")])
       ELSE Unresolved(c)
  /\ UNCHANGED <<Authority, cas, World>>

RecoverReconciliation(c) ==
  /\ At(c, "recovered")
  /\ LET r == Read(Call(c).op, "reconciliation") IN
       CASE ~RevalidateChain(Call(c).op, "reconciliation") -> Unresolved(c)
         [] r # NoRecord /\ Call(c).observation = NoRecord -> Unresolved(c)
         [] OTHER ->
              Goes(c, [Call(c) EXCEPT !.reconciliation = r,
                         !.pc = IF Call(c).observation = NoRecord
                                THEN "observe" ELSE "close"])
  /\ UNCHANGED <<Authority, cas, World>>

\* record_authorization, the clock and the lease, then the durable intent if any.
Authorize(c) ==
  /\ At(c, "authorize")
  /\ LET a == Call(c).authorization
         i == Read(a.op, "intent") IN
     IF ~RecordAuthorization(a) THEN SafeFailure(c) /\ UNCHANGED cas
     ELSE /\ Write(a.op, "authorization", a)
          /\ \/ LeaseFails(a.at) /\ SafeFailure(c)
             \/ /\ LeaseHolds(a.at)
                /\ CASE i = NoRecord ->
                          Goes(c, [Call(c) EXCEPT !.pc = "intend", !.at = casNow])
                     [] i # NoRecord /\ i.authorization = a ->
                          Goes(c, [Call(c) EXCEPT !.pc = "gate", !.intent = i])
                     [] OTHER -> SafeFailure(c)
  /\ UNCHANGED <<Authority, World>>

Intend(c) ==
  /\ At(c, "intend")
  /\ LET i == [op |-> Call(c).op, authorization |-> Call(c).authorization,
               at |-> Call(c).at] IN
     IF RecordIntent(i)
     THEN Write(i.op, "intent", i) /\ Goes(c, [Call(c) EXCEPT !.pc = "gate", !.intent = i])
     ELSE SafeFailure(c) /\ UNCHANGED cas
  /\ UNCHANGED <<Authority, World>>

\* The last gate before the marker: the clock and the lease.
Gate(c) ==
  /\ At(c, "gate")
  /\ \/ LeaseFails(Call(c).intent.at) /\ SafeFailure(c)
     \/ /\ LeaseHolds(Call(c).intent.at)
        /\ Goes(c, [Call(c) EXCEPT !.pc = "claim", !.at = casNow])
  /\ UNCHANGED <<Authority, cas, World>>

\* The winner goes on; an equal marker is another controller's, a different one
\* is a conflict, which the except clause reports as a rejection.
Claim(c) ==
  /\ At(c, "claim")
  /\ LET m == [op |-> Call(c).op, intent |-> Call(c).intent, at |-> Call(c).at] IN
     CASE ClaimDispatchStarted(m) ->
            /\ Write(m.op, "marker", m)
            /\ Goes(c, [Call(c) EXCEPT !.pc = "fence", !.marker = m])
       [] ~ClaimDispatchStarted(m) /\ DispatchBinding(m) /\ Publishable(m.op, "marker", m) ->
            Unresolved(c) /\ UNCHANGED cas
       [] OTHER -> SafeFailure(c) /\ UNCHANGED cas
  /\ UNCHANGED <<Authority, World>>

\* Publication may pause: the clock and the lease once more before the call.
Fence(c) ==
  /\ At(c, "fence")
  /\ \/ LeaseFails(Call(c).marker.at) /\ Unresolved(c)
     \/ LeaseHolds(Call(c).marker.at) /\ Goes(c, [Call(c) EXCEPT !.pc = "apply"])
  /\ UNCHANGED <<Authority, cas, World>>

\* ----- GitHubPersonalExactCasWriter.apply ---------------------------------
ErrorCodeForStatus(status) ==
  CASE status = 409 -> "cas_conflict"
    [] status \in {401, 403} -> "auth_failed"
    [] status = 429 -> "rate_limited"
    [] OTHER -> "configuration_failed"

\* The receipt of an answer with this status, well formed or not.
ServerErrorRejected(status, exact) ==
  CASE status = 200 /\ exact -> [outcome |-> "applied", started |-> TRUE, status |-> status,
                                 sha |-> "candidate", error |-> ""]
    [] OTHER -> [outcome |-> "rejected", started |-> TRUE, status |-> status,
                 sha |-> "", error |-> ErrorCodeForStatus(status)]
ReceiptOfAnswer(status, exact) ==
  CASE status = 200 /\ exact -> [outcome |-> "applied", started |-> TRUE, status |-> status,
                                 sha |-> "candidate", error |-> ""]
    [] status = 200 /\ ~exact -> [outcome |-> "ambiguous", started |-> TRUE, status |-> status,
                                  sha |-> "", error |-> "malformed_response"]
    [] status \in 400..499 -> [outcome |-> "rejected", started |-> TRUE, status |-> status,
                               sha |-> "", error |-> ErrorCodeForStatus(status)]
    [] OTHER -> [outcome |-> "ambiguous", started |-> TRUE, status |-> status,
                 sha |-> "", error |-> "server_ambiguous"]

ReceiptWithoutAnswer(outcome, started, error) ==
  [outcome |-> outcome, started |-> started, status |-> 0, sha |-> "", error |-> error]

\* The receipt the controller checks against its intent and its marker.
Receives(c, w) ==
  Goes(c, [Call(c) EXCEPT !.pc = "finish",
             !.receipt = [op |-> Call(c).op, intent |-> Call(c).intent,
                          marker |-> Call(c).marker, outcome |-> w.outcome,
                          started |-> w.started, status |-> w.status, error |-> w.error,
                          sha |-> w.sha, at |-> casNow]])

ApplyRefused(c) ==
  /\ At(c, "apply")
  /\ \E error \in {"verifier_rejected"} \cup (IF BeforeExpiry THEN {} ELSE {"lease_expired"}) :
       Receives(c, ReceiptWithoutAnswer("rejected", FALSE, error))
  /\ UNCHANGED <<Authority, cas, World>>

Dispatch(c) ==
  /\ At(c, "apply") /\ BeforeExpiry
  /\ wire' = [wire EXCEPT ![Call(c).op] =
                [sent |-> @.sent + 1, request |-> "flying", status |-> 0]]
  /\ Goes(c, [Call(c) EXCEPT !.pc = "await"])
  /\ UNCHANGED <<Authority, cas, head, movers>>

\* The answer, no answer, or an exception that leaves no receipt.
Answered(c) ==
  /\ At(c, "await") /\ wire[Call(c).op].request = "answered"
  /\ \E exact \in BOOLEAN : Receives(c, ReceiptOfAnswer(wire[Call(c).op].status, exact))
  /\ UNCHANGED <<Authority, cas, World>>

Unanswered(c) ==
  /\ At(c, "await")
  /\ \/ Receives(c, ReceiptWithoutAnswer("ambiguous", TRUE, "transport_ambiguous"))
     \/ Unresolved(c)
  /\ UNCHANGED <<Authority, cas, World>>

\* ----- _finish_receipt, _observe_and_close ---------------------------------
FinishReceipt(c) ==
  /\ At(c, "finish")
  /\ LET r == Call(c).receipt IN
     IF ~RecordReceipt(r) THEN Unresolved(c) /\ UNCHANGED cas
     ELSE /\ Write(r.op, "receipt", r)
          /\ IF r.outcome = "rejected" THEN Returns(c, "rejected")
             ELSE Goes(c, [Call(c) EXCEPT !.pc = "observe"])
  /\ UNCHANGED <<Authority, World>>

Observe(c) ==
  /\ At(c, "observe")
  /\ LET p == [op |-> Call(c).op, receipt |-> Call(c).receipt, commit |-> head,
               at |-> casNow] IN
     \/ Unresolved(c)
     \/ /\ MainPersonalExactCasPostStateObservation(p)
        /\ Goes(c, [Call(c) EXCEPT !.pc = "post", !.observation = p])
  /\ UNCHANGED <<Authority, cas, World>>

RecordObservation(c) ==
  /\ At(c, "post")
  /\ LET p == Call(c).observation IN
     IF RecordPostState(p)
     THEN Write(p.op, "observation", p) /\ Goes(c, [Call(c) EXCEPT !.pc = "close"])
     ELSE Unresolved(c) /\ UNCHANGED cas
  /\ UNCHANGED <<Authority, World>>

\* The reconciliation of what was observed after an ambiguous receipt.
ReconciliationOf(p) ==
  [op |-> p.op, receipt |-> p.receipt, observation |-> p,
   outcome |-> IF ExactTopology(p.commit) THEN "applied" ELSE "ambiguous"]

\* An ambiguous receipt is reconciled first, whatever was observed.
Close(c) ==
  /\ At(c, "close")
  /\ LET p == Call(c).observation
         exact == ExactTopology(p.commit)
         r == ReconciliationOf(p) IN
     CASE p.receipt.outcome # "ambiguous" ->
            /\ IF exact THEN Goes(c, [Call(c) EXCEPT !.pc = "complete"]) ELSE Unresolved(c)
            /\ UNCHANGED cas
       [] p.receipt.outcome = "ambiguous" /\ Call(c).reconciliation = NoRecord
          /\ ~RecordReconciliation(r) -> Unresolved(c) /\ UNCHANGED cas
       [] OTHER ->
            /\ IF Call(c).reconciliation = NoRecord
               THEN Write(p.op, "reconciliation", r) ELSE UNCHANGED cas
            /\ IF exact
               THEN Goes(c, [Call(c) EXCEPT !.pc = "complete",
                               !.reconciliation = IF @ = NoRecord THEN r ELSE @])
               ELSE Unresolved(c)
  /\ UNCHANGED <<Authority, World>>

Complete(c) ==
  /\ At(c, "complete")
  /\ LET d == [op |-> Call(c).op, receipt |-> Call(c).receipt,
               observation |-> Call(c).observation,
               reconciliation |-> Call(c).reconciliation] IN
     IF RecordCompletion(d)
     THEN Write(d.op, "completion", d) /\ Returns(c, "completed")
     ELSE Unresolved(c) /\ UNCHANGED cas
  /\ UNCHANGED <<Authority, World>>

\* ----- the environment ----------------------------------------------------
\* record_activation: the source is accepted when it is recorded.
RecordActivation ==
  /\ activation = NoRecord /\ trusted
  /\ activation' = [base |-> "base", candidate |-> "candidate"]
  /\ UNCHANGED <<casNow, trusted, cas, casCalls, refused, World>>

RevokeSource ==
  /\ trusted
  /\ trusted' = FALSE
  /\ UNCHANGED <<casNow, activation, cas, casCalls, refused, World>>

\* GitHub processes a PATCH: force is FALSE, so main moves only from the
\* candidate's parent; an error of the server says nothing about the effect.
Lands(o, status) ==
  /\ wire[o].request = "flying"
  /\ wire' = [wire EXCEPT ![o].request = "answered", ![o].status = status]
  /\ \/ /\ status = 200 \/ status >= 500
        /\ head \in {"base", "candidate"}
        /\ head' = "candidate"
        /\ movers' = IF head = "base" THEN movers \cup {o} ELSE movers
     \/ status # 200 /\ UNCHANGED <<head, movers>>
  /\ UNCHANGED <<Authority, cas, casCalls, refused>>

\* A later operation builds on the candidate.
MainAdvances ==
  /\ head = "candidate"
  /\ head' = "later"
  /\ UNCHANGED <<Authority, cas, casCalls, refused, movers, wire>>

Crash(c) ==
  /\ casCalls[c] # NoCall
  /\ casCalls' = [casCalls EXCEPT ![c] = NoCall]
  /\ UNCHANGED <<Authority, cas, refused, World>>

CasTick ==
  /\ casNow < MaxCasTime
  /\ casNow' = casNow + 1
  /\ UNCHANGED <<trusted, activation, cas, casCalls, refused, World>>

CasInit ==
  /\ casNow = 0
  /\ trusted = TRUE
  /\ activation = NoRecord
  /\ cas = [o \in Operations |-> [k \in Kinds |-> NoRecord]]
  /\ casCalls = [c \in Controllers |-> NoCall]
  /\ refused = {}
  /\ head = "base"
  /\ movers = {}
  /\ wire = [o \in Operations |-> [sent |-> 0, request |-> "none", status |-> 0]]

Execute(c) ==
  \/ \E o \in Operations, t \in AuthorizedAt : Begin(c, [op |-> o, at |-> t])
  \/ ReadCompletion(c) \/ ReadMarker(c) \/ ReadReceipt(c)
  \/ RecoverObservation(c) \/ RecoverReconciliation(c)
  \/ Authorize(c) \/ Intend(c) \/ Gate(c) \/ Claim(c) \/ Fence(c)
  \/ ApplyRefused(c) \/ Dispatch(c) \/ Answered(c) \/ Unanswered(c)
  \/ FinishReceipt(c) \/ Observe(c) \/ RecordObservation(c) \/ Close(c) \/ Complete(c)
  \/ Crash(c)

CasNext ==
  \/ \E c \in Controllers : Execute(c)
  \/ \E o \in Operations, s \in Statuses : Lands(o, s)
  \/ RecordActivation \/ RevokeSource \/ MainAdvances \/ CasTick

CasSpec == CasInit /\ [][CasNext]_casVars

\* ----- properties ---------------------------------------------------------
\* Every durable record satisfies its contract.
CasTypeOK ==
  /\ casNow \in 0..MaxCasTime /\ trusted \in BOOLEAN /\ head \in Commits
  /\ activation # NoRecord => MainPersonalExactCasActivation(activation)
  /\ movers \subseteq Operations
  /\ \A o \in Operations : LET J == cas[o] IN
       /\ J.authorization # NoRecord => MainPersonalExactCasAuthorization(J.authorization)
       /\ J.intent # NoRecord => MainPersonalExactCasIntent(J.intent)
       /\ J.marker # NoRecord => MainPersonalExactCasDispatchStarted(J.marker)
       /\ J.receipt # NoRecord => MainPersonalExactCasReceipt(J.receipt)
                                  /\ MainExactCasReceipt(J.receipt)
       /\ J.observation # NoRecord => MainPersonalExactCasPostStateObservation(J.observation)
       /\ J.reconciliation # NoRecord => MainPersonalExactCasReconciliation(J.reconciliation)
       /\ J.completion # NoRecord => MainPersonalExactCasCompletion(J.completion)

\* However many controllers run or recover an operation, and wherever they
\* crash, its PATCH is sent at most once (claim_dispatch_started).
OnePatch == \A o \in Operations : wire[o].sent <= 1

\* A durable rejection is of a PATCH that did not move main and never will, and
\* a completion is of a main that reached the candidate (_dispatch_once,
\* _assert_completion_arm): a late or lost answer is credited to neither.
CasOutcomesTrue ==
  \A o \in Operations :
    /\ cas[o].receipt # NoRecord /\ cas[o].receipt.outcome = "rejected" =>
         o \notin movers /\ wire[o].request # "flying"
    /\ cas[o].completion # NoRecord => head # "base"
=============================================================================
