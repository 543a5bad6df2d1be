------------------------ MODULE SyntheticValidation ------------------------
(***************************************************************************)
(* One validation ref: application/synthetic_validation_service.py over    *)
(* adapters/artifacts/synthetic_validation_journal.py and the three ref    *)
(* requests of adapters/hosted_git/github.py.                              *)
(*                                                                         *)
(* Several processes call trigger and cleanup for the same plan.  Every    *)
(* read of the journal and of the provider is a step of its own.  Outcome, *)
(* attempt and cleanup are linked into place complete; the create claim is *)
(* a directory, then a record in it, then an index that is created empty   *)
(* and written.  A create request may be processed after its caller gave   *)
(* up on it or died.                                                       *)
(***************************************************************************)
EXTENDS Naturals

CONSTANTS
  NoRecord,        \* a record that is not in a journal
  Triggers,        \* processes
  MaxDeaths        \* bound on processes that die within a call

VARIABLES
  vRef,            \* the ref on the provider: "none", "exact" or "wrong"
  vSeeded,         \* the ref existed, exact, before the operation
  vMoved,          \* what someone else moved the ref to, "none" before
  vWire,           \* the create request: "none", "sent", "applied", "refused"
  vCreates,        \* create requests sent
  vPlan,           \* the plan index
  vClaim,          \* "none", "reserved", "recorded", "torn", "indexed"
  vAttempt,        \* the attempt index
  vOutcome,        \* the outcome index
  vProof,          \* the durable completion a proof refers to
  vCleanup,        \* the cleanup index
  vCalls,          \* process -> the call in progress
  vAnswer,         \* process -> what its last call returned
  vDeaths

validationVars == <<vRef, vSeeded, vMoved, vWire, vCreates, vPlan, vClaim, vAttempt,
                    vOutcome, vProof, vCleanup, vCalls, vAnswer, vDeaths>>

provider == <<vRef, vSeeded, vMoved, vWire, vCreates>>
journal == <<vPlan, vClaim, vAttempt, vOutcome, vProof, vCleanup>>

ValidationIdle == [step |-> "idle", attempted |-> FALSE, authorized |-> FALSE, out |-> NoRecord]

At(p, step) == vCalls[p].step = step
Goes(p, step) == vCalls' = [vCalls EXCEPT ![p].step = step]
Hands(p, step, out) == vCalls' = [vCalls EXCEPT ![p].step = step, ![p].out = out]
Returns(p, answer) ==
  /\ vCalls' = [vCalls EXCEPT ![p] = ValidationIdle]
  /\ vAnswer' = [vAnswer EXCEPT ![p] = answer]

\* ----- the records: contracts/synthetic_validation.py ----------------------
\* The digest of a record is the record, so the operation is its request and the
\* validation ref is named by the operation.  A commit and its tree are one value.
SuccessfulOutcomes == {"created", "already_present", "reconciled"}
ValidationOutcomes ==
  SuccessfulOutcomes \cup {"reconciliation_required", "invalid", "quarantined", "cleaned"}

SyntheticValidationObservation(o) == o.base = "integration" /\ o.head # o.base

SyntheticValidationRequest(r) ==
  /\ SyntheticValidationObservation(r.observation)
  /\ r.target = r.observation.base /\ r.contexts # {}

ValidationRefFor(operation) == [validation |-> operation]

SyntheticValidationPlan(p) ==
  /\ SyntheticValidationRequest(p.request) /\ p.operation = p.request
  /\ p.ref = ValidationRefFor(p.operation)
  /\ p.commit = p.request.observation.synthetic

\* observed is what the ref was at, relative to the plan; NoRecord is unknown.
SyntheticValidationOutcome(o) ==
  /\ o.outcome \in ValidationOutcomes
  /\ o.outcome \in SuccessfulOutcomes \cup {"invalid", "quarantined"} => o.observed # NoRecord
  /\ o.outcome \in SuccessfulOutcomes => o.observed = "exact"
  /\ o.outcome = "invalid" => o.observed # "exact"

SyntheticValidationAttempt(a) == a.kind \in {"create_ambiguous", "read_error"}

SyntheticValidationCreateAuthorization(a) == a.ref = ValidationRefFor(a.plan.operation)

SyntheticValidationCompletionProof(c, plan) == c.plan = plan /\ c.operation = plan.operation

\* ----- prepare: the plan is recorded before the provider is touched --------
Request ==
  [observation |-> [base |-> "integration", head |-> "candidate", synthetic |-> "exact"],
   target |-> "integration", contexts |-> {"synthetic validate"}]

Prepare ==
  [operation |-> Request, request |-> Request, ref |-> ValidationRefFor(Request),
   commit |-> Request.observation.synthetic]

\* _outcome: a record that violates its contract raises instead.
Outcome(kind, observed) == [outcome |-> kind, observed |-> observed]

\* _read: none, exact or wrong, or an error of the transport or of the answer.
Reads == {"error", vRef}

\* ----- trigger --------------------------------------------------------------
Trigger(p) ==
  /\ At(p, "idle")
  /\ vPlan' = Prepare
  /\ IF vOutcome # NoRecord
     THEN Returns(p, vOutcome.outcome)
     ELSE Goes(p, "attempt") /\ UNCHANGED vAnswer
  /\ UNCHANGED <<provider, vClaim, vAttempt, vOutcome, vProof, vCleanup, vDeaths>>

ReadAttempt(p) ==
  /\ At(p, "attempt")
  /\ vCalls' = [vCalls EXCEPT ![p].step = "authorization",
                              ![p].attempted = vAttempt # NoRecord]
  /\ UNCHANGED <<provider, journal, vAnswer, vDeaths>>

\* read_create_authorization: the index, or the record in the claim.
ReadCreateAuthorization(p) ==
  /\ At(p, "authorization")
  /\ IF vClaim = "torn"
     THEN Returns(p, "raised")
     ELSE /\ vCalls' = [vCalls EXCEPT ![p].step = "ref",
                                      ![p].authorized = vClaim \in {"recorded", "indexed"}]
          /\ UNCHANGED vAnswer
  /\ UNCHANGED <<provider, journal, vDeaths>>

ReadRef(p) ==
  /\ At(p, "ref")
  /\ \E state \in Reads :
       CASE state = "error" -> Hands(p, "uncertain", [kind |-> "read_error"])
         [] state = "exact" ->
              Hands(p, "save",
                    Outcome(IF ~vCalls[p].authorized THEN "quarantined"
                            ELSE IF vCalls[p].attempted THEN "reconciled"
                            ELSE "already_present", state))
         [] state = "wrong" -> Hands(p, "save", Outcome("invalid", state))
         [] state = "none" ->
              IF vCalls[p].attempted \/ vCalls[p].authorized
              THEN Hands(p, "uncertain", [kind |-> "create_ambiguous"])
              ELSE Goes(p, "claim")
  /\ UNCHANGED <<provider, journal, vAnswer, vDeaths>>

ClaimedAnyway(p) == Goes(p, "mark") /\ vClaim' = IF vClaim = "none" THEN "reserved" ELSE vClaim

\* claim_create_authorization: making the directory is the reservation.
ClaimCreateAuthorization(p) ==
  IF vClaim = "none"
  THEN Goes(p, "mark") /\ vClaim' = "reserved"
  ELSE Hands(p, "after", [told |-> "reconciled"]) /\ UNCHANGED vClaim

Claim(p) ==
  /\ At(p, "claim")
  /\ ClaimCreateAuthorization(p)
  /\ UNCHANGED <<provider, vPlan, vAttempt, vOutcome, vProof, vCleanup, vAnswer, vDeaths>>

\* The record is replaced into the claim; _record_authorization_after_claim
\* then creates the index and writes it.
RecordClaim(p) ==
  /\ \/ At(p, "mark") /\ vClaim' = "recorded" /\ Goes(p, "open")
     \/ At(p, "open") /\ vClaim' = "torn" /\ Goes(p, "write")
     \/ At(p, "write") /\ vClaim' = "indexed" /\ Goes(p, "create")
  /\ UNCHANGED <<provider, vPlan, vAttempt, vOutcome, vProof, vCleanup, vAnswer, vDeaths>>

CreateValidationRef(p) ==
  /\ At(p, "create")
  /\ vCreates' = vCreates + 1
  /\ vWire' = IF vWire = "none" THEN "sent" ELSE vWire
  /\ Goes(p, "answer")
  /\ UNCHANGED <<vRef, vSeeded, vMoved, journal, vAnswer, vDeaths>>

CreateLands ==
  /\ vWire = "sent"
  /\ vWire' = IF vRef = "none" THEN "applied" ELSE "refused"
  /\ vRef' = IF vRef = "none" THEN "exact" ELSE vRef
  /\ UNCHANGED <<vSeeded, vMoved, vCreates, journal, vCalls, vAnswer, vDeaths>>

\* The answer of an applied create, or any exception, at any time.
CreateAnswered(p) ==
  /\ At(p, "answer")
  /\ \/ vWire = "applied" /\ Hands(p, "after", [told |-> "created"])
     \/ Hands(p, "after", [told |-> "reconciled"])
  /\ UNCHANGED <<provider, journal, vAnswer, vDeaths>>

\* The read that follows a lost claim, a create or an ambiguous create.
ReadAfter(p) ==
  /\ At(p, "after")
  /\ \E state \in Reads :
       CASE state = "exact" -> Hands(p, "save", Outcome(vCalls[p].out.told, state))
         [] state = "wrong" -> Hands(p, "save", Outcome("invalid", state))
         [] state \in {"none", "error"} ->
              Hands(p, "uncertain", [kind |-> "create_ambiguous"])
  /\ UNCHANGED <<provider, journal, vAnswer, vDeaths>>

\* _save: the outcome index keeps the first record; a loser returns it.
SaveOutcome(p) ==
  /\ vOutcome' = IF vOutcome = NoRecord THEN vCalls[p].out ELSE vOutcome
  /\ Returns(p, vOutcome'.outcome)

Save(p) ==
  /\ At(p, "save")
  /\ SaveOutcome(p)
  /\ UNCHANGED <<provider, vPlan, vClaim, vAttempt, vProof, vCleanup, vDeaths>>

\* _uncertain: the first attempt is kept; an attempt of another kind conflicts.
Uncertain(p) ==
  /\ At(p, "uncertain")
  /\ vAttempt' = IF vAttempt = NoRecord THEN vCalls[p].out ELSE vAttempt
  /\ Returns(p, IF vAttempt' = vCalls[p].out THEN "reconciliation_required" ELSE "raised")
  /\ UNCHANGED <<provider, vPlan, vClaim, vOutcome, vProof, vCleanup, vDeaths>>

\* ----- cleanup --------------------------------------------------------------
\* A caller completes only what a trigger reported exact.
Complete ==
  /\ vProof = NoRecord /\ vOutcome # NoRecord /\ vOutcome.outcome \in SuccessfulOutcomes
  /\ vProof' = [plan |-> vPlan, operation |-> vPlan.operation]
  /\ UNCHANGED <<provider, vPlan, vClaim, vAttempt, vOutcome, vCleanup, vCalls, vAnswer, vDeaths>>

\* The plan is durable and the verified proof is of this plan.
CleanupAllowed ==
  /\ vPlan # NoRecord /\ vProof # NoRecord
  /\ SyntheticValidationCompletionProof(vProof, vPlan)

Cleanup(p) ==
  /\ At(p, "idle") /\ CleanupAllowed
  /\ IF vCleanup # NoRecord
     THEN Returns(p, vCleanup.outcome)
     ELSE Goes(p, "cleanup") /\ UNCHANGED vAnswer
  /\ UNCHANGED <<provider, journal, vDeaths>>

CleanupReadsRef(p) ==
  /\ At(p, "cleanup")
  /\ \E state \in Reads :
       CASE state = "none" -> Hands(p, "record", Outcome("cleaned", NoRecord)) /\ UNCHANGED vAnswer
         [] state = "error" -> Returns(p, "reconciliation_required")
         [] state = "wrong" -> Hands(p, "record", Outcome("invalid", state)) /\ UNCHANGED vAnswer
         [] state = "exact" -> Goes(p, "delete") /\ UNCHANGED vAnswer
  /\ UNCHANGED <<provider, journal, vDeaths>>

\* The delete removes whatever the ref is at by now, or fails.
DeleteValidationRef(p) ==
  /\ At(p, "delete")
  /\ \/ vRef' = "none" /\ Hands(p, "deleted", [told |-> "answered"])
     \/ vRef' = "none" /\ Hands(p, "deleted", [told |-> "raised"])
     \/ vRef' = vRef /\ Hands(p, "deleted", [told |-> "raised"])
  /\ UNCHANGED <<vSeeded, vMoved, vWire, vCreates, journal, vAnswer, vDeaths>>

\* An answered delete that left a wrong ref is an outcome without an
\* observation, which its contract refuses.
ReadDeleted(p) ==
  /\ At(p, "deleted")
  /\ \E state \in Reads :
       CASE state = "none" -> Hands(p, "record", Outcome("cleaned", NoRecord)) /\ UNCHANGED vAnswer
         [] state = "wrong" /\ vCalls[p].out.told = "answered" ->
              Hands(p, "record", Outcome("invalid", NoRecord)) /\ UNCHANGED vAnswer
         [] OTHER -> Returns(p, "reconciliation_required")
  /\ UNCHANGED <<provider, journal, vDeaths>>

\* _save_cleanup, create-once; another outcome conflicts.
SaveCleanup(p) ==
  /\ At(p, "record")
  /\ LET out == vCalls[p].out IN
     IF SyntheticValidationOutcome(out) /\ vCleanup \in {NoRecord, out}
     THEN vCleanup' = out /\ Returns(p, out.outcome)
     ELSE UNCHANGED vCleanup /\ Returns(p, "raised")
  /\ UNCHANGED <<provider, vPlan, vClaim, vAttempt, vOutcome, vProof, vDeaths>>

\* ----- the world ------------------------------------------------------------
Die(p) ==
  /\ ~At(p, "idle") /\ vDeaths < MaxDeaths
  /\ vDeaths' = vDeaths + 1
  /\ vCalls' = [vCalls EXCEPT ![p] = ValidationIdle]
  /\ UNCHANGED <<provider, journal, vAnswer>>

\* Someone else writes the ref, the planned commit included.
RefMoved ==
  /\ vMoved = "none"
  /\ vMoved' \in {"exact", "wrong"} \ {vRef} /\ vRef' = vMoved'
  /\ UNCHANGED <<vSeeded, vWire, vCreates, journal, vCalls, vAnswer, vDeaths>>

ValidationInit ==
  /\ vRef \in {"none", "exact"} /\ vSeeded = (vRef = "exact")
  /\ vMoved = "none" /\ vWire = "none" /\ vCreates = 0
  /\ vPlan = NoRecord /\ vClaim = "none" /\ vAttempt = NoRecord
  /\ vOutcome = NoRecord /\ vProof = NoRecord /\ vCleanup = NoRecord
  /\ vCalls = [p \in Triggers |-> ValidationIdle]
  /\ vAnswer = [p \in Triggers |-> NoRecord]
  /\ vDeaths = 0

ValidationNext ==
  \/ \E p \in Triggers :
       \/ Trigger(p) \/ ReadAttempt(p) \/ ReadCreateAuthorization(p) \/ ReadRef(p)
       \/ Claim(p) \/ RecordClaim(p) \/ CreateValidationRef(p) \/ CreateAnswered(p)
       \/ ReadAfter(p) \/ Save(p) \/ Uncertain(p)
       \/ Cleanup(p) \/ CleanupReadsRef(p) \/ DeleteValidationRef(p)
       \/ ReadDeleted(p) \/ SaveCleanup(p) \/ Die(p)
  \/ CreateLands \/ RefMoved \/ Complete

ValidationSpec == ValidationInit /\ [][ValidationNext]_validationVars

\* ----- properties -----------------------------------------------------------
\* The journal of a validation operation holds records of their contracts.
ValidationTypeOK ==
  /\ vRef \in {"none", "exact", "wrong"}
  /\ vPlan # NoRecord => SyntheticValidationPlan(vPlan)
  /\ vAttempt # NoRecord => SyntheticValidationAttempt(vAttempt)
  /\ vOutcome # NoRecord => SyntheticValidationOutcome(vOutcome)
  /\ vCleanup # NoRecord => SyntheticValidationOutcome(vCleanup)
  /\ vPlan # NoRecord =>
       SyntheticValidationCreateAuthorization([plan |-> vPlan, ref |-> vPlan.ref])

\* However triggers interleave and die, the create request is sent once, and a ref is
\* adopted only under a claim: one that this request created, or that someone else put
\* at the planned commit meanwhile, never one that was there before the operation
\* (claim_create_authorization is the fence, trigger's reads are all stale).
OneValidationCreate ==
  /\ vCreates <= 1
  /\ vOutcome # NoRecord /\ vOutcome.outcome \in SuccessfulOutcomes =>
       vClaim # "none" /\ (vWire = "applied" \/ vMoved = "exact")

\* Every definite answer of a trigger is the durable outcome (_save returns the
\* winner of a race) or the durable cleanup, and once the cleanup says "cleaned"
\* the planned commit is gone from the ref for good, late creates included, unless
\* someone else put it there.
ValidationAnswersAgree ==
  /\ \A p \in Triggers :
       vAnswer[p] \notin {NoRecord, "raised", "reconciliation_required"} =>
         \E r \in {vOutcome, vCleanup} \ {NoRecord} : vAnswer[p] = r.outcome
  /\ vCleanup # NoRecord /\ vCleanup.outcome = "cleaned" => vRef # "exact" \/ vMoved = "exact"

\* A ref is quarantined as pre-seeded only when it was there before the operation
\* created it, or someone else put it there (trigger, "existing validation ref was pre-seeded").
QuarantinedIsPreseeded ==
  vOutcome # NoRecord /\ vOutcome.outcome = "quarantined" => vSeeded \/ vMoved = "exact"
=============================================================================
