-------------------------- MODULE LedgerContracts --------------------------
(***************************************************************************)
(* The records of the C6 ledger (contracts/main_graduation_ledger.py): what *)
(* each contract admits.  A class is the set of its valid instances, or a  *)
(* predicate where that set is infinite.  A digest of a record is that     *)
(* record; repository, target, policy and protocol are the same in every   *)
(* record of one ledger and are left out, and so are self-digests and the  *)
(* timestamps nothing is compared with (recorded_at, terminal_at).         *)
(***************************************************************************)
EXTENDS Integers, FiniteSets, FiniteSetsExt

CONSTANTS
  Identities,  \* source and submission identity of a scheduler submission
  Contents,    \* physical contents (submission digests)
  Threshold,   \* successes in a row that complete an activation (12)
  NoRecord     \* a record or an optional field that is absent

Time == Nat
Issuers == {"release", "validation"}

-----------------------------------------------------------------------------
(* The controller root and the evidence an activation rests on.            *)

MainLedgerControllerAuthority ==
    {a \in [root : {"controller", "other"}, from : Time, until : Time] :
        a.from < a.until}

MainLedgerHostedRollbackProof ==
    [authority : MainLedgerControllerAuthority, at : Time, issuer : Issuers]

(* App 15368 validates, so it is not the release issuer.                   *)
MainLedgerC8CapabilityEvidence ==
    {c \in [authority : MainLedgerControllerAuthority, at : Time, issuer : Issuers] :
        c.issuer # "validation"}

(* Proof and capability are the authority's own, and fresh at activation.  *)
MainLedgerActivation ==
    {a \in [authority : MainLedgerControllerAuthority, cutoff : Time, at : Time,
            proof : MainLedgerHostedRollbackProof,
            capability : MainLedgerC8CapabilityEvidence, watermark : Nat] :
        /\ a.authority.from <= a.at /\ a.at <= a.authority.until
        /\ a.authority.from <= a.cutoff /\ a.cutoff <= a.at
        /\ a.proof.authority = a.authority
        /\ a.cutoff <= a.proof.at /\ a.proof.at <= a.at
        /\ a.capability.authority = a.authority
        /\ a.cutoff <= a.capability.at /\ a.capability.at <= a.at}

-----------------------------------------------------------------------------
(* One scheduler sequence: envelope, classification, outcome, transition.  *)

MainLedgerSubmissionEnvelope ==
    [seq : Nat \ {0}, identity : Identities, content : Contents]

(* Paths and risk decide: an ordinary nonempty change is eligible, any     *)
(* other one is excluded, for one stated reason and with evidence.         *)
MainLedgerClassificationEvidence ==
    {c \in [submission : MainLedgerSubmissionEnvelope, authority : MainLedgerControllerAuthority,
            class : {"eligible", "excluded"}, empty : BOOLEAN, ordinary : BOOLEAN,
            reason : {"empty", "nonordinary", NoRecord}] :
        /\ c.class = "eligible" <=> ~c.empty /\ c.ordinary
        /\ c.reason = IF c.class = "eligible" THEN NoRecord
                      ELSE IF c.empty THEN "empty" ELSE "nonordinary"}

LedgerOutcome == {"success", "failure", "quarantine", "reconciliation", "reset"}

(* A success carries the canonical package of the campaign.                *)
MainLedgerTerminalOutcome ==
    {o \in [classification : MainLedgerClassificationEvidence, outcome : LedgerOutcome,
            package : BOOLEAN] :
        /\ o.classification.class = "eligible"
        /\ o.outcome = "success" => o.package}

MainLedgerAccumulatorState ==
    {s \in [last : Nat, streak : 0 .. Threshold, successes : Nat, failures : Nat,
            boundaries : Nat, complete : BOOLEAN] :
        s.complete <=> s.streak = Threshold}

main_ledger_genesis_state(watermark) ==
    [last |-> watermark, streak |-> 0, successes |-> 0, failures |-> 0,
     boundaries |-> 0, complete |-> FALSE]

ExclusionCounterClosure(t) ==
    [t.result EXCEPT !.last = t.prior.last] = t.prior

EligibleDelta(t) ==
    LET p == t.prior  r == t.result IN
    /\ r.boundaries = p.boundaries
    /\ \/ /\ t.outcome.outcome = "success" /\ ~t.reset /\ p.streak < Threshold
          /\ r.streak = p.streak + 1 /\ r.successes = p.successes + 1
          /\ r.failures = p.failures
       \/ /\ t.outcome.outcome # "success" /\ t.reset
          /\ r.streak = 0 /\ r.failures = p.failures + 1
          /\ r.successes = p.successes

(* Every submission moves the accumulator by one sequence; only an outcome *)
(* moves its counters.                                                     *)
MainLedgerAccumulatorTransition(t) ==
    LET c == t.classification IN
    /\ c \in MainLedgerClassificationEvidence
    /\ {t.prior, t.result} \subseteq MainLedgerAccumulatorState
    /\ ~t.prior.complete
    /\ c.submission.seq = t.prior.last + 1 /\ t.result.last = c.submission.seq
    /\ \/ /\ c.class = "excluded" /\ t.outcome = NoRecord /\ ~t.reset
          /\ ExclusionCounterClosure(t)
       \/ /\ c.class = "eligible" /\ t.outcome \in MainLedgerTerminalOutcome
          /\ t.outcome.classification = c
          /\ EligibleDelta(t)

-----------------------------------------------------------------------------
(* The boundary: an activation that the scheduler starved is ended.        *)

(* envelope is the first unresolved submission, absent when there is none. *)
MainLedgerBoundaryViolationEvidence ==
    {b \in [authority : MainLedgerControllerAuthority, expected : Nat \ {0},
            state : MainLedgerAccumulatorState,
            kind : {"starvation", "withholding", "silent_exclusion", "scheduler_gap",
                    "operator_intervention"},
            envelope : MainLedgerSubmissionEnvelope \cup {NoRecord}, at : Time] :
        b.authority.from <= b.at /\ b.at <= b.authority.until}

(* Only the streak is lost, and only the boundary count moves.             *)
MainLedgerBoundaryResetTransition ==
    {r \in [prior : MainLedgerAccumulatorState, violation : MainLedgerBoundaryViolationEvidence,
            result : MainLedgerAccumulatorState] :
        /\ r.violation.state = r.prior
        /\ r.violation.expected > r.prior.last
        /\ r.result = [r.prior EXCEPT !.streak = 0, !.boundaries = @ + 1, !.complete = FALSE]}

(* A sequence that is left unresolved names its envelope, or has none.     *)
MainLedgerUnresolvedTailEntry ==
    {e \in [seq : Nat \ {0}, envelope : MainLedgerSubmissionEnvelope \cup {NoRecord}] :
        e.envelope # NoRecord => e.envelope.seq = e.seq}

-----------------------------------------------------------------------------
(* The evidence package that closes an activation.  Its parts are functions *)
(* of the scheduler sequence; prefix is the part that was processed.       *)

InOrder(p) ==
    LET seqs == DOMAIN p.submissions  first == p.activation.watermark + 1 IN
    /\ seqs = first .. (first + Cardinality(seqs) - 1)
    /\ \A i, j \in seqs : i # j =>
          /\ p.submissions[i].identity # p.submissions[j].identity
          /\ p.submissions[i].content # p.submissions[j].content
    /\ \A i \in seqs : p.submissions[i].seq = i

Prefix(p) ==
    IF p.status = "boundary_reset"
    THEN {i \in DOMAIN p.submissions : i < p.boundary.expected}
    ELSE DOMAIN p.submissions

(* Each processed submission has its classification, an outcome exactly if  *)
(* it is eligible, and one transition from the state its predecessor left.  *)
Accounted(p) ==
    LET prefix == Prefix(p)  genesis == main_ledger_genesis_state(p.activation.watermark) IN
    /\ DOMAIN p.classifications = prefix /\ DOMAIN p.transitions = prefix
    /\ DOMAIN p.outcomes = {i \in prefix : p.classifications[i].class = "eligible"}
    /\ \A i \in prefix :
         /\ p.classifications[i].submission = p.submissions[i]
         /\ p.classifications[i].authority = p.activation.authority
         /\ p.transitions[i].classification = p.classifications[i]
         /\ p.transitions[i].outcome =
              IF i \in DOMAIN p.outcomes THEN p.outcomes[i] ELSE NoRecord
         /\ p.transitions[i].prior =
              IF i = p.activation.watermark + 1 THEN genesis ELSE p.transitions[i - 1].result

(* Where the processed prefix left the accumulator.                        *)
NormalFinalState(p) ==
    IF p.transitions = << >> THEN main_ledger_genesis_state(p.activation.watermark)
    ELSE p.transitions[Max(DOMAIN p.transitions)].result

(* The tail of a boundary package is every later submission, or the one     *)
(* sequence that never came.                                               *)
TailCloses(p) ==
    LET b == p.boundary  later == {i \in DOMAIN p.submissions : i >= b.expected} IN
    /\ b.expected > p.activation.watermark
    /\ (p.activation.watermark + 1) .. (b.expected - 1) \subseteq DOMAIN p.submissions
    /\ DOMAIN p.tail = IF later = {} THEN {b.expected} ELSE later
    /\ \A i \in DOMAIN p.tail :
         p.tail[i].envelope = IF i \in later THEN p.submissions[i] ELSE NoRecord
    /\ p.tail[b.expected].envelope = b.envelope
    /\ b.authority = p.activation.authority
    /\ p.activation.cutoff <= b.at /\ p.activation.at <= b.at
    /\ p.reset.violation = b /\ p.reset.prior = NormalFinalState(p)
    /\ p.final = p.reset.result /\ ~p.final.complete

MainLedgerEvidencePackage(p) ==
    /\ p.status \in {"threshold_complete", "boundary_reset"}
    /\ InOrder(p) /\ Accounted(p)
    /\ p.status = "threshold_complete" =>
         /\ p.boundary = NoRecord /\ p.reset = NoRecord /\ p.tail = << >>
         /\ p.final = NormalFinalState(p) /\ p.final.complete
    /\ p.status = "boundary_reset" => TailCloses(p)
=============================================================================
