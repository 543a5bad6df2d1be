------------------------- MODULE ExactCasContracts -------------------------
(***************************************************************************)
(* The records of the personal exact compare-and-swap of refs/heads/main:  *)
(* contracts/main_personal_exact_cas*.py and                               *)
(* contracts/main_graduation_exact_cas.py.                                 *)
(*                                                                         *)
(* The digest of a record is the record.  operation_id is a digest of the  *)
(* activation, the topology, the writer, the lease and the nonce, so two   *)
(* records of one operation agree on all of them; the lease expiry is one  *)
(* constant.  A commit determines its tree and its parents.                *)
(***************************************************************************)
EXTENDS Integers

CONSTANTS
  Operations,      \* operation_id of the operations of one activation
  LeaseExpiry,     \* lease_expires_at
  NoRecord         \* a record that is not in a journal

\* refs/heads/main is at B, at the candidate C built on B, or past C.
Commits == {"base", "candidate", "later"}
Parents == [base |-> {}, candidate |-> {"base"}, later |-> {"candidate"}]

\* ----- contracts/main_personal_exact_cas.py -------------------------------
PersonalCasOutcome == {"applied", "rejected", "ambiguous"}

MainPersonalExactCasActivation(a) ==
  a.base = "base" /\ a.candidate = "candidate" /\ Parents[a.candidate] = {a.base}

\* personal_cas_operation_id and personal_cas_claim_digest name one operation.
OperationBinding(r) == r.op \in Operations

MainPersonalExactCasAuthorization(a) ==
  OperationBinding(a) /\ a.at < LeaseExpiry

MainPersonalExactCasIntent(i) ==
  OperationBinding(i) /\ i.authorization.op = i.op /\ i.at < LeaseExpiry

MainPersonalExactCasDispatchStarted(m) ==
  OperationBinding(m) /\ m.intent.op = m.op /\ m.at < LeaseExpiry

MainPersonalExactCasReceipt(r) ==
  /\ OperationBinding(r)
  /\ r.outcome \in PersonalCasOutcome
  /\ r.outcome \in {"applied", "ambiguous"} => r.started

\* observed_commit, observed_tree and observed_parents are those of the candidate.
ExactTopology(commit) ==
  commit = "candidate" /\ Parents[commit] = {"base"}

MainPersonalExactCasPostStateObservation(p) ==
  /\ OperationBinding(p)
  /\ p.commit \in Commits
  /\ p.receipt.outcome = "applied" => ExactTopology(p.commit)

MainPersonalExactCasReconciliation(r) ==
  /\ r.receipt.outcome = "ambiguous"
  /\ r.op = r.receipt.op
  /\ r.observation.op = r.op
  /\ r.observation.receipt = r.receipt
  /\ r.outcome \in {"applied", "ambiguous"}
  /\ r.outcome = "applied" => ExactTopology(r.observation.commit)

MainPersonalExactCasCompletion(c) ==
  OperationBinding(c) /\ c.receipt.op = c.op

\* ----- contracts/main_graduation_exact_cas.py -----------------------------
ExactCasErrorCode ==
  {"cas_conflict", "auth_failed", "configuration_failed", "rate_limited",
   "lease_expired", "verifier_rejected", "malformed_response",
   "server_ambiguous", "transport_ambiguous"}

\* The writer's receipt of one PATCH; status 0 is no answer, error "" no error,
\* and a response that names another commit (stale_response) is malformed.
MainExactCasReceipt(r) ==
  /\ r.outcome \in PersonalCasOutcome
  /\ r.outcome = "applied" => r.started /\ r.status = 200 /\ r.sha = "candidate" /\ r.error = ""
  /\ r.outcome # "applied" => r.sha = "" /\ r.error \in ExactCasErrorCode

\* ----- the evidence leaves ------------------------------------------------
ResponseClass ==
  {"candidate_response", "conflict_or_rejected",
   "configuration_or_validation_rejected",
   "authentication_or_authorization_rejected", "rate_limited", "ambiguous",
   "unverifiable"}

ClassificationForStatus(status) ==
  CASE status = 200 -> "candidate_response"
    [] status = 409 -> "conflict_or_rejected"
    [] status = 422 -> "configuration_or_validation_rejected"
    [] status \in {401, 403} -> "authentication_or_authorization_rejected"
    [] status = 429 -> "rate_limited"
    [] status \in 500..599 -> "ambiguous"
    [] OTHER -> "unverifiable"

MainPersonalExactCasResponseEvidence(e) ==
  OperationBinding(e) /\ e.class = ClassificationForStatus(e.status)

ClassificationByResponse(class) ==
  CASE class = "candidate_response" -> "candidate_observed"
    [] class \in {"conflict_or_rejected", "configuration_or_validation_rejected",
                  "authentication_or_authorization_rejected"} ->
         "conclusive_rejection_observed"
    [] OTHER -> "reconciliation_required"

MainPersonalExactCasResponseReconciliationClassification(c) ==
  /\ OperationBinding(c)
  /\ c.class \in ResponseClass
  /\ c.kind = ClassificationByResponse(c.class)

MainPersonalExactCasReadOnlyPostState(p) ==
  OperationBinding(p) /\ p.commit \in Commits /\ p.started <= p.finished
=============================================================================
