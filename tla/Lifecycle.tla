----------------------------- MODULE Lifecycle -----------------------------
(***************************************************************************)
(* The closed transition tables of domain/lifecycle/state_machine.py: every *)
(* authoritative lifecycle is a set of <<from, to>> pairs, and a state with *)
(* no outgoing pair is terminal.                                           *)
(***************************************************************************)

RunState ==
  {"created", "validating", "ready", "running", "pausing", "paused", "cancelling",
   "blocked_review", "blocked_reconciliation", "completed", "cancelled", "failed"}

RUN_TRANSITIONS ==
  ({"created"} \X {"validating", "cancelled"})
    \cup ({"validating"} \X {"ready", "failed", "cancelled"})
    \cup ({"ready"} \X {"running", "cancelled"})
    \cup ({"running"} \X {"pausing", "cancelling", "blocked_review",
                          "blocked_reconciliation", "completed", "failed"})
    \cup ({"pausing"} \X {"paused", "cancelling", "blocked_reconciliation", "failed"})
    \cup ({"paused"} \X {"ready", "cancelled"})
    \cup ({"cancelling"} \X {"cancelled", "blocked_reconciliation", "failed"})
    \cup ({"blocked_review"} \X {"running", "cancelling", "failed"})
    \cup ({"blocked_reconciliation"}
            \X {"ready", "running", "paused", "cancelled", "failed"})

VariationSessionState ==
  {"queued", "running", "proposal_ready", "exhausted", "policy_blocked",
   "reconciliation_required", "cancelled", "failed"}

SESSION_TRANSITIONS ==
  ({"queued"} \X {"running", "cancelled"})
    \cup ({"running"} \X {"proposal_ready", "exhausted", "policy_blocked",
                          "reconciliation_required", "cancelled", "failed"})
    \cup ({"reconciliation_required"} \X {"running", "cancelled", "failed"})

CandidateState ==
  {"staged", "evaluating", "review_required", "admitted", "rejected", "quarantined",
   "policy_blocked", "cancelled"}

\* require_transition: the guard raised as InvalidTransitionError when it fails.
can_transition(table, from, to) == <<from, to>> \in table

TerminalRunState == {"completed", "cancelled", "failed"}
=============================================================================
