----------------------------- MODULE MCCampaign -----------------------------
(* The work of one run for TLC: the pass of its campaign (Campaign), its budget ledger
   under concurrent calls (BudgetLedger) and the leases of its activities
   (ActivityLeases).  live says which of the three a behaviour is about; the others take
   no part.

   A campaign has four units of budget, two of them set aside for the variation and one
   or three for the evaluation.  A reported usage of 2 fits and one of 5 exhausts the
   budget; a turn recovered without its events is charged 1.  Either one worker executes
   the whole pass, or two do and one takes over from the other, with fewer choices of
   usage. *)
EXTENDS Campaign, TLC

CONSTANTS Keys, Operators, None

VARIABLES
  live,    \* "campaign", "budget" or "leases"
  crew,    \* campaign: the workers that are started
  budget, reservations, sequence, call,
  leaseRun, activities, cases, leaseWorker, operator

budgetVars == <<budget, reservations, sequence, call>>
leaseVars == <<leaseRun, activities, cases, leaseWorker, operator>>

Takeover ==
  INSTANCE Campaign WITH
    EvaluationEstimates <- {1}, ReportedUsages <- {5}, EvaluatorKeys <- 1, MaxClaims <- 2

Budget ==
  INSTANCE BudgetLedger WITH
    Clients <- Workers, Amounts <- {0, 1}, Limit <- 1, MaxEvents <- 6, ledger <- budget

Leases ==
  INSTANCE ActivityLeases WITH
    Activities <- {"variation"}, Digests <- Keys, MaxEvents <- 10, MaxCases <- 2,
    run <- leaseRun, worker <- leaseWorker

Alone == Cardinality(crew) = 1

NoBudget == budget = None /\ reservations = None /\ sequence = 0 /\ call = None

NoLeases ==
  leaseRun = None /\ activities = None /\ cases = {} /\ leaseWorker = None /\ operator = None

MCInit ==
  /\ \/ live = "campaign" /\ crew \in SUBSET Workers \ {{}}
     \/ live \in {"budget", "leases"} /\ crew = {}
  /\ IF Alone THEN Init ELSE Takeover!Init
  /\ IF live = "budget" THEN Budget!Init ELSE NoBudget
  /\ IF live = "leases" THEN Leases!Init ELSE NoLeases

MCNext ==
  \/ /\ live = "campaign"
     /\ \/ Alone /\ Next
        \/ ~Alone /\ Takeover!Next
     /\ \A w \in Workers \ crew : worker'[w] = Idle
     /\ UNCHANGED <<live, crew, budgetVars, leaseVars>>
  \/ live = "budget" /\ Budget!Next /\ UNCHANGED <<live, crew, vars, leaseVars>>
  \/ live = "leases" /\ Leases!Next /\ UNCHANGED <<live, crew, vars, budgetVars>>

MCSpec == MCInit /\ [][MCNext]_<<live, crew, vars, budgetVars, leaseVars>>

\* Workers (the clients of the ledger), keys (result digests) and operators are
\* interchangeable: no action names one.
Symmetry == Permutations(Workers) \cup Permutations(Keys) \cup Permutations(Operators)
-----------------------------------------------------------------------------
(* One worker never has two turns at the provider, whatever crashed: a turn is started
   only on the persisted thread after it was seen to have none (campaign.py execute). *)
OneTurnAlone == Alone => OneTurn

(* The columns of the ledger come apart from its reservations only when a call commits
   whose reads an event tore apart (BudgetService, _append_run_event). *)
BalanceLostByTornReads == [][live = "budget" => Budget!BalanceLossIsTorn]_budgetVars

(* The ledger passes the limit only when a call commits whose reads are torn
   (reserve_usage, complete). *)
LimitLostByTornReads == [][live = "budget" => Budget!LimitLossIsTorn]_budgetVars

(* An activity waiting for reconciliation, and a run blocked on it, have an open case:
   no interleaving of marks, completions and resolutions, with stale reads, leaves
   them where nobody can free them (mark_reconciliation, resolve_reconciliation). *)
UnsettledHasCase ==
  live = "leases" => Leases!TypeOK /\ Leases!ReconcilingHasCase /\ Leases!BlockedHasCase

(* Two workers never hold the same lease epoch of an activity, and the newest epoch
   handed out is the row's (claim_next). *)
EpochsExclusive == live = "leases" => Leases!EpochsExclusive

(* A live lease is never taken over (claim_next). *)
LiveLeaseKept == [][live = "leases" => Leases!LeaseKept]_leaseVars

(* A pause or a cancellation is settled when no activity is running, although the check
   and the transition are separate transactions (settle_control_request). *)
SettlesAtBoundary == [][live = "leases" => Leases!BoundaryWhenSettled]_leaseVars

(* A completion whose two reads no event tore apart completes the lease epoch it was
   claimed under, and only a torn call or an operator's resolution gives up a durable
   result (complete, mark_reconciliation_required, resolve_reconciliation). *)
FencedCompletion == [][live = "leases" => Leases!ResultFenced]_leaseVars
=============================================================================
