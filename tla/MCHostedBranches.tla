------------------------- MODULE MCHostedBranches -------------------------
(* What moves a hosted branch, for TLC.  To integration: the steps of promote on one lease
   and journal (IntegrationPromotion), and the campaigns that call it
   (IntegrationCampaign).  To main: the controllers that send the PATCH of the personal
   exact compare-and-swap (ExactCas), the evidence that is collected about its answer
   (ExactCasEvidence), and the observers that read the hosted configuration before and
   after it (HostedReads).  live says which of the five a behaviour is about; the others
   take no part.

   promote has two casts: two callers race on one operation, or one caller, whose calls
   may die, promotes two operations that share the target's lease. *)
EXTENDS IntegrationPromotion, Integers, Sequences, TLC

CONSTANTS
  NoRecord, MaxChecks, MaxFaults,
  LeaseExpiry, LeaseRefuses, AuthorizedAt, Statuses, MaxCasTime,
  AnswerStatuses, MaxEvidenceTime,
  Payload, Window, TokenLifetime, MaxHostedTime, MaxChanges,
  MaxDisturbances   \* bound on the changes a campaign, a controller or an observer meets

VARIABLES
  live,  \* "promote", "campaign", "cas", "evidence" or "hosted"
  cast,  \* promote: who takes part
  kMain, kTarget, kPull, kStray, kChecks, kWire, kSends, kLease, kLeased, kIntent,
  kReceipt, kPlan, kFinal, kPackage, kTorn, kRuns, kFaults,
  casNow, trusted, activation, cas, casCalls, refused, casHead, movers, wire,
  evNow, main, chain, readable, patch, answers, classified, captures, postState,
  hostedNow, observer, hosted, reads, started, held, result

campaignVars ==
  <<kMain, kTarget, kPull, kStray, kChecks, kWire, kSends, kLease, kLeased, kIntent, kReceipt,
    kPlan, kFinal, kPackage, kTorn, kRuns, kFaults>>
casVars == <<casNow, trusted, activation, cas, casCalls, refused, casHead, movers, wire>>
evVars == <<evNow, main, chain, readable, patch, answers, classified, captures, postState>>
hostedVars == <<hostedNow, observer, hosted, reads, started, held, result>>

Campaign == INSTANCE IntegrationCampaign WITH Controllers <- Callers

Cas ==
  INSTANCE ExactCas WITH
    Operations <- {"update"}, Controllers <- Callers, head <- casHead

Evidence ==
  INSTANCE ExactCasEvidence WITH
    Operations <- {"update"}, Collectors <- Callers, evidence <- answers

Parsers == INSTANCE HostedParsers
Hosted == INSTANCE HostedReads

NoCampaign ==
  /\ kMain = NoRecord /\ kTarget = NoRecord /\ kPull = NoRecord /\ kStray = NoRecord
  /\ kChecks = NoRecord /\ kWire = NoRecord /\ kSends = NoRecord /\ kLease = NoRecord
  /\ kLeased = NoRecord /\ kIntent = NoRecord /\ kReceipt = NoRecord /\ kPlan = NoRecord
  /\ kFinal = NoRecord /\ kPackage = NoRecord /\ kTorn = NoRecord /\ kRuns = NoRecord
  /\ kFaults = 0

NoCas ==
  /\ casNow = 0 /\ trusted = FALSE /\ activation = NoRecord /\ cas = NoRecord
  /\ casCalls = NoRecord /\ refused = {} /\ casHead = NoRecord /\ movers = {}
  /\ wire = NoRecord

NoEvidence ==
  /\ evNow = 0 /\ main = NoRecord /\ chain = NoRecord /\ readable = FALSE
  /\ patch = NoRecord /\ answers = NoRecord /\ classified = NoRecord
  /\ captures = NoRecord /\ postState = NoRecord

NoReads ==
  /\ hostedNow = 0 /\ observer = NoRecord /\ hosted = NoRecord /\ reads = <<>>
  /\ started = 0 /\ held = <<>> /\ result = NoRecord

Casts ==
  {c \in [callers : SUBSET Callers, operations : SUBSET Operations] :
     Cardinality(c.callers) + Cardinality(c.operations) = 3}

MCInit ==
  /\ live \in {"promote", "campaign", "cas", "evidence", "hosted"}
  /\ Init /\ IF live = "promote" THEN cast \in Casts ELSE cast = NoRecord
  /\ IF live = "campaign" THEN Campaign!IntegrationCampaignInit ELSE NoCampaign
  /\ IF live = "cas" THEN Cas!CasInit ELSE NoCas
  /\ IF live = "evidence" THEN Evidence!EvidenceInit ELSE NoEvidence
  /\ IF live = "hosted" THEN Hosted!HostedInit ELSE NoReads

InCast ==
  /\ \A p \in Callers : call[p] # NoCall => p \in cast.callers
  /\ \A o \in Operations \ cast.operations : base[o] = 0

\* Deaths and lost answers, new check evidence, and heads that others move.
CampaignDisturbances ==
  kFaults + kChecks.generation
    + (IF kMain = "moved" THEN 1 ELSE 0) + (IF kTarget = "later" THEN 1 ELSE 0)

\* The trusted clock moves, the source of trust is revoked, main moves on.
CasDisturbances ==
  casNow + (IF trusted THEN 0 ELSE 1) + (IF casHead = "later" THEN 1 ELSE 0)

MCNext ==
  \/ /\ live = "promote" /\ Next
     /\ UNCHANGED <<live, cast, campaignVars, casVars, evVars, hostedVars>> /\ InCast'
  \/ /\ live = "campaign" /\ Campaign!IntegrationCampaignNext
     /\ CampaignDisturbances' <= MaxDisturbances
     /\ UNCHANGED <<live, cast, vars, casVars, evVars, hostedVars>>
  \/ /\ live = "cas" /\ Cas!CasNext /\ CasDisturbances' <= MaxDisturbances
     /\ UNCHANGED <<live, cast, vars, campaignVars, evVars, hostedVars>>
  \/ /\ live = "evidence" /\ Evidence!EvidenceNext
     /\ UNCHANGED <<live, cast, vars, campaignVars, casVars, hostedVars>>
  \/ /\ live = "hosted" /\ Hosted!HostedNext
     /\ Len(held') - 1 + hostedNow' <= MaxDisturbances
     /\ UNCHANGED <<live, cast, vars, campaignVars, casVars, evVars>>

MCSpec ==
  MCInit /\ [][MCNext]_<<live, cast, vars, campaignVars, casVars, evVars, hostedVars>>

\* Callers and operations are interchangeable.
Symmetry == Permutations(Callers) \cup Permutations(Operations)
-----------------------------------------------------------------------------
(* What the hosted repository answers.  The first version of a resource is an
   accepted one; the others differ in one fact. *)

RO == {"contents:read", "metadata:read"}
RW == {"contents:write", "metadata:read"}
Ruleset(id, name, rules, bypass) ==
  [id |-> id, name |-> name, target |-> "branch", enforcement |-> "active",
   include |-> {"refs/heads/main"}, exclude |-> {}, rules |-> rules, bypass |-> bypass]
Linear == {"deletion", "non_fast_forward", "required_linear_history"}
Workflow(types) ==
  [wellFormed |-> TRUE, jobs |-> 1, on |-> {"pull_request"}, mergeGroupTypes |-> types,
   checkouts |-> {[pinned |-> TRUE, ref |-> "github.sha", persistCredentials |-> FALSE,
                   dynamic |-> FALSE]}]
QueueRule(build) ==
  [merge |-> 1, build |-> build, method |-> "SQUASH", strategy |-> "ALLGREEN"]
Queue(build) ==
  [errors |-> FALSE, present |-> TRUE, nodes |-> 0, total |-> 0, hasNextPage |-> FALSE]
    @@ QueueRule(build)
Entry(build) == [ruleset |-> 1, type |-> "merge_queue", parameters |-> QueueRule(build)]
Detail(build, bypass) ==
  [include |-> {"~ALL"}, exclude |-> {}, target |-> "branch", enforcement |-> "active",
   rules |-> {[type |-> "merge_queue", parameters |-> QueueRule(build)]}, bypass |-> bypass]
Check(context, app) == [context |-> context, app |-> app]
Checks(strict, app) ==
  [strict |-> strict, contexts |-> Parsers!ValidationContexts \cup {Parsers!ReleaseContext},
   checks |-> {Check(c, Parsers!ValidationApp) : c \in Parsers!ValidationContexts} \cup {Check(Parsers!ReleaseContext, app)}]
Runs(commit, conclusion, at) ==
  [complete |-> TRUE,
   runs |-> {[context |-> c, app |-> Parsers!ValidationApp, named |-> TRUE, status |-> "completed",
              conclusion |-> conclusion, sha |-> commit, at |-> at] : c \in Parsers!ValidationContexts}]

Versions ==
  [main |-> <<[commit |-> "c1", workflow |-> Workflow({"checks_requested"})],
              [commit |-> "c2", workflow |-> Workflow({})]>>,
   repository |-> <<[exact |-> TRUE], [exact |-> FALSE]>>,
   app |-> <<[exact |-> TRUE, id |-> 1, permissions |-> RW, events |-> {}],
             [exact |-> TRUE, id |-> 2, permissions |-> RW, events |-> {}]>>,
   installations |->
     <<[count |-> 1, exact |-> TRUE, app |-> 1, suspended |-> FALSE, permissions |-> RW, events |-> {}],
       [count |-> 1, exact |-> TRUE, app |-> 2, suspended |-> FALSE, permissions |-> RW, events |-> {}]>>,
   selected |-> <<[count |-> 1, exact |-> TRUE], [count |-> 2, exact |-> TRUE]>>,
   rulesets |-> <<[ids |-> {1, 2}, enforcement |-> "enabled"],
                  [ids |-> {1, 3}, enforcement |-> "enabled"]>>,
   writer |-> <<Ruleset(1, "n1", {"update"}, {1}), Ruleset(1, "n1", {"update"}, {2})>>,
   safety |-> <<Ruleset(2, "n2", Linear, {}), Ruleset(2, "n3", Linear, {}),
                Ruleset(2, "n2", Linear, {1})>>,
   protection |-> <<[on |-> {"enforce_admins", "required_linear_history"}],
                    [on |-> {"enforce_admins", "required_linear_history", "allow_deletions"}]>>,
   observerApp |-> <<[exact |-> TRUE, permissions |-> RO, events |-> {}]>>,
   observerInstallation |-> <<[exact |-> TRUE, permissions |-> RO, events |-> {}],
                              [exact |-> TRUE, permissions |-> RW, events |-> {}]>>,
   token |-> <<[exact |-> TRUE, count |-> 1, permissions |-> {"contents:read"}, expires |-> 2],
               [exact |-> TRUE, count |-> 1, permissions |-> {"contents:read"}, expires |-> 9]>>,
   owner |-> <<[exact |-> TRUE, ownerType |-> "Organization"], [exact |-> TRUE, ownerType |-> "User"]>>,
   effective |-> <<{Entry(1)}, {Entry(2)}>>,
   details |-> <<1 :> Detail(1, {}), 1 :> Detail(2, {}), 1 :> Detail(1, {"admin"})>>,
   checks |-> <<Checks(TRUE, 7), Checks(FALSE, 7), Checks(TRUE, 8)>>,
   queue |-> <<Queue(1), Queue(2)>>,
   runs |-> <<Runs("c1", "success", 0), Runs("c1", "success", -1), Runs("c1", "failure", 0)>>]
-----------------------------------------------------------------------------
(* However runs and resumptions of one candidate race over its pull request and its
   marker, an operation sends one merge request, authorized under a recorded plan, and
   a successful receipt is of a candidate that reached integration (run, resume). *)
CampaignMergesOnce == live = "campaign" => Campaign!CampaignMergesOnce

(* The journals of a campaign hold records of their contracts, and a package is of the
   one merge that reached integration, under a plan whose main never moved (finalize). *)
PackageIsTrue ==
  live = "campaign" => Campaign!IntegrationCampaignTypeOK /\ Campaign!PackageIsTrue

(* However many controllers run or recover an operation, and wherever they crash,
   its PATCH is sent at most once (claim_dispatch_started). *)
OnePatch == live = "cas" => Cas!OnePatch

(* Every durable record of the controllers satisfies its contract; a durable
   rejection is of a PATCH that did not move main and never will, and a completion is
   of a main that reached the candidate (_dispatch_once, _assert_completion_arm). *)
CasRecordsTrue == live = "cas" => Cas!CasTypeOK /\ Cas!CasOutcomesTrue

(* Every evidence record satisfies its contract; a conclusive rejection is of a PATCH
   that did not move main, and a bundle that contradicts its candidate response was
   collected before that response (classify, capture, compose). *)
EvidenceTrue == live = "evidence" => Evidence!EvidenceTypeOK /\ Evidence!EvidenceTrue

(* An observer that reads everything twice returns a configuration that held as a
   whole at one moment, and check runs that are still within the window (verify,
   _capture_locked, revalidate_validation_principal_freshness). *)
HostedTrue == live = "hosted" => Hosted!HostedTypeOK /\ Hosted!ObservedTogether
=============================================================================
