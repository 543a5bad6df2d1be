---------------------------- MODULE HostedParsers ----------------------------
(***************************************************************************)
(* What the read-only observers make of GitHub's answers: the parsers of   *)
(* hosted_git/c8_phase2.py and c8_workflow_semantics.py, the checks of     *)
(* hosted_git/main_personal_exact_cas_hosted_configuration.py and          *)
(* github_main_base_reader.py, and the report of                           *)
(* application/c8_hosted_preflight.py with its contracts.                  *)
(*                                                                         *)
(* An answer is a record of the facts its checks look at; a check of fixed *)
(* identity fields (names, ids, visibility) is the one fact `exact'.       *)
(***************************************************************************)
EXTENDS Integers, FiniteSets

ValidationContexts == {"ubuntu", "windows"}
ReleaseContext == "avo-main-release"
ValidationApp == 15368

\* ----- c8_phase2.py -------------------------------------------------------
\* _conditions: main is included by a pattern known to match it, nothing is
\* excluded.
Conditions(detail) ==
  /\ detail.include \cap {"refs/heads/main", "~DEFAULT_BRANCH", "~ALL"} # {}
  /\ detail.exclude = {}

\* _configuration_pass appends the detail of a ruleset once for each effective rule
\* of it, and the parser refuses a ruleset it is given twice.
DetailedOnce(effective) == \A e, f \in effective : e.ruleset = f.ruleset => e = f

\* Every effective rule belongs to a resolved ruleset that holds exactly the
\* effective rules of that ruleset, is active, has no bypass and targets
\* branches; no ruleset is left over; exactly one merge_queue rule.
ParseEffectiveMainRules(effective, details) ==
  /\ DetailedOnce(effective)
  /\ \A r \in DOMAIN details : Conditions(details[r])
  /\ {e.ruleset : e \in effective} = DOMAIN details
  /\ \A e \in effective :
       LET d == details[e.ruleset] IN
       /\ d.rules = {[type |-> f.type, parameters |-> f.parameters] :
                       f \in {g \in effective : g.ruleset = e.ruleset}}
       /\ d.enforcement = "active" /\ d.bypass = {} /\ d.target = "branch"
  /\ Cardinality({e \in effective : e.type = "merge_queue"}) = 1

ParseMergeQueueConfiguration(queue) ==
  /\ ~queue.errors /\ queue.present
  /\ queue.merge = 1 /\ queue.build >= 1
  /\ queue.method = "SQUASH" /\ queue.strategy = "ALLGREEN"
  /\ queue.nodes = queue.total /\ ~queue.hasNextPage
  /\ queue.total = 0

ParseRequiredChecks(protection) ==
  LET pairs == protection.checks
      contexts == {p.context : p \in pairs} IN
  /\ protection.strict
  /\ Cardinality(contexts) = Cardinality(pairs)
  /\ contexts = ValidationContexts \cup {ReleaseContext}
  /\ {p.context : p \in {q \in pairs : q.app = ValidationApp}} = ValidationContexts
  /\ protection.contexts = contexts

\* The pages are complete and of the pinned commit; the runs of the required
\* contexts were completed within the window.
RunsReadable(runs, sha, at, cutoff) ==
  /\ runs.complete
  /\ \A r \in runs.runs : r.sha = sha
  /\ \A r \in runs.runs : r.context \in ValidationContexts => r.at >= cutoff /\ r.at <= at
  /\ \A c \in ValidationContexts : \E r \in runs.runs : r.context = c

ParseValidationPrincipalCheckRuns(runs, sha, at, cutoff) ==
  LET of(c) == {r \in runs.runs : r.context = c}
      selected == UNION {of(c) : c \in ValidationContexts} IN
  CASE ~RunsReadable(runs, sha, at, cutoff) -> "unverifiable"
    [] \E c \in ValidationContexts : Cardinality(of(c)) > 1 -> "blocked"
    [] \E r \in selected : r.app = ValidationApp /\ ~r.named -> "unverifiable"
    [] \E r \in selected : r.status # "completed" \/ r.conclusion = "none" -> "unverifiable"
    [] \E r \in selected : r.app # ValidationApp \/ r.conclusion # "success" -> "blocked"
    [] OTHER -> "verified"

\* The selected runs are still fresh when the last read is done.
RevalidateValidationPrincipalFreshness(runs, at, cutoff) ==
  \A r \in runs.runs : r.context \in ValidationContexts => r.at >= cutoff /\ r.at <= at

\* _cross_bind_queue: the REST rule and the GraphQL configuration agree.
CrossBindQueue(effective, queue) ==
  \A e \in effective : e.type = "merge_queue" =>
    e.parameters = [merge |-> queue.merge, build |-> queue.build,
                    method |-> queue.method, strategy |-> queue.strategy]

\* ----- c8_workflow_semantics.py -------------------------------------------
\* Facts of a workflow file; a file that cannot be read as one has none.
ParseWorkflowSemantics(file) ==
  [pull_request |-> "pull_request" \in file.on,
   merge_group |-> "checks_requested" \in file.mergeGroupTypes,
   exact |-> file.checkouts # {} /\ \A c \in file.checkouts : c.pinned /\ c.ref = "github.sha",
   persist |-> file.checkouts # {} /\ \A c \in file.checkouts : ~c.persistCredentials]

WorkflowReadable(file) ==
  /\ file.wellFormed /\ file.jobs > 0
  /\ \A c \in file.checkouts : ~c.dynamic

\* ----- contracts/c8_hosted_preflight.py and application/c8_hosted_preflight.py
HostedC8PreflightReport(blockers, unverifiable) ==
  CASE blockers # {} -> "blocked"
    [] blockers = {} /\ unverifiable # {} -> "unverifiable"
    [] OTHER -> "no_detected_configuration_blocker"

RepositoryBlockers(repository) ==
  IF repository.ownerType = "Organization" THEN {} ELSE {"organization_hosting_required"}

\* observe_protection and observe_queue_configuration exist only when their
\* parsers accepted, with the facts those parsers establish.
WorkflowBlockers(semantics) ==
  {c \in {"workflow_events_incomplete", "workflow_exact_sha_checkout_missing",
          "workflow_persist_credentials_enabled"} :
     \/ c = "workflow_events_incomplete" /\ ~(semantics.pull_request /\ semantics.merge_group)
     \/ c = "workflow_exact_sha_checkout_missing" /\ ~semantics.exact
     \/ c = "workflow_persist_credentials_enabled" /\ ~semantics.persist}

ValidationBlockers(validation) ==
  IF validation = "verified" THEN {} ELSE {"validation_app15368_identity_unverified"}

\* ----- main_personal_exact_cas_hosted_configuration.py --------------------
\* _verify_repository and _verify_selected_repository.
VerifyRepository(value) == value.exact

\* _permissions: contents write, metadata read, no events.
Permissions(value) ==
  value.permissions = {"contents:write", "metadata:read"} /\ value.events = {}

VerifyApp(value) == value.exact /\ Permissions(value)

\* Exactly one installation, of this App, selected and not suspended.
VerifyInstallation(value, app) ==
  /\ value.count = 1 /\ value.exact /\ Permissions(value)
  /\ value.app = app.id /\ ~value.suspended

VerifySelectedRepository(value) == value.count = 1 /\ value.exact

\* The two summaries, and each detail against its summary.
VerifyRulesetSummary(value) == Cardinality(value.ids) = 2 /\ value.enforcement = "enabled"

VerifySummaryDetail(summaries, detail) ==
  /\ detail.id \in summaries.ids
  /\ detail.target = "branch" /\ detail.enforcement = "active"
  /\ detail.include = {"refs/heads/main"} /\ detail.exclude = {}

\* _classify_rulesets: one ruleset restricts updates to the writer App, the other
\* one keeps main linear, without bypass.
WriterRuleset(detail, app) ==
  detail.rules = {"update"} /\ detail.bypass = {app.id}

SafetyRuleset(detail) ==
  detail.rules = {"deletion", "non_fast_forward", "required_linear_history"} /\ detail.bypass = {}

VerifyBranchProtection(value) ==
  value.on = {"enforce_admins", "required_linear_history"}

MainPersonalExactCasHostedConfigurationDiagnostic(d, window) ==
  /\ d.started <= d.finished /\ d.finished - d.started <= window
  /\ d.writer # d.safety
  /\ d.first = d.second

\* ----- github_main_base_reader.py -----------------------------------------
\* _verify_app and _verify_installation of the observer App: contents and
\* metadata read, nothing else.
VerifyObserver(value) ==
  value.exact /\ value.permissions = {"contents:read", "metadata:read"} /\ value.events = {}

\* _mint_installation_token: one repository, contents read, bounded expiry.
MintInstallationToken(value, at, lifetime) ==
  /\ value.permissions = {"contents:read"} /\ value.count = 1 /\ value.exact
  /\ value.expires > at /\ value.expires <= at + lifetime
=============================================================================
