----------------------------- MODULE HostedReads -----------------------------
(***************************************************************************)
(* The read-only observers of the hosted repository.  Each authenticates   *)
(* facts that live in different resources with one GET after the other,    *)
(* while the resources may change:                                         *)
(*   verify    MainPersonalExactCasGitHubHostedConfigurationVerifier.verify *)
(*   base      GitHubMainBaseReader.fresh_main_base                        *)
(*   snapshot  C8GitHubSnapshotAdapter.capture                             *)
(*   preflight GitHubC8PreflightSnapshot.capture, then                     *)
(*             C8HostedPreflightService.run                                *)
(*                                                                         *)
(* A resource has a version; Payload gives the facts of a version.  Reads  *)
(* of an immutable object (the commit, its tree, a file at a commit) are   *)
(* part of the read of what names them.  A read fails at any time.         *)
(***************************************************************************)
EXTENDS HostedParsers, Sequences, Functions

CONSTANTS
  Payload,         \* resource -> version -> the facts GitHub answers with
  Window,          \* _MAX_OBSERVATION, freshness_window
  TokenLifetime,   \* 65 minutes
  MaxHostedTime,   \* bound on the clock
  MaxChanges       \* bound on the changes of resources during an observation

VARIABLES
  hostedNow,       \* the trusted clock
  observer,        \* the observer that is running
  hosted,          \* resource -> its present version
  reads,           \* the versions read so far, in the order of Steps
  started,         \* when the observation started
  held,            \* the values hosted had since the observation started
  result           \* "reading", "failed", or what the observer returned

hostedVars == <<hostedNow, observer, hosted, reads, started, held, result>>

Resources == DOMAIN Payload

\* ----- the order of the reads ---------------------------------------------
\* MainPersonalExactCasGitHubHostedConfigurationVerifier._configuration_pass.
VerifierPass ==
  <<"repository", "app", "installations", "selected", "rulesets", "writer",
    "safety", "protection">>

\* GitHubC8PreflightSnapshot._configuration_pass.
PreflightPass == <<"effective", "details", "checks", "queue", "runs">>

VerifySteps == <<"main">> \o VerifierPass \o VerifierPass \o <<"main">>
BaseSteps == <<"observerApp", "observerInstallation", "token", "repository", "main", "main">>
SnapshotSteps == <<"owner", "main", "main">>
PreflightSteps ==
  <<"owner", "main">> \o PreflightPass \o PreflightPass \o <<"main">>

Steps ==
  [verify |-> VerifySteps, base |-> BaseSteps, snapshot |-> SnapshotSteps,
   preflight |-> PreflightSteps]

Observers == DOMAIN Steps

\* What the running observer read last of a resource.
Latest(rs, r) ==
  LET at == {i \in DOMAIN rs : Steps[observer][i] = r} IN
  Payload[r][rs[CHOOSE i \in at : \A j \in at : j <= i]]

\* ----- the checks made as soon as a resource is read ----------------------
VerifierAccepts(rs, r) ==
  LET v == Latest(rs, r) IN
  CASE r = "repository" -> VerifyRepository(v)
    [] r = "app" -> VerifyApp(v)
    [] r = "installations" -> VerifyInstallation(v, Latest(rs, "app"))
    [] r = "selected" -> VerifySelectedRepository(v)
    [] r = "rulesets" -> VerifyRulesetSummary(v)
    [] r = "writer" -> VerifySummaryDetail(Latest(rs, "rulesets"), v)
                         /\ WriterRuleset(v, Latest(rs, "app"))
    [] r = "safety" -> VerifySummaryDetail(Latest(rs, "rulesets"), v) /\ SafetyRuleset(v)
    [] r = "protection" -> VerifyBranchProtection(v)
    [] r = "main" -> TRUE

BaseAccepts(rs, r) ==
  LET v == Latest(rs, r) IN
  CASE r \in {"observerApp", "observerInstallation"} -> VerifyObserver(v)
    [] r = "token" -> MintInstallationToken(v, hostedNow, TokenLifetime)
    [] r = "repository" -> VerifyRepository(v)
    [] r = "main" -> TRUE

\* _validation_evidence: blocked evidence is kept, unverifiable evidence is not.
Validation(rs) ==
  ParseValidationPrincipalCheckRuns(Latest(rs, "runs"), Latest(rs, "main").commit,
                                    started, started - Window)

PreflightAccepts(rs, r) ==
  CASE r = "owner" -> Latest(rs, r).exact
    [] r = "queue" ->
         /\ ParseEffectiveMainRules(Latest(rs, "effective"), Latest(rs, "details"))
         /\ ParseRequiredChecks(Latest(rs, "checks"))
         /\ ParseMergeQueueConfiguration(Latest(rs, "queue"))
         /\ CrossBindQueue(Latest(rs, "effective"), Latest(rs, "queue"))
    [] r = "runs" -> Validation(rs) # "unverifiable"
    [] r \in {"main", "effective", "details", "checks"} -> TRUE

Accepts(rs, r) ==
  CASE observer = "verify" -> VerifierAccepts(rs, r)
    [] observer = "base" -> BaseAccepts(rs, r)
    [] observer \in {"snapshot", "preflight"} -> PreflightAccepts(rs, r)

\* ----- the checks made after the last read --------------------------------
\* Every resource read twice, main among them, has the same bytes both times.
MainIsFenced(rs) ==
  \A i, j \in DOMAIN rs :
    Steps[observer][i] = "main" /\ Steps[observer][j] = "main" => rs[i] = rs[j]
Consistent(rs) ==
  \A i, j \in DOMAIN rs : Steps[observer][i] = Steps[observer][j] => rs[i] = rs[j]

WithinWindow == hostedNow - started <= Window

\* revalidate_validation_principal_freshness.
StillFresh(rs) ==
  observer = "preflight" =>
    RevalidateValidationPrincipalFreshness(Latest(rs, "runs"), hostedNow, hostedNow - Window)

\* verify: what the diagnostic names of its two passes.
Diagnostic(rs) ==
  [started |-> started, finished |-> hostedNow,
   writer |-> Latest(rs, "writer").id, safety |-> Latest(rs, "safety").id,
   first |-> SubSeq(rs, 2, 1 + Len(VerifierPass)),
   second |-> SubSeq(rs, 2 + Len(VerifierPass), 1 + 2 * Len(VerifierPass))]

Concludes(rs) ==
  /\ Consistent(rs)
  /\ observer # "base" => WithinWindow
  /\ StillFresh(rs)
  /\ observer = "verify" =>
       MainPersonalExactCasHostedConfigurationDiagnostic(Diagnostic(rs), Window)

\* ----- C8HostedPreflightService.run ---------------------------------------
\* observe_isolated_issuer and observe_rollback_namespace are _unsupported, and
\* so are three more observations of the Phase-1 snapshot.
Blockers(rs) ==
  LET file == Latest(rs, "main").workflow IN
  RepositoryBlockers(Latest(rs, "owner"))
    \cup (IF observer = "preflight" /\ WorkflowReadable(file)
          THEN WorkflowBlockers(ParseWorkflowSemantics(file)) ELSE {})
    \cup (IF observer = "preflight" THEN ValidationBlockers(Validation(rs)) ELSE {})

Unverifiable == {"isolated_issuer_read_unverifiable", "rollback_namespace_read_unverifiable"}

Report(rs) == HostedC8PreflightReport(Blockers(rs), Unverifiable)

Returned(rs) ==
  CASE observer \in {"verify", "base"} -> "matched"
    [] observer \in {"snapshot", "preflight"} -> Report(rs)

\* ----- actions ------------------------------------------------------------
ReadNext ==
  /\ result = "reading"
  /\ LET r == Steps[observer][Len(reads) + 1]
         rs == Append(reads, hosted[r]) IN
     /\ reads' = rs
     /\ result' = CASE ~Accepts(rs, r) -> "failed"
                    [] Accepts(rs, r) /\ Len(rs) < Len(Steps[observer]) -> "reading"
                    [] Accepts(rs, r) /\ Len(rs) = Len(Steps[observer]) ->
                         IF Concludes(rs) THEN Returned(rs) ELSE "failed"
  /\ UNCHANGED <<hostedNow, observer, hosted, started, held>>

\* _get: any transport failure or status ends the observation.
ReadFails ==
  /\ result = "reading"
  /\ result' = "failed"
  /\ UNCHANGED <<hostedNow, observer, hosted, reads, started, held>>

\* Somebody changes a resource while it is observed.
Change(r, version) ==
  /\ result = "reading"
  /\ r \in Range(Steps[observer]) /\ version # hosted[r]
  /\ Len(held) <= MaxChanges
  /\ hosted' = [hosted EXCEPT ![r] = version]
  /\ held' = Append(held, hosted')
  /\ UNCHANGED <<hostedNow, observer, reads, started, result>>

HostedTick ==
  /\ result = "reading"
  /\ hostedNow < MaxHostedTime /\ hostedNow' = hostedNow + 1
  /\ UNCHANGED <<observer, hosted, reads, started, held, result>>

\* The observation starts in a configuration with at most one resource amiss.
HostedInit ==
  /\ hostedNow = 0
  /\ observer \in Observers
  /\ \E r \in Range(Steps[observer]) : \E version \in DOMAIN Payload[r] :
       hosted = [x \in Resources |-> IF x = r THEN version ELSE 1]
  /\ reads = <<>>
  /\ started = 0
  /\ held = <<hosted>>
  /\ result = "reading"

HostedNext ==
  \/ ReadNext \/ ReadFails \/ HostedTick
  \/ \E r \in Resources : \E version \in DOMAIN Payload[r] : Change(r, version)

HostedSpec == HostedInit /\ [][HostedNext]_hostedVars

\* ----- properties ---------------------------------------------------------
Done == result \notin {"reading", "failed"}

\* The observation, as a configuration of the resources that were read.
Observed ==
  [r \in Range(Steps[observer]) |->
     reads[CHOOSE i \in DOMAIN reads : Steps[observer][i] = r]]

\* A resource left a value and came back to it: two reads of it cannot tell.
Reverted ==
  \E r \in Resources : \E i, j, k \in DOMAIN held :
    i < j /\ j < k /\ held[i][r] = held[k][r] /\ held[j][r] # held[i][r]

\* Reads have versions of their resources, results are those of the contracts.
HostedTypeOK ==
  /\ hostedNow \in 0..MaxHostedTime
  /\ \A i \in DOMAIN reads : reads[i] \in DOMAIN Payload[Steps[observer][i]]
  /\ result \in {"reading", "failed", "matched", "blocked", "unverifiable"}

\* What an observer that reads everything twice returns is a configuration that
\* held as a whole at one moment, not one put together from different moments,
\* unless a resource changed and changed back in between; the check runs it
\* reports on are within the window when it returns (verify, _capture_locked,
\* revalidate_validation_principal_freshness).
ObservedTogether ==
  Done /\ observer \in {"verify", "preflight"} =>
    /\ \/ Reverted
       \/ \E i \in DOMAIN held : \A r \in DOMAIN Observed \ {"owner"} :
            held[i][r] = Observed[r]
    /\ hostedNow - started <= Window
    /\ observer = "preflight" =>
         \A x \in Latest(reads, "runs").runs :
           x.context \in ValidationContexts => hostedNow - x.at <= Window
=============================================================================
