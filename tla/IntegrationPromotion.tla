----------------------- MODULE IntegrationPromotion -----------------------
(***************************************************************************)
(* Promotion of prepared pull requests into the integration branch:         *)
(* IntegrationPromotionService.promote, the filesystem journal behind it    *)
(* (one lease file per target, create-once records per operation) and the   *)
(* hosted provider.                                                         *)
(*                                                                          *)
(* Any number of calls, for different operations or for the same one, run   *)
(* at once and may die at any step.  One action is one access to the        *)
(* journal or to the provider; the lease file is read and unlinked in two.  *)
(* A merge request that the network accepted takes effect at any later time,*)
(* also after its caller has given up waiting for the answer.               *)
(***************************************************************************)
EXTENDS Naturals, FiniteSets

CONSTANTS
  Callers,      \* concurrent promote calls
  Operations,   \* operation ids; each stands for one bundle and pull request
  NoLease,
  MaxCalls,     \* bound on the number of calls, for model checking only
  MaxCommits    \* bound on the integration branch, for model checking only

ASSUME ConstantsAssumption ==
  /\ MaxCalls \in Nat
  /\ MaxCommits \in Nat \ {0}

VARIABLES
  lease,          \* the target's lease file: NoLease, or its operation, identity, expiry
  evidence,       \* PromotionLeaseEvidence per operation: the lease identity, or 0
  intent,         \* IntegrationPromotionIntent per operation: its lease identity, or 0
  authorization,  \* PromotionMutationAuthorization per operation, likewise
  receipt,        \* outcome of the IntegrationPromotionReceipt, or "none"
  head,           \* commits on the integration branch; commit n has parent n - 1
  base,           \* base commit of each operation's bundle
  merged,         \* merge commit of each pull request, or 0
  request,        \* the merge request at the provider
  calls,          \* number of calls made; a call's number is its lease identity
  pc,             \* the step each caller is about to take
  call,           \* the operation and lease identity of each caller's call, or NoCall
  found           \* what the call has learnt of the merge

vars == <<lease, evidence, intent, authorization, receipt, head, base, merged,
          request, calls, pc, call, found>>

journal == <<evidence, intent, authorization, receipt>>
provider == <<head, base, merged, request>>
callers == <<pc, call, found>>

Outcome ==
  {"applied", "already_applied", "stale_base", "not_applicable", "invalid",
   "reconciliation_required"}

\* recovering: the call found an intent, or a receipt, and holds no lease of its own.
Answer == {"none", "recovering", "applied", "rejected", "ambiguous"}

Step ==
  {"receipt", "intent", "evidence", "lease", "record_evidence", "replay", "record_intent",
   "fence", "observe", "guard", "authorize", "put", "await", "pull_request", "target",
   "record_receipt", "release", "unlink"}

NoCall == [id |-> 0]

Call == [op : Operations, id : 1 .. MaxCalls]

\* answer: of the merge; seen: the pull request's merge commit; outcome: the conclusion.
Found == [answer : Answer, seen : 0 .. MaxCommits, outcome : Outcome \cup {"none"}]

Nothing == [answer |-> "none", seen |-> 0, outcome |-> "none"]

\* Every row, file and call in flight has its type (the records of promote).
TypeOK ==
  /\ lease \in {NoLease} \cup
       [op : Operations, id : 1 .. MaxCalls, expired : BOOLEAN]
  /\ evidence \in [Operations -> 0 .. MaxCalls]
  /\ intent \in [Operations -> 0 .. MaxCalls]
  /\ authorization \in [Operations -> 0 .. MaxCalls]
  /\ receipt \in [Operations -> Outcome \cup {"none"}]
  /\ head \in 1 .. MaxCommits
  /\ base \in [Operations -> 0 .. MaxCommits]
  /\ merged \in [Operations -> 0 .. MaxCommits]
  /\ request \in [Operations -> {"none", "sent", "landed", "rejected", "lost"}]
  /\ calls \in 0 .. MaxCalls
  /\ pc \in [Callers -> Step \cup {"idle"}]
  /\ call \in [Callers -> Call \cup {NoCall}]
  /\ found \in [Callers -> Found]

Init ==
  /\ lease = NoLease
  /\ evidence = [o \in Operations |-> 0]
  /\ intent = [o \in Operations |-> 0]
  /\ authorization = [o \in Operations |-> 0]
  /\ receipt = [o \in Operations |-> "none"]
  /\ head = 1
  /\ base = [o \in Operations |-> 0]
  /\ merged = [o \in Operations |-> 0]
  /\ request = [o \in Operations |-> "none"]
  /\ calls = 0
  /\ pc = [p \in Callers |-> "idle"]
  /\ call = [p \in Callers |-> NoCall]
  /\ found = [p \in Callers |-> Nothing]
-----------------------------------------------------------------------------
Goes(p, step) ==
  /\ pc' = [pc EXCEPT ![p] = step]
  /\ UNCHANGED <<call, found>>

Learns(p, step, what) ==
  /\ pc' = [pc EXCEPT ![p] = step]
  /\ found' = [found EXCEPT ![p] = what]
  /\ UNCHANGED call

\* The call reports and returns; what it held is gone.
Returns(p) ==
  /\ pc' = [pc EXCEPT ![p] = "idle"]
  /\ call' = [call EXCEPT ![p] = NoCall]
  /\ found' = [found EXCEPT ![p] = Nothing]

Recovering(p) == found[p].answer = "recovering"

RecordOverwrites(old, new, none) == TRUE

\* _record: the index is created exclusively; a second record must be the same.
RecordAccepted(old, new, none) == old \in {none, new}

\* assert_current: the file is this very lease and has not expired.
Current(p) == lease = [op |-> call[p].op, id |-> call[p].id, expired |-> FALSE]

\* The lease file that release_lease and release_matching_lease look for.
Matches(p) ==
  /\ lease # NoLease
  /\ lease.op = call[p].op
  /\ lease.id = IF Recovering(p) THEN intent[call[p].op] ELSE call[p].id
-----------------------------------------------------------------------------
\* A campaign opens the pull request and freezes the bundle on the current head.
Prepare(o) ==
  /\ base[o] = 0
  /\ base' = [base EXCEPT ![o] = head]
  /\ UNCHANGED <<lease, journal, head, merged, request, calls, callers>>

Promote(p, o) ==
  /\ pc[p] = "idle"
  /\ base[o] # 0
  /\ calls < MaxCalls
  /\ calls' = calls + 1
  /\ pc' = [pc EXCEPT ![p] = "receipt"]
  /\ call' = [call EXCEPT ![p] = [op |-> o, id |-> calls + 1]]
  /\ UNCHANGED <<lease, journal, provider, found>>

Recovered == [answer |-> "recovering", seen |-> 0, outcome |-> "none"]

\* read_receipt: an existing receipt is reported once the matching lease is released.
ReadReceipt(p) ==
  /\ pc[p] = "receipt"
  /\ IF receipt[call[p].op] = "none"
     THEN Goes(p, "intent")
     ELSE Learns(p, "release", Recovered)
  /\ UNCHANGED <<lease, journal, provider, calls>>

ReadIntentUnauthorized(p) ==
  /\ pc[p] = "intent"
  /\ IF intent[call[p].op] = 0
     THEN Goes(p, "evidence")
     ELSE Learns(p, "pull_request", Recovered)
  /\ UNCHANGED <<lease, journal, provider, calls>>

\* read_intent and read_mutation_authorization.  An intent without an authorization
\* is reported invalid; with one, the provider is reconciled once.
ReadIntent(p) ==
  /\ pc[p] = "intent"
  /\ LET o == call[p].op IN
       \/ intent[o] = 0 /\ Goes(p, "evidence")
       \/ intent[o] # 0 /\ authorization[o] = 0 /\ Returns(p)
       \/ intent[o] # 0 /\ authorization[o] # 0 /\ Learns(p, "pull_request", Recovered)
  /\ UNCHANGED <<lease, journal, provider, calls>>

\* acquire_lease refuses an operation that has lease evidence ...
CheckEvidence(p) ==
  /\ pc[p] = "evidence"
  /\ IF evidence[call[p].op] = 0 THEN Goes(p, "lease") ELSE Returns(p)
  /\ UNCHANGED <<lease, journal, provider, calls>>

\* An expired lease still occupies the file.
LeaseIsFree == lease = NoLease

\* ... creates the file exclusively ...
CreateLease(p) ==
  /\ pc[p] = "lease"
  /\ IF LeaseIsFree
     THEN /\ lease' = [op |-> call[p].op, id |-> call[p].id, expired |-> FALSE]
          /\ Goes(p, "record_evidence")
     ELSE Returns(p) /\ UNCHANGED lease
  /\ UNCHANGED <<journal, provider, calls>>

\* ... and records the evidence, or releases the lease when it conflicts.
RecordEvidence(p) ==
  /\ pc[p] = "record_evidence"
  /\ LET o == call[p].op IN
       IF RecordAccepted(evidence[o], call[p].id, 0)
       THEN evidence' = [evidence EXCEPT ![o] = call[p].id] /\ Goes(p, "replay")
       ELSE Goes(p, "release") /\ UNCHANGED evidence
  /\ UNCHANGED <<lease, intent, authorization, receipt, provider, calls>>

\* The fence, the replay of the bundle on the repository and the first observation of
\* the pull request.  Nothing is submitted yet, so a refusal releases the lease.
Replay(p) ==
  /\ pc[p] = "replay"
  /\ LET o == call[p].op IN
       \/ /\ Current(p)
          /\ base[o] = head
          /\ merged[o] = 0
          /\ Goes(p, "record_intent")
       \/ Goes(p, "release")
  /\ UNCHANGED <<lease, journal, provider, calls>>

RecordIntent(p) ==
  /\ pc[p] = "record_intent"
  /\ LET o == call[p].op IN
       IF RecordAccepted(intent[o], call[p].id, 0)
       THEN intent' = [intent EXCEPT ![o] = call[p].id] /\ Goes(p, "fence")
       ELSE Goes(p, "release") /\ UNCHANGED intent
  /\ UNCHANGED <<lease, evidence, authorization, receipt, provider, calls>>

\* A lease lost from here on is reported as reconciliation_required and kept.
Fence(p) ==
  /\ pc[p] = "fence"
  /\ IF Current(p) THEN Goes(p, "observe") ELSE Returns(p)
  /\ UNCHANGED <<lease, journal, provider, calls>>

\* The provider's merge, before the mutation boundary: a failed precondition ends in
\* an invalid receipt.
Invalidates(p) ==
  Learns(p, "record_receipt", [answer |-> "none", seen |-> 0, outcome |-> "invalid"])

Observe(p) ==
  /\ pc[p] = "observe"
  /\ LET o == call[p].op IN
       \/ merged[o] = 0 /\ base[o] = head /\ Goes(p, "guard")
       \/ Invalidates(p)
  /\ UNCHANGED <<lease, journal, provider, calls>>

LeaseGuard(p) ==
  /\ pc[p] = "guard"
  /\ IF Current(p) THEN Goes(p, "authorize") ELSE Invalidates(p)
  /\ UNCHANGED <<lease, journal, provider, calls>>

AuthorizeMutation(p) ==
  /\ pc[p] = "authorize"
  /\ LET o == call[p].op IN
       IF RecordAccepted(authorization[o], call[p].id, 0)
       THEN authorization' = [authorization EXCEPT ![o] = call[p].id] /\ Goes(p, "put")
       ELSE Invalidates(p) /\ UNCHANGED authorization
  /\ UNCHANGED <<lease, evidence, intent, receipt, provider, calls>>
-----------------------------------------------------------------------------
\* The one mutating request.  Two submissions of one operation are what the journal
\* has to exclude, so a second one is visible as a request that is sent again.
SubmitMerge(p) ==
  /\ pc[p] = "put"
  /\ request' = [request EXCEPT ![call[p].op] = "sent"]
  /\ Goes(p, "await")
  /\ UNCHANGED <<lease, journal, head, base, merged, calls>>

\* The provider squashes the pull request onto whatever the head then is, or refuses, or
\* never gets the request.
Land(o) ==
  /\ request[o] = "sent"
  /\ \/ /\ merged[o] = 0
        /\ head < MaxCommits
        /\ head' = head + 1
        /\ merged' = [merged EXCEPT ![o] = head + 1]
        /\ request' = [request EXCEPT ![o] = "landed"]
     \/ /\ request' = [request EXCEPT ![o] = "rejected"]
        /\ UNCHANGED <<head, merged>>
     \/ /\ request' = [request EXCEPT ![o] = "lost"]
        /\ UNCHANGED <<head, merged>>
  /\ UNCHANGED <<lease, journal, base, calls, callers>>

\* Somebody else merges the pull request or pushes to the integration branch.
OthersMerge ==
  /\ head < MaxCommits
  /\ head' = head + 1
  /\ \/ UNCHANGED merged
     \/ \E o \in Operations :
          /\ base[o] # 0
          /\ merged[o] = 0
          /\ merged' = [merged EXCEPT ![o] = head + 1]
  /\ UNCHANGED <<lease, journal, base, request, calls, callers>>

Answered(p, answer) ==
  Learns(p, "pull_request", [answer |-> answer, seen |-> 0, outcome |-> "none"])

\* The answer to the request.  A result with another parent is an error, and so as
\* ambiguous as an answer that never comes.
ReceiveAnswer(p) ==
  /\ pc[p] = "await"
  /\ LET o == call[p].op IN
       \/ /\ request[o] = "landed"
          /\ Answered(p, IF merged[o] = base[o] + 1 THEN "applied" ELSE "ambiguous")
       \/ /\ request[o] = "rejected"
          /\ Answered(p, "rejected")
       \/ Answered(p, "ambiguous")
  /\ UNCHANGED <<lease, journal, provider, calls>>

\* reconcile reads the pull request ...
ReadPullRequest(p) ==
  /\ pc[p] = "pull_request"
  /\ Learns(p, "target", [answer |-> found[p].answer, seen |-> merged[call[p].op],
                           outcome |-> "none"])
  /\ UNCHANGED <<lease, journal, provider, calls>>

\* The pull request was squashed onto its base and is still the branch's head.
Exact(p) == found[p].seen # 0 /\ found[p].seen = head /\ head = base[call[p].op] + 1

ClassifyUnansweredAsRefused(p) ==
  IF Exact(p) /\ found[p].answer = "applied" THEN "applied"
  ELSE IF Exact(p) /\ found[p].answer \in {"ambiguous", "recovering"} THEN "already_applied"
  ELSE IF found[p].seen # 0 \/ found[p].answer = "recovering" THEN "reconciliation_required"
  ELSE IF head # base[call[p].op] THEN "stale_base" ELSE "not_applicable"

\* _classify, and _classify_reconciliation for a recovery, which has no answer.
Classify(p) ==
  IF Exact(p) /\ found[p].answer = "applied" THEN "applied"
  ELSE IF Exact(p) /\ found[p].answer \in {"ambiguous", "recovering"} THEN "already_applied"
  ELSE IF found[p].seen # 0 \/ found[p].answer # "rejected" THEN "reconciliation_required"
  ELSE IF head # base[call[p].op] THEN "stale_base" ELSE "not_applicable"

\* ... and the target.  A merged pull request under a head with another parent raises;
\* a recovery that is not applied reports and leaves the lease; the call that submitted
\* the request fences once more and records what it found.
ReadTarget(p) ==
  /\ pc[p] = "target"
  /\ LET raises == found[p].seen # 0 /\ head # base[call[p].op] + 1
         unresolved == Recovering(p) /\ Classify(p) # "already_applied"
         fenced == ~Recovering(p) /\ ~Current(p) IN
       IF raises \/ unresolved \/ fenced
       THEN Returns(p)
       ELSE Learns(p, "record_receipt", [answer |-> found[p].answer, seen |-> found[p].seen,
                                         outcome |-> Classify(p)])
  /\ UNCHANGED <<lease, journal, provider, calls>>

\* A conflicting receipt raises; a precondition receipt has released the lease by then.
RecordReceipt(p) ==
  /\ pc[p] = "record_receipt"
  /\ LET o == call[p].op
         outcome == found[p].outcome IN
       IF RecordAccepted(receipt[o], outcome, "none")
       THEN /\ receipt' = [receipt EXCEPT ![o] = outcome]
            /\ IF outcome = "reconciliation_required" THEN Returns(p) ELSE Goes(p, "release")
       ELSE /\ IF outcome = "invalid" THEN Goes(p, "release") ELSE Returns(p)
            /\ UNCHANGED receipt
  /\ UNCHANGED <<lease, evidence, intent, authorization, provider, calls>>
-----------------------------------------------------------------------------
\* release_lease reads the file, then unlinks the path.
ReadForRelease(p) ==
  /\ pc[p] = "release"
  /\ IF Matches(p) THEN Goes(p, "unlink") ELSE Returns(p)
  /\ UNCHANGED <<lease, journal, provider, calls>>

UnlinkLease(p) ==
  /\ pc[p] = "unlink"
  /\ lease' = NoLease
  /\ Returns(p)
  /\ UNCHANGED <<journal, provider, calls>>

\* A failed journal write or provider read, an exception or the death of the process.
\* A process that lives releases the lease while nothing can have been submitted.
Fails(p) ==
  /\ pc[p] # "idle"
  /\ \/ Returns(p)
     \/ /\ \/ pc[p] \in {"record_evidence", "record_intent"}
           \/ pc[p] = "record_receipt" /\ found[p].outcome = "invalid"
        /\ Goes(p, "release")
  /\ UNCHANGED <<lease, journal, provider, calls>>

\* _exclusive_write created the record's index and could not sync its directory: the
\* record is there and the call raises.
Unconfirmed(p) ==
  /\ \/ pc[p] = "fence" /\ Goes(p, "release")
     \/ pc[p] = "put" /\ Invalidates(p)
  /\ UNCHANGED <<lease, journal, provider, calls>>

Expire ==
  /\ lease # NoLease
  /\ ~lease.expired
  /\ lease' = [op |-> lease.op, id |-> lease.id, expired |-> TRUE]
  /\ UNCHANGED <<journal, provider, calls, callers>>

\* An operator removes a lease once nobody works on its operation and no request of it
\* is pending.
OperatorRemovesLease ==
  /\ lease # NoLease
  /\ \A p \in Callers : pc[p] # "idle" => call[p].op # lease.op
  /\ request[lease.op] # "sent"
  /\ lease' = NoLease
  /\ UNCHANGED <<journal, provider, calls, callers>>

Proceed(p) ==
  \/ ReadReceipt(p) \/ ReadIntent(p) \/ CheckEvidence(p) \/ CreateLease(p)
  \/ RecordEvidence(p) \/ Replay(p) \/ RecordIntent(p) \/ Fence(p) \/ Observe(p)
  \/ LeaseGuard(p) \/ AuthorizeMutation(p) \/ SubmitMerge(p) \/ ReceiveAnswer(p)
  \/ ReadPullRequest(p) \/ ReadTarget(p) \/ RecordReceipt(p) \/ ReadForRelease(p)
  \/ UnlinkLease(p)

Next ==
  \/ \E o \in Operations : Prepare(o) \/ Land(o)
  \/ \E p \in Callers : Proceed(p) \/ Fails(p) \/ Unconfirmed(p)
  \/ \E p \in Callers, o \in Operations : Promote(p, o)
  \/ OthersMerge
  \/ Expire
  \/ OperatorRemovesLease

Spec == Init /\ [][Next]_vars
-----------------------------------------------------------------------------
\* Calls of the operation that are about to submit the merge request.
Submitting(o) == {p \in Callers : pc[p] = "put" /\ call[p].op = o}

\* The merge of an operation is requested once, however often and by however many
\* processes it is promoted, and whatever crashed in between (the create-once lease
\* evidence, intent and authorization).
OneMergeRequest ==
  \A o \in Operations :
    /\ request[o] # "none" => Submitting(o) = {}
    /\ Cardinality(Submitting(o)) <= 1

\* A receipt that claims success stands on a durable intent and authorization of one
\* lease, and the pull request was squashed exactly onto the base of its bundle.
SuccessIsExact ==
  \A o \in Operations :
    receipt[o] \in {"applied", "already_applied"} =>
      /\ authorization[o] # 0
      /\ intent[o] = authorization[o]
      /\ evidence[o] = authorization[o]
      /\ merged[o] = base[o] + 1

\* A receipt that says the promotion did not happen is never contradicted: no request
\* of that operation has landed or can still land.
RefusalIsFinal ==
  \A o \in Operations :
    receipt[o] \in {"invalid", "stale_base", "not_applicable"} =>
      /\ request[o] \in {"none", "rejected"}
      /\ Submitting(o) = {}

\* An operation whose outcome is unknown keeps the target's lease until it is resolved.
AmbiguityKeepsLease ==
  \A o \in Operations :
    request[o] = "sent" /\ receipt[o] = "reconciliation_required" =>
      lease # NoLease /\ lease.op = o
=============================================================================
