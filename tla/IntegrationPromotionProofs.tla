--------------------- MODULE IntegrationPromotionProofs ---------------------
(***************************************************************************)
(* Proofs about IntegrationPromotion for every set of callers and operations *)
(* and any number of calls and commits.                                      *)
(*                                                                          *)
(* The argument: a call's lease identity is its own, so the call whose       *)
(* identity is in the create-once lease evidence is the only owner of the    *)
(* operation for good.  Only an owner gets to the mutation, and it passes    *)
(* each step once.  Known(p) is what a call may rely on at the step it is    *)
(* about to take, whatever other calls, the provider and the clock do.       *)
(***************************************************************************)
EXTENDS IntegrationPromotion, TLAPS

Early == {"receipt", "intent", "evidence", "lease", "record_evidence"}
Intended == {"fence", "observe", "guard", "authorize", "put"}
Owning == {"replay", "record_intent"} \cup Intended
Refusal == {"invalid", "stale_base", "not_applicable"}
Success == {"applied", "already_applied"}

Owner(p) == evidence[call[p].op] = call[p].id

Known(p) ==
  LET o == call[p].op IN
    /\ pc[p] = "idle" => found[p] = Nothing
    /\ pc[p] # "idle" => call[p] \in Call /\ call[p].id <= calls /\ base[o] # 0
    /\ pc[p] \in Early => found[p].answer = "none" /\ evidence[o] # call[p].id
    /\ pc[p] \in Owning =>
         /\ found[p].answer = "none"
         /\ Owner(p)
         /\ request[o] = "none"
         /\ receipt[o] \notin Refusal
    /\ pc[p] \in Intended => intent[o] = call[p].id
    /\ pc[p] \in {"put", "await"} => Owner(p) /\ authorization[o] = call[p].id
    /\ pc[p] = "await" => request[o] # "none"
    /\ pc[p] \in {"pull_request", "target"} =>
         /\ authorization[o] # 0
         /\ found[p].answer = "rejected" => Owner(p) /\ request[o] = "rejected"
    /\ pc[p] = "target" => found[p].seen \in {0, merged[o]}
    /\ pc[p] = "record_receipt" =>
         /\ found[p].outcome # "none"
         /\ evidence[o] # 0
         /\ found[p].outcome = "invalid" => Owner(p) /\ request[o] = "none"
         /\ found[p].outcome \in {"stale_base", "not_applicable"} =>
              Owner(p) /\ request[o] = "rejected"
         /\ found[p].outcome \in Success => authorization[o] # 0 /\ merged[o] = base[o] + 1

\* No two live calls share a lease identity.
IdsDistinct ==
  \A p, q \in Callers :
    pc[p] # "idle" /\ pc[q] # "idle" /\ call[p].id = call[q].id => p = q

\* The records of an operation: each stands on the one before.
Chain(o) ==
  /\ evidence[o] <= calls
  /\ evidence[o] # 0 => base[o] # 0
  /\ intent[o] \in {0, evidence[o]}
  /\ authorization[o] \in {0, intent[o]}
  /\ request[o] # "none" => authorization[o] # 0
  /\ receipt[o] # "none" => evidence[o] # 0
  /\ receipt[o] \in Refusal => request[o] \in {"none", "rejected"}
  /\ receipt[o] \in Success => authorization[o] # 0 /\ merged[o] = base[o] + 1

Inv ==
  /\ TypeOK
  /\ IdsDistinct
  /\ \A o \in Operations : Chain(o)
  /\ \A p \in Callers : Known(p)
-----------------------------------------------------------------------------
LEMMA OwnerUnique ==
  ASSUME Inv, NEW p \in Callers, NEW q \in Callers, pc[p] # "idle", pc[q] # "idle",
         Owner(p), Owner(q), call[p].op = call[q].op
  PROVE  p = q
BY Zenon DEF Inv, IdsDistinct, Owner

\* What the steps of others leave to a call: records are created once, a merge commit
\* stays, and as long as the call owns its operation nobody else submits or refuses it.
Undisturbed(q) ==
  LET o == call[q].op IN
    /\ pc'[q] = pc[q] /\ call'[q] = call[q] /\ found'[q] = found[q]
    /\ pc[q] # "idle" =>
         /\ call[q].id <= calls' /\ base'[o] = base[o]
         /\ evidence[o] # 0 => evidence'[o] = evidence[o]
         /\ evidence'[o] = call[q].id => Owner(q)
         /\ intent[o] # 0 => intent'[o] = intent[o]
         /\ authorization[o] # 0 => authorization'[o] = authorization[o]
         /\ merged[o] # 0 => merged'[o] = merged[o]
         /\ request[o] # "none" => request'[o] # "none"
         /\ request[o] = "rejected" => request'[o] = "rejected"
         /\ Owner(q) /\ request[o] = "none" => request'[o] = "none"
         /\ Owner(q) /\ receipt[o] \notin Refusal => receipt'[o] \notin Refusal

LEMMA KnownKept ==
  ASSUME Inv, NEW q \in Callers, Undisturbed(q)
  PROVE  Known(q)'
<1> DEFINE o == call[q].op
<1>1. Known(q)
  BY Zenon DEF Inv
<1>2. CASE pc[q] = "idle"
  <2>1. pc'[q] = "idle" /\ found'[q] = Nothing
    BY <1>1, <1>2, Zenon DEF Known, Undisturbed
  <2> QED
    BY <2>1, Zenon DEF Known, Early, Owning, Intended
<1>3. CASE pc[q] # "idle"
  <2>1. /\ call[q] \in Call /\ o \in Operations /\ call[q].id # 0
        /\ base[o] \in Nat \ {0} /\ merged[o] \in Nat
    BY <1>1, <1>3 DEF Inv, TypeOK, Known, Call
  <2>2. pc'[q] = pc[q] /\ call'[q] = call[q] /\ found'[q] = found[q]
    BY Zenon DEF Undisturbed
  <2>3. /\ call[q].id <= calls' /\ base'[o] # 0
        /\ Owner(q) => evidence'[o] = call[q].id
        /\ evidence[o] # 0 => evidence'[o] # 0
        /\ evidence[o] # call[q].id => evidence'[o] # call[q].id
        /\ intent[o] = call[q].id => intent'[o] = call[q].id
        /\ authorization[o] = call[q].id => authorization'[o] = call[q].id
        /\ authorization[o] # 0 => authorization'[o] # 0
    BY <1>3, <2>1, Zenon DEF Undisturbed, Owner
  <2>4. /\ request[o] # "none" => request'[o] # "none"
        /\ request[o] = "rejected" => request'[o] = "rejected"
        /\ Owner(q) /\ request[o] = "none" => request'[o] = "none"
        /\ Owner(q) /\ receipt[o] \notin Refusal => receipt'[o] \notin Refusal
    BY <1>3, Zenon DEF Undisturbed
  <2>5. /\ found[q].seen \in {0, merged[o]} => found[q].seen \in {0, merged'[o]}
        /\ merged[o] = base[o] + 1 => merged'[o] = base'[o] + 1
    BY <1>3, <2>1 DEF Undisturbed
  <2>6. Owner(q) => Owner(q)'
    BY <2>2, <2>3, Zenon DEF Owner
  <2>7. /\ pc[q] \in Early => found'[q].answer = "none" /\ evidence'[o] # call'[q].id
        /\ pc[q] \in Owning => /\ found'[q].answer = "none"
                               /\ Owner(q)'
                               /\ request'[o] = "none"
                               /\ receipt'[o] \notin Refusal
        /\ pc[q] \in Intended => intent'[o] = call'[q].id
        /\ pc[q] \in {"put", "await"} => Owner(q)' /\ authorization'[o] = call'[q].id
        /\ pc[q] = "await" => request'[o] # "none"
    BY <1>1, <2>2, <2>3, <2>4, <2>6, Zenon DEF Known, Owning
  <2>8. /\ pc[q] \in {"pull_request", "target"} =>
             /\ authorization'[o] # 0
             /\ found'[q].answer = "rejected" => Owner(q)' /\ request'[o] = "rejected"
        /\ pc[q] = "target" => found'[q].seen \in {0, merged'[o]}
    <3>1. /\ pc[q] \in {"pull_request", "target"} =>
               /\ authorization[o] # 0
               /\ found[q].answer = "rejected" => Owner(q) /\ request[o] = "rejected"
          /\ pc[q] = "target" => found[q].seen \in {0, merged[o]}
      BY <1>1, Zenon DEF Known
    <3> HIDE DEF o
    <3> QED
      BY <2>2, <2>3, <2>4, <2>5, <2>6, <3>1, Zenon
  <2>9. pc[q] = "record_receipt" =>
          /\ found'[q].outcome # "none"
          /\ evidence'[o] # 0
          /\ found'[q].outcome = "invalid" => Owner(q)' /\ request'[o] = "none"
          /\ found'[q].outcome \in {"stale_base", "not_applicable"} =>
               Owner(q)' /\ request'[o] = "rejected"
          /\ found'[q].outcome \in Success => authorization'[o] # 0 /\ merged'[o] = base'[o] + 1
    BY <1>1, <2>2, <2>3, <2>4, <2>5, <2>6, Zenon DEF Known
  <2>10. pc'[q] \in Intended => pc'[q] \in Owning
    BY Zenon DEF Owning
  <2>11. call'[q] \in Call /\ call'[q].id <= calls' /\ call'[q].op = o
    BY <2>1, <2>2, <2>3, Zenon
  <2> HIDE DEF o
  <2> QED
    BY <1>3, <2>2, <2>3, <2>7, <2>8, <2>9, <2>10, <2>11 DEF Known
<1> QED
  BY <1>2, <1>3, Zenon

\* A step that only moves one call, and perhaps the lease file, keeps the invariant when
\* the call knows what it must at its next step.
LEMMA CallMoves ==
  ASSUME Inv, NEW p \in Callers, pc[p] # "idle",
         UNCHANGED <<journal, provider, calls>>,
         lease' \in {NoLease} \cup [op : Operations, id : 1 .. MaxCalls, expired : BOOLEAN],
         NEW s \in Step \cup {"idle"}, NEW f \in Found,
         pc' = [pc EXCEPT ![p] = s],
         found' = [found EXCEPT ![p] = f],
         \/ UNCHANGED call
         \/ s = "idle" /\ call' = [call EXCEPT ![p] = NoCall],
         Known(p)'
  PROVE  Inv'
<1>1. TypeOK'
  BY Zenon DEF Inv, TypeOK, journal, provider
<1>2. /\ pc'[p] = s
      /\ \A q \in Callers : q # p => /\ pc'[q] = pc[q]
                                     /\ call'[q] = call[q]
                                     /\ found'[q] = found[q]
      /\ pc'[p] # "idle" => call'[p] = call[p]
  BY Zenon DEF Inv, TypeOK
<1>3. IdsDistinct'
  BY <1>2 DEF Inv, IdsDistinct
<1>4. ASSUME NEW o \in Operations PROVE Chain(o)'
  BY Zenon DEF Inv, Chain, journal, provider
<1>5. ASSUME NEW q \in Callers, q # p PROVE Known(q)'
  <2>1. pc[q] # "idle" => call[q].id <= calls
    BY Zenon DEF Inv, Known
  <2>2. Undisturbed(q)
    BY <1>2, <1>5, <2>1, Zenon DEF Undisturbed, Owner, journal, provider
  <2> QED
    BY <2>2, KnownKept, Zenon
<1> QED
  BY <1>1, <1>3, <1>4, <1>5, Zenon DEF Inv

LEMMA InvNext ==
  ASSUME Inv, [Next]_vars
  PROVE  Inv'
<1> USE ConstantsAssumption
<1> DEFINE LeaseType == {NoLease} \cup [op : Operations, id : 1 .. MaxCalls, expired : BOOLEAN]
<1>0. ASSUME NEW p \in Callers, pc[p] # "idle"
      PROVE  call[p] \in Call /\ found[p] \in Found /\ found = [found EXCEPT ![p] = found[p]]
  BY <1>0, Zenon DEF Inv, TypeOK, Known
<1>1. lease \in LeaseType
  BY Zenon DEF Inv, TypeOK
\* The three ways a call moves on.
<1>2. ASSUME NEW p \in Callers, pc[p] # "idle", Returns(p), lease' \in LeaseType,
             UNCHANGED <<journal, provider, calls>>
      PROVE  Inv'
  <2>1. Nothing \in Found
    BY DEF Nothing, Found, Answer
  <2>2. Known(p)'
    BY <1>2 DEF Inv, TypeOK, Returns, Known, Nothing, Early, Owning, Intended
  <2> QED
    BY <1>2, <2>1, <2>2, CallMoves, Zenon DEF Returns
<1>3. ASSUME NEW p \in Callers, pc[p] # "idle", NEW s \in Step, Goes(p, s), lease' \in LeaseType,
             UNCHANGED <<journal, provider, calls>>, Known(p)'
      PROVE  Inv'
  BY <1>0, <1>3, CallMoves, Zenon DEF Goes
<1>4. ASSUME NEW p \in Callers, pc[p] # "idle", NEW s \in Step, NEW f \in Found, Learns(p, s, f),
             lease' \in LeaseType, UNCHANGED <<journal, provider, calls>>, Known(p)'
      PROVE  Inv'
  BY <1>0, <1>4, CallMoves, Zenon DEF Learns
<1>5. ASSUME NEW p \in Callers, pc[p] # "idle", NEW s \in {"release", "unlink"}, Goes(p, s),
             lease' \in LeaseType, UNCHANGED <<journal, provider, calls>>
      PROVE  Inv'
  <2>1. s \in Step /\ pc'[p] = s /\ call' = call
    BY <1>5, Zenon DEF Inv, TypeOK, Goes, Step
  <2>2. Known(p)'
    BY <1>5, <2>1, Zenon DEF Inv, Known, Early, Owning, Intended, provider
  <2> QED
    BY <1>3, <1>5, <2>1, <2>2, Zenon
<1> HIDE DEF LeaseType
\* What a call knows carries over between the steps before its lease evidence, and between
\* the steps after its intent.
<1>5a. ASSUME NEW p \in Callers, NEW s \in Step, pc[p] \in Early /\ s \in Early,
              Goes(p, s), lease' \in LeaseType, UNCHANGED <<journal, provider, calls>>
       PROVE  Inv'
  <2>1. pc[p] # "idle" /\ s # "idle" /\ s \notin Owning
    BY <1>5a, Zenon DEF Early, Owning, Intended
  <2>2. /\ call[p] \in Call /\ call[p].id <= calls /\ base[call[p].op] # 0
        /\ found[p].answer = "none" /\ evidence[call[p].op] # call[p].id
    BY <1>5a, <2>1, Zenon DEF Inv, Known
  <2>3. pc'[p] = s /\ UNCHANGED <<call, found, evidence, base>>
    BY <1>5a, Zenon DEF Goes, Inv, TypeOK, journal, provider
  <2>4. Known(p)'
    BY <1>5a, <2>1, <2>2, <2>3, Zenon DEF Known, Early, Owning, Intended
  <2> QED
    BY <1>3, <1>5a, <2>1, <2>4, Zenon
<1>5b. ASSUME NEW p \in Callers, NEW s \in {"observe", "guard", "authorize"},
              pc[p] \in {"fence", "observe", "guard"},
              Goes(p, s), lease' \in LeaseType, UNCHANGED <<journal, provider, calls>>
       PROVE  Inv'
  <2>1. pc[p] # "idle" /\ pc[p] \in Owning /\ pc[p] \in Intended /\ s \in Step
    BY <1>5b, Zenon DEF Owning, Intended, Step
  <2>2. /\ call[p] \in Call /\ call[p].id <= calls /\ base[call[p].op] # 0
        /\ found[p].answer = "none" /\ Owner(p) /\ request[call[p].op] = "none"
        /\ receipt[call[p].op] \notin Refusal /\ intent[call[p].op] = call[p].id
    BY <1>5b, <2>1, Zenon DEF Inv, Known
  <2>3. /\ pc'[p] = s
        /\ UNCHANGED <<call, found, evidence, intent, base, request, receipt, calls>>
    BY <1>5b, Zenon DEF Goes, Inv, TypeOK, journal, provider
  <2>4. Known(p)'
    BY <1>5b, <2>2, <2>3, Zenon DEF Known, Owner, Early, Owning, Intended
  <2> QED
    BY <1>3, <1>5b, <2>1, <2>4, Zenon
\* The steps of one call that change neither the journal nor the provider.
<1>6. ASSUME NEW p \in Callers, ReadReceipt(p) PROVE Inv'
  <2>1. CASE receipt[call[p].op] = "none"
    BY <1>1, <1>6, <1>5a, <2>1, Zenon DEF ReadReceipt, Early, Step
  <2>2. CASE receipt[call[p].op] # "none"
    <3>1. Recovered \in Found
      BY DEF Recovered, Found, Answer
    <3>2. pc[p] = "receipt" /\ Learns(p, "release", Recovered)
      BY <1>6, <2>2, Zenon DEF ReadReceipt
    <3>3. pc'[p] = "release" /\ UNCHANGED <<call, base, calls>>
      BY <1>6, <3>2, Zenon DEF ReadReceipt, Learns, Inv, TypeOK, provider
    <3>4. call[p] \in Call /\ call[p].id <= calls /\ base[call[p].op] # 0
      BY <3>2, Zenon DEF Inv, Known
    <3>5. Known(p)'
      BY <3>3, <3>4, Zenon DEF Known, Early, Owning, Intended
    <3> QED
      BY <1>1, <1>4, <1>6, <3>1, <3>2, <3>5, Zenon DEF ReadReceipt, Step
  <2> QED
    BY <2>1, <2>2, Zenon
<1>7. ASSUME NEW p \in Callers, ReadIntent(p) PROVE Inv'
  <2>1. CASE intent[call[p].op] = 0
    BY <1>1, <1>7, <1>5a, <2>1, Zenon DEF ReadIntent, Early, Step
  <2>2. CASE intent[call[p].op] # 0 /\ authorization[call[p].op] = 0
    BY <1>1, <1>2, <1>7, <2>2, Zenon DEF ReadIntent
  <2>3. CASE intent[call[p].op] # 0 /\ authorization[call[p].op] # 0
    <3>1. Recovered \in Found
      BY DEF Recovered, Found, Answer
    <3>2. pc[p] = "intent" /\ Learns(p, "pull_request", Recovered)
      BY <1>7, <2>3, Zenon DEF ReadIntent
    <3>3. /\ pc'[p] = "pull_request" /\ found'[p].answer # "rejected"
          /\ UNCHANGED <<call, base, authorization, calls>>
      BY <1>7, <3>2, Zenon DEF ReadIntent, Learns, Recovered, Inv, TypeOK, journal, provider
    <3>4. call[p] \in Call /\ call[p].id <= calls /\ base[call[p].op] # 0
      BY <3>2, Zenon DEF Inv, Known
    <3>5. Known(p)'
      BY <2>3, <3>3, <3>4, Zenon DEF Known, Early, Owning, Intended
    <3> QED
      BY <1>1, <1>4, <1>7, <3>1, <3>2, <3>5, Zenon DEF ReadIntent, Step
  <2> QED
    BY <2>1, <2>2, <2>3, Zenon
<1>8. ASSUME NEW p \in Callers, CheckEvidence(p) PROVE Inv'
  <2>1. CASE evidence[call[p].op] = 0
    BY <1>1, <1>8, <1>5a, <2>1, Zenon DEF CheckEvidence, Early, Step
  <2>2. CASE evidence[call[p].op] # 0
    BY <1>1, <1>2, <1>8, <2>2, Zenon DEF CheckEvidence
  <2> QED
    BY <2>1, <2>2, Zenon
<1>9. ASSUME NEW p \in Callers, CreateLease(p) PROVE Inv'
  <2>1. CASE LeaseIsFree
    <3>2. lease' \in LeaseType
      <4>1. call[p].op \in Operations /\ call[p].id \in 1 .. MaxCalls
        BY <1>0, <1>9, Zenon DEF CreateLease, Call
      <4>2. lease' = [op |-> call[p].op, id |-> call[p].id, expired |-> FALSE]
        BY <1>9, <2>1, Zenon DEF CreateLease
      <4> QED
        BY <4>1, <4>2, Zenon DEF LeaseType
    <3> QED
      BY <1>9, <1>5a, <2>1, <3>2, Zenon DEF CreateLease, Early, Step
  <2>2. CASE ~LeaseIsFree
    BY <1>1, <1>2, <1>9, <2>2, Zenon DEF CreateLease
  <2> QED
    BY <2>1, <2>2, Zenon
<1>10. ASSUME NEW p \in Callers, RecordEvidence(p) PROVE Inv'
  <2> DEFINE o == call[p].op
  <2>0. /\ pc[p] = "record_evidence"
        /\ call[p] \in Call
        /\ o \in Operations
        /\ call[p].id \in 1 .. MaxCalls
        /\ call[p].id <= calls
        /\ evidence[o] # call[p].id
        /\ found[p].answer = "none"
        /\ base[o] # 0
    BY <1>10, Zenon DEF RecordEvidence, Inv, TypeOK, Known, Early, Call
  <2>1. CASE RecordAccepted(evidence[o], call[p].id, 0)
    <3>1. /\ evidence[o] = 0
          /\ evidence' = [evidence EXCEPT ![o] = call[p].id]
          /\ pc' = [pc EXCEPT ![p] = "replay"]
          /\ UNCHANGED <<lease, intent, authorization, receipt, head, base, merged, request,
                         calls, call, found>>
      BY <1>10, <2>0, <2>1, Zenon DEF RecordEvidence, RecordAccepted, Goes, provider
    <3>2. intent[o] = 0 /\ authorization[o] = 0 /\ request[o] = "none" /\ receipt[o] = "none"
      BY <2>0, <3>1 DEF Inv, TypeOK, Chain
    <3>3. TypeOK'
      BY <2>0, <3>1 DEF Inv, TypeOK, Step
    <3>4. IdsDistinct'
      BY <2>0, <3>1 DEF Inv, TypeOK, IdsDistinct
    <3>5. ASSUME NEW r \in Operations PROVE Chain(r)'
      BY <2>0, <3>1, <3>2 DEF Inv, TypeOK, Chain
    <3>6. ASSUME NEW q \in Callers PROVE Known(q)'
      <4>1. CASE q = p
        BY <2>0, <3>1, <3>2, <4>1 DEF Inv, TypeOK, Known, Owner, Early, Owning, Intended, Refusal
      <4>2. CASE q # p
        <5>1. pc[q] # "idle" => call[q].id # call[p].id /\ call[q] \in Call
          BY <2>0, <4>2, Zenon DEF Inv, IdsDistinct, Known
        <5>2. pc'[q] = pc[q]
          BY <3>1, <4>2, Zenon DEF Inv, TypeOK
        <5>3. pc[q] # "idle" => call[q].op \in Operations /\ call[q].id <= calls
          BY <5>1, Zenon DEF Inv, Known, Call
        <5>4. \A r \in Operations : evidence'[r] = IF r = o THEN call[p].id ELSE evidence[r]
          BY <2>0, <3>1, Zenon DEF Inv, TypeOK
        <5> HIDE DEF o
        <5>5. Undisturbed(q)
          BY <3>1, <5>1, <5>2, <5>3, <5>4, Zenon DEF Undisturbed, Owner
        <5> QED
          BY <5>5, KnownKept, Zenon
      <4> QED
        BY <4>1, <4>2, Zenon
    <3> QED
      BY <3>3, <3>4, <3>5, <3>6, Zenon DEF Inv
  <2>2. CASE ~RecordAccepted(evidence[o], call[p].id, 0)
    BY <1>1, <1>5, <1>10, <2>0, <2>2, Zenon DEF RecordEvidence, journal
  <2> QED
    BY <2>1, <2>2, Zenon
<1>11. ASSUME NEW p \in Callers, Replay(p) PROVE Inv'
  <2>1. CASE Goes(p, "record_intent")
    <3>1. Known(p)'
      BY <1>11, <2>1 DEF Replay, Goes, Inv, TypeOK, Known, Owner, Early, Owning, Intended,
         journal, provider
    <3> QED
      BY <1>1, <1>3, <1>11, <2>1, <3>1, Zenon DEF Replay, Step
  <2>2. CASE Goes(p, "release")
    BY <1>1, <1>5, <1>11, <2>2, Zenon DEF Replay
  <2> QED
    BY <1>11, <2>1, <2>2, Zenon DEF Replay
<1>12. ASSUME NEW p \in Callers, RecordIntent(p) PROVE Inv'
  <2> DEFINE o == call[p].op
  <2>0. /\ pc[p] = "record_intent"
        /\ call[p] \in Call
        /\ o \in Operations
        /\ call[p].id \in 1 .. MaxCalls
        /\ Owner(p)
        /\ intent[o] \in {0, call[p].id}
    BY <1>12, Zenon DEF RecordIntent, Inv, TypeOK, Known, Owning, Call, Chain, Owner
  <2>1. CASE RecordAccepted(intent[o], call[p].id, 0)
    <3>1. /\ intent' = [intent EXCEPT ![o] = call[p].id]
          /\ pc' = [pc EXCEPT ![p] = "fence"]
          /\ UNCHANGED <<lease, evidence, authorization, receipt, head, base, merged, request,
                         calls, call, found>>
      BY <1>12, <2>0, <2>1, Zenon DEF RecordIntent, Goes, provider
    <3>2. TypeOK'
      BY <2>0, <3>1 DEF Inv, TypeOK, Step
    <3>3. IdsDistinct'
      BY <2>0, <3>1 DEF Inv, TypeOK, IdsDistinct
    <3>4. ASSUME NEW r \in Operations PROVE Chain(r)'
      BY <2>0, <3>1, Zenon DEF Inv, TypeOK, Chain, Owner
    <3>5. ASSUME NEW q \in Callers PROVE Known(q)'
      <4>1. CASE q = p
        BY <2>0, <3>1, <4>1 DEF Inv, TypeOK, Known, Owner, Early, Owning, Intended
      <4>2. CASE q # p
        <5>1. pc[q] # "idle" => call[q].op \in Operations /\ call[q].id <= calls
          BY Zenon DEF Inv, Known, Call
        <5>2. pc'[q] = pc[q]
          BY <3>1, <4>2, Zenon DEF Inv, TypeOK
        <5>3. \A r \in Operations : intent[r] # 0 => intent'[r] = intent[r]
          BY <2>0, <3>1, Zenon DEF Inv, TypeOK
        <5> HIDE DEF o
        <5>4. Undisturbed(q)
          BY <3>1, <5>1, <5>2, <5>3, Zenon DEF Undisturbed, Owner
        <5> QED
          BY <5>4, KnownKept, Zenon
      <4> QED
        BY <4>1, <4>2, Zenon
    <3> QED
      BY <3>2, <3>3, <3>4, <3>5, Zenon DEF Inv
  <2>2. CASE ~RecordAccepted(intent[o], call[p].id, 0)
    BY <1>1, <1>5, <1>12, <2>0, <2>2, Zenon DEF RecordIntent, journal
  <2> QED
    BY <2>1, <2>2, Zenon
\* A call that has not submitted may end in an invalid receipt.
<1>13. ASSUME NEW p \in Callers, pc[p] \in Intended, Invalidates(p),
              UNCHANGED <<lease, journal, provider, calls>>
       PROVE  Inv'
  <2> DEFINE f == [answer |-> "none", seen |-> 0, outcome |-> "invalid"]
  <2>1. f \in Found
    BY DEF Found, Answer, Outcome
  <2>2. Learns(p, "record_receipt", f) /\ pc[p] # "idle"
    BY <1>13, Zenon DEF Invalidates, Intended
  <2>3. /\ pc'[p] = "record_receipt"
        /\ found'[p].outcome = "invalid"
        /\ UNCHANGED call
    BY <2>2, Zenon DEF Learns, Inv, TypeOK
  <2>4. /\ call[p] \in Call /\ call[p].id <= calls /\ base[call[p].op] # 0
        /\ Owner(p) /\ request[call[p].op] = "none"
    BY <1>13, <2>2, Zenon DEF Inv, Known, Owning
  <2>5. evidence[call[p].op] # 0
    BY <2>4 DEF Owner, Call
  <2>6. UNCHANGED <<evidence, base, request, calls>>
    BY <1>13, Zenon DEF journal, provider
  <2> HIDE DEF f
  <2>7. Known(p)'
    BY <2>3, <2>4, <2>5, <2>6, Zenon DEF Known, Owner, Early, Owning, Intended, Success
  <2> QED
    BY <1>1, <1>4, <1>13, <2>1, <2>2, <2>7, Zenon DEF Step
<1>14. ASSUME NEW p \in Callers, Fence(p) PROVE Inv'
  <2>1. CASE Goes(p, "observe")
    BY <1>1, <1>14, <1>5b, <2>1, Zenon DEF Fence
  <2>2. CASE Returns(p)
    BY <1>1, <1>2, <1>14, <2>2, Zenon DEF Fence
  <2> QED
    BY <1>14, <2>1, <2>2, Zenon DEF Fence
<1>15. ASSUME NEW p \in Callers, Observe(p) PROVE Inv'
  <2>1. CASE Goes(p, "guard")
    BY <1>1, <1>15, <1>5b, <2>1, Zenon DEF Observe
  <2>2. CASE Invalidates(p)
    BY <1>13, <1>15, <2>2, Zenon DEF Observe, Intended
  <2> QED
    BY <1>15, <2>1, <2>2, Zenon DEF Observe
<1>16. ASSUME NEW p \in Callers, LeaseGuard(p) PROVE Inv'
  <2>1. CASE Goes(p, "authorize")
    BY <1>1, <1>16, <1>5b, <2>1, Zenon DEF LeaseGuard
  <2>2. CASE Invalidates(p)
    BY <1>13, <1>16, <2>2, Zenon DEF LeaseGuard, Intended
  <2> QED
    BY <1>16, <2>1, <2>2, Zenon DEF LeaseGuard
<1>17. ASSUME NEW p \in Callers, AuthorizeMutation(p) PROVE Inv'
  <2> DEFINE o == call[p].op
  <2>0. /\ pc[p] = "authorize"
        /\ call[p] \in Call
        /\ o \in Operations
        /\ call[p].id \in 1 .. MaxCalls
        /\ Owner(p)
        /\ intent[o] = call[p].id
        /\ authorization[o] \in {0, call[p].id}
        /\ base[o] # 0 /\ call[p].id <= calls
        /\ found[p].answer = "none"
        /\ request[o] = "none"
        /\ receipt[o] \notin Refusal
    <3>1. /\ pc[p] = "authorize" /\ pc[p] # "idle"
          /\ pc[p] \in Owning /\ pc[p] \in Intended
      BY <1>17, Zenon DEF AuthorizeMutation, Owning, Intended
    <3>2. /\ call[p] \in Call /\ call[p].id <= calls /\ base[o] # 0
          /\ found[p].answer = "none" /\ Owner(p) /\ intent[o] = call[p].id
          /\ request[o] = "none" /\ receipt[o] \notin Refusal
      BY <3>1, Zenon DEF Inv, Known
    <3>3. o \in Operations /\ call[p].id \in 1 .. MaxCalls
      BY <3>2, Zenon DEF Call
    <3>4. authorization[o] \in {0, call[p].id}
      BY <3>2, <3>3, Zenon DEF Inv, Chain
    <3> QED
      BY <3>1, <3>2, <3>3, <3>4, Zenon
  <2>1. CASE RecordAccepted(authorization[o], call[p].id, 0)
    <3>1. /\ authorization' = [authorization EXCEPT ![o] = call[p].id]
          /\ pc' = [pc EXCEPT ![p] = "put"]
          /\ UNCHANGED <<lease, evidence, intent, receipt, head, base, merged, request,
                         calls, call, found>>
      BY <1>17, <2>0, <2>1, Zenon DEF AuthorizeMutation, Goes, provider
    <3>2. TypeOK'
      BY <2>0, <3>1 DEF Inv, TypeOK, Step
    <3>3. IdsDistinct'
      BY <2>0, <3>1 DEF Inv, TypeOK, IdsDistinct
    <3>4. ASSUME NEW r \in Operations PROVE Chain(r)'
      BY <2>0, <3>1 DEF Inv, TypeOK, Chain, Owner
    <3>5. ASSUME NEW q \in Callers PROVE Known(q)'
      <4>1. CASE q = p
        <5>1. pc'[p] = "put" /\ authorization'[o] = call[p].id
          BY <2>0, <3>1 DEF Inv, TypeOK
        <5> QED
          BY <2>0, <3>1, <4>1, <5>1, Zenon DEF Known, Owner, Early, Owning, Intended
      <4>2. CASE q # p
        <5>1. pc[q] # "idle" => call[q].op \in Operations /\ call[q].id <= calls
          BY Zenon DEF Inv, Known, Call
        <5>2. pc'[q] = pc[q]
          BY <3>1, <4>2, Zenon DEF Inv, TypeOK
        <5>3. \A r \in Operations : authorization[r] # 0 => authorization'[r] = authorization[r]
          BY <2>0, <3>1, Zenon DEF Inv, TypeOK
        <5> HIDE DEF o
        <5>4. Undisturbed(q)
          BY <3>1, <5>1, <5>2, <5>3, Zenon DEF Undisturbed, Owner
        <5> QED
          BY <5>4, KnownKept, Zenon
      <4> QED
        BY <4>1, <4>2, Zenon
    <3> QED
      BY <3>2, <3>3, <3>4, <3>5, Zenon DEF Inv
  <2>2. CASE ~RecordAccepted(authorization[o], call[p].id, 0)
    BY <1>13, <1>17, <2>0, <2>2, Zenon DEF AuthorizeMutation, journal, Intended
  <2> QED
    BY <2>1, <2>2, Zenon
<1>18. ASSUME NEW p \in Callers, SubmitMerge(p) PROVE Inv'
  <2> DEFINE o == call[p].op
  <2>0. /\ pc[p] = "put"
        /\ call[p] \in Call
        /\ o \in Operations
        /\ Owner(p)
        /\ authorization[o] = call[p].id
        /\ authorization[o] # 0
        /\ request[o] = "none"
        /\ receipt[o] \notin Refusal
    <3>1. pc[p] = "put" /\ pc[p] # "idle" /\ pc[p] \in Owning
      BY <1>18, Zenon DEF SubmitMerge, Owning, Intended
    <3>2. /\ call[p] \in Call /\ Owner(p) /\ authorization[o] = call[p].id
          /\ request[o] = "none" /\ receipt[o] \notin Refusal
      BY <3>1, Zenon DEF Inv, Known
    <3>3. o \in Operations /\ call[p].id # 0
      BY <3>2 DEF Call
    <3> QED
      BY <3>1, <3>2, <3>3, Zenon
  <2>1. /\ request' = [request EXCEPT ![o] = "sent"]
        /\ pc' = [pc EXCEPT ![p] = "await"]
        /\ UNCHANGED <<lease, evidence, intent, authorization, receipt, head, base, merged,
                       calls, call, found>>
    BY <1>18, Zenon DEF SubmitMerge, Goes, journal
  <2>2. TypeOK'
    BY <2>0, <2>1, Zenon DEF Inv, TypeOK, Step
  <2>3. IdsDistinct'
    BY <2>0, <2>1 DEF Inv, TypeOK, IdsDistinct
  <2>4. ASSUME NEW r \in Operations PROVE Chain(r)'
    BY <2>0, <2>1 DEF Inv, TypeOK, Chain
  <2>5. ASSUME NEW q \in Callers PROVE Known(q)'
    <3>1. CASE q = p
      BY <2>0, <2>1, <3>1 DEF Inv, TypeOK, Known, Owner, Early, Owning, Intended
    <3>2. CASE q # p
      <4>1. pc[q] # "idle" => call[q].op \in Operations /\ call[q].id <= calls
        BY Zenon DEF Inv, Known, Call
      <4>2. pc[q] # "idle" /\ Owner(q) => call[q].op # o
        BY <2>0, <3>2, OwnerUnique, Zenon
      <4>3. pc'[q] = pc[q]
        BY <2>1, <3>2, Zenon DEF Inv, TypeOK
      <4>4. \A r \in Operations : request'[r] = IF r = o THEN "sent" ELSE request[r]
        BY <2>0, <2>1, Zenon DEF Inv, TypeOK
      <4> HIDE DEF o
      <4>5. Undisturbed(q)
        BY <2>0, <2>1, <4>1, <4>2, <4>3, <4>4, Zenon DEF Undisturbed, Owner
      <4> QED
        BY <4>5, KnownKept, Zenon
    <3> QED
      BY <3>1, <3>2, Zenon
  <2> QED
    BY <2>2, <2>3, <2>4, <2>5, Zenon DEF Inv
<1>19. ASSUME NEW p \in Callers, ReceiveAnswer(p) PROVE Inv'
  <2>1. PICK a \in {"applied", "ambiguous", "rejected"} :
          Answered(p, a) /\ (a = "rejected" => request[call[p].op] = "rejected")
    BY <1>19, Zenon DEF ReceiveAnswer
  <2> DEFINE f == [answer |-> a, seen |-> 0, outcome |-> "none"]
  <2>2. f \in Found /\ Learns(p, "pull_request", f) /\ pc[p] = "await"
    BY <1>19, <2>1 DEF ReceiveAnswer, Answered, Found, Answer
  <2>3. /\ pc'[p] = "pull_request"
        /\ found'[p].answer = a
        /\ UNCHANGED call
    BY <2>2, Zenon DEF Learns, Inv, TypeOK
  <2>4. /\ call[p] \in Call /\ call[p].id <= calls /\ base[call[p].op] # 0
        /\ Owner(p) /\ authorization[call[p].op] = call[p].id
    BY <2>2, Zenon DEF Inv, Known
  <2>5. authorization[call[p].op] # 0
    BY <2>4 DEF Call
  <2> HIDE DEF f
  <2>6. Known(p)'
    BY <1>19, <2>1, <2>3, <2>4, <2>5, Zenon
       DEF ReceiveAnswer, Known, Owner, Early, Owning, Intended, journal, provider
  <2> QED
    BY <1>1, <1>4, <1>19, <2>2, <2>6, Zenon DEF ReceiveAnswer, Step
<1>20. ASSUME NEW p \in Callers, ReadPullRequest(p) PROVE Inv'
  <2> DEFINE f == [answer |-> found[p].answer, seen |-> merged[call[p].op], outcome |-> "none"]
  <2>1. Learns(p, "target", f) /\ pc[p] = "pull_request"
    BY <1>20, Zenon DEF ReadPullRequest
  <2>2. /\ call[p] \in Call /\ call[p].id <= calls /\ base[call[p].op] # 0
        /\ authorization[call[p].op] # 0
        /\ found[p].answer = "rejected" => Owner(p) /\ request[call[p].op] = "rejected"
    BY <2>1, Zenon DEF Inv, Known
  <2>3. f \in Found
    BY <1>0, <2>1, <2>2, Zenon DEF Inv, TypeOK, Found, Call
  <2>4. /\ pc'[p] = "target"
        /\ found'[p].answer = found[p].answer
        /\ found'[p].seen = merged[call[p].op]
        /\ UNCHANGED call
    BY <2>1, Zenon DEF Learns, Inv, TypeOK
  <2> HIDE DEF f
  <2>5. Known(p)'
    BY <1>20, <2>2, <2>4, Zenon
       DEF ReadPullRequest, Known, Owner, Early, Owning, Intended, journal, provider
  <2> QED
    BY <1>1, <1>4, <1>20, <2>1, <2>3, <2>5, Zenon DEF ReadPullRequest, Step
<1>21. ASSUME NEW p \in Callers, ReadTarget(p) PROVE Inv'
  <2> DEFINE f == [answer |-> found[p].answer, seen |-> found[p].seen, outcome |-> Classify(p)]
             o == call[p].op
  <2>0. pc[p] = "target" /\ UNCHANGED <<lease, journal, provider, calls>>
    BY <1>21, Zenon DEF ReadTarget
  <2>1. CASE Returns(p)
    BY <1>1, <1>2, <2>0, <2>1, Zenon
  <2>2. CASE Learns(p, "record_receipt", f)
    <3>1. /\ call[p] \in Call /\ call[p].id <= calls /\ base[o] # 0
          /\ authorization[o] # 0
          /\ found[p].answer = "rejected" => Owner(p) /\ request[o] = "rejected"
          /\ found[p].seen \in {0, merged[o]}
      BY <2>0, Zenon DEF Inv, Known
    <3>2. Classify(p) \in Outcome /\ Classify(p) \notin {"none", "invalid"}
      BY Zenon DEF Classify, Outcome
    <3>3. f \in Found
      BY <1>0, <2>0, <3>2, Zenon DEF Found
    <3>4. evidence[o] # 0
      BY <3>1, Zenon DEF Inv, TypeOK, Chain, Call
    <3>5. Classify(p) \in {"stale_base", "not_applicable"} => found[p].answer = "rejected"
      BY Zenon DEF Classify
    <3>6. Classify(p) \in Success => merged[o] = base[o] + 1
      BY <3>1, Zenon DEF Classify, Exact, Success
    <3>7. /\ pc'[p] = "record_receipt"
          /\ found'[p].outcome = Classify(p)
          /\ UNCHANGED call
      BY <2>2, Zenon DEF Learns, Inv, TypeOK
    <3> HIDE DEF f
    <3>8. Known(p)'
      BY <2>0, <3>1, <3>2, <3>4, <3>5, <3>6, <3>7, Zenon
         DEF Known, Owner, Early, Owning, Intended, journal, provider
    <3> QED
      BY <1>1, <1>4, <2>0, <2>2, <3>3, <3>8, Zenon DEF Step
  <2> QED
    BY <1>21, <2>1, <2>2, Zenon DEF ReadTarget
<1>22. ASSUME NEW p \in Callers, RecordReceipt(p) PROVE Inv'
  <2> DEFINE o == call[p].op
             outcome == found[p].outcome
  <2>0. /\ pc[p] = "record_receipt"
        /\ call[p] \in Call
        /\ o \in Operations
        /\ outcome \in Outcome
        /\ UNCHANGED <<lease, evidence, intent, authorization, provider, calls>>
        /\ \/ Returns(p)
           \/ Goes(p, "release")
    BY <1>22, <1>0, Zenon DEF RecordReceipt, Inv, Known, Call, Found
  <2>1. CASE receipt' = receipt
    BY <1>1, <1>2, <1>5, <2>0, <2>1, Zenon DEF journal
  <2>2. CASE receipt' = [receipt EXCEPT ![o] = outcome] /\ receipt[o] = "none"
    <3>1. /\ evidence[o] # 0
          /\ outcome \in Refusal => Owner(p) /\ request[o] \in {"none", "rejected"}
          /\ outcome \in Success => authorization[o] # 0 /\ merged[o] = base[o] + 1
      BY <2>0, Zenon DEF Inv, Known, Refusal
    <3>2. PICK s \in Step \cup {"idle"} :
            /\ s \in {"idle", "release"}
            /\ pc' = [pc EXCEPT ![p] = s]
            /\ s = "idle" => /\ call' = [call EXCEPT ![p] = NoCall]
                             /\ found' = [found EXCEPT ![p] = Nothing]
            /\ s # "idle" => UNCHANGED <<call, found>>
      BY <2>0, Zenon DEF Returns, Goes, Step
    <3>3. TypeOK'
      <4>1. Nothing \in Found
        BY DEF Nothing, Found, Answer
      <4>2. /\ pc' \in [Callers -> Step \cup {"idle"}]
            /\ call' \in [Callers -> Call \cup {NoCall}]
            /\ found' \in [Callers -> Found]
        BY <3>2, <4>1 DEF Inv, TypeOK
      <4>3. receipt' \in [Operations -> Outcome \cup {"none"}]
        BY <2>0, <2>2, Zenon DEF Inv, TypeOK
      <4> QED
        BY <2>0, <4>2, <4>3, Zenon DEF Inv, TypeOK, provider
    <3>4. /\ pc'[p] = s
          /\ pc'[p] # "idle" => call'[p] = call[p]
          /\ pc'[p] = "idle" => found'[p] = Nothing
          /\ \A q \in Callers : q # p => /\ pc'[q] = pc[q]
                                         /\ call'[q] = call[q]
                                         /\ found'[q] = found[q]
      BY <3>2, Zenon DEF Inv, TypeOK
    <3>5. IdsDistinct'
      <4>1. \A q \in Callers : pc'[q] # "idle" => pc[q] # "idle" /\ call'[q] = call[q]
        BY <2>0, <3>4, Zenon
      <4> QED
        BY <4>1, Zenon DEF Inv, IdsDistinct
    <3>6. ASSUME NEW r \in Operations PROVE Chain(r)'
      <4>1. Chain(r)
        BY Zenon DEF Inv
      <4>2. receipt'[r] = IF r = o THEN outcome ELSE receipt[r]
        BY <2>0, <2>2, Zenon DEF Inv, TypeOK
      <4> HIDE DEF outcome
      <4>3. CASE r = o
        BY <2>0, <3>1, <4>1, <4>2, <4>3, Zenon DEF Chain, provider
      <4>4. CASE r # o
        BY <2>0, <4>1, <4>2, <4>4, Zenon DEF Chain, provider
      <4> QED
        BY <4>3, <4>4, Zenon
    <3>7. Known(p)'
      BY <2>0, <3>2, <3>4, Zenon DEF Inv, Known, Early, Owning, Intended, provider
    <3>8. ASSUME NEW q \in Callers, q # p PROVE Known(q)'
      <4>1. pc[q] # "idle" => call[q].op \in Operations /\ call[q].id <= calls
        BY Zenon DEF Inv, Known, Call
      <4>2. pc[q] # "idle" /\ Owner(q) /\ outcome \in Refusal => call[q].op # o
        BY <2>0, <3>1, <3>8, OwnerUnique, Zenon
      <4>3. \A r \in Operations : receipt'[r] = IF r = o THEN outcome ELSE receipt[r]
        BY <2>0, <2>2, Zenon DEF Inv, TypeOK
      <4>4. pc'[q] = pc[q] /\ call'[q] = call[q] /\ found'[q] = found[q]
        BY <3>4, <3>8, Zenon
      <4>5. UNCHANGED <<evidence, intent, authorization, base, merged, request, calls>>
        BY <2>0, Zenon DEF provider
      <4> HIDE DEF o, outcome
      <4>6. Undisturbed(q)
        BY <4>1, <4>2, <4>3, <4>4, <4>5, Zenon DEF Undisturbed, Owner
      <4> QED
        BY <4>6, KnownKept, Zenon
    <3> QED
      BY <3>3, <3>5, <3>6, <3>7, <3>8, Zenon DEF Inv
  <2>3. CASE receipt' = [receipt EXCEPT ![o] = outcome] /\ receipt[o] = outcome
    <3>1. receipt' = receipt
      BY <2>3, Zenon DEF Inv, TypeOK
    <3> QED
      BY <2>1, <3>1, Zenon
  <2> QED
    BY <1>22, <2>1, <2>2, <2>3, Zenon DEF RecordReceipt, RecordAccepted
<1>23. ASSUME NEW p \in Callers, ReadForRelease(p) PROVE Inv'
  BY <1>1, <1>2, <1>5, <1>23, Zenon DEF ReadForRelease
<1>24. ASSUME NEW p \in Callers, UnlinkLease(p) PROVE Inv'
  <2>1. lease' \in LeaseType
    BY <1>24, Zenon DEF UnlinkLease, LeaseType
  <2> QED
    BY <1>2, <1>24, <2>1, Zenon DEF UnlinkLease
<1>25. ASSUME NEW p \in Callers, Fails(p) PROVE Inv'
  BY <1>1, <1>2, <1>5, <1>25, Zenon DEF Fails
<1>26. ASSUME NEW p \in Callers, Unconfirmed(p) PROVE Inv'
  <2>1. CASE pc[p] = "fence" /\ Goes(p, "release")
    BY <1>1, <1>5, <1>26, <2>1, Zenon DEF Unconfirmed
  <2>2. CASE pc[p] = "put" /\ Invalidates(p)
    BY <1>13, <1>26, <2>2, Zenon DEF Unconfirmed, Intended
  <2> QED
    BY <1>26, <2>1, <2>2, Zenon DEF Unconfirmed
\* A new call has an identity that no record and no other call has.
<1>27. ASSUME NEW p \in Callers, NEW o \in Operations, Promote(p, o) PROVE Inv'
  <2>1. /\ pc[p] = "idle"
        /\ base[o] # 0
        /\ calls \in Nat
        /\ calls + 1 \in 1 .. MaxCalls
        /\ calls' = calls + 1
        /\ pc' = [pc EXCEPT ![p] = "receipt"]
        /\ call' = [call EXCEPT ![p] = [op |-> o, id |-> calls + 1]]
        /\ UNCHANGED <<lease, evidence, intent, authorization, receipt, head, base, merged,
                       request, found>>
    BY <1>27 DEF Promote, Inv, TypeOK, journal, provider
  <2>2. TypeOK'
    <3>1. calls' \in 0 .. MaxCalls
      BY <2>1
    <3>2. pc' \in [Callers -> Step \cup {"idle"}]
      BY <2>1, Zenon DEF Inv, TypeOK, Step
    <3>3. call' \in [Callers -> Call \cup {NoCall}]
      BY <2>1, Zenon DEF Inv, TypeOK, Call
    <3> QED
      BY <2>1, <3>1, <3>2, <3>3, Zenon DEF Inv, TypeOK
  <2>3. /\ pc'[p] = "receipt" /\ call'[p] = [op |-> o, id |-> calls + 1]
        /\ \A q \in Callers : q # p => pc'[q] = pc[q] /\ call'[q] = call[q]
    BY <2>1, Zenon DEF Inv, TypeOK
  <2>4. \A q \in Callers : pc[q] # "idle" => call[q] \in Call /\ call[q].id <= calls
    BY Zenon DEF Inv, Known
  <2>5. IdsDistinct'
    BY <2>1, <2>3, <2>4 DEF Inv, IdsDistinct, Call
  <2>6. ASSUME NEW r \in Operations PROVE Chain(r)'
    BY <2>1 DEF Inv, TypeOK, Chain
  <2>7. Known(p)'
    <3>1. evidence[o] # calls + 1
      <4>1. evidence[o] \in 0 .. MaxCalls /\ evidence[o] <= calls
        BY Zenon DEF Inv, TypeOK, Chain
      <4>2. calls \in Nat
        BY <2>1, Zenon
      <4> HIDE ConstantsAssumption
      <4> QED
        BY <4>1, <4>2
    <3>2. found[p].answer = "none"
      <4>1. pc[p] = "idle"
        BY <2>1, Zenon
      <4>2. found[p] = Nothing
        BY <4>1, Zenon DEF Inv, Known
      <4> QED
        BY <4>2 DEF Nothing
    <3>3. /\ call'[p] \in Call
          /\ call'[p].op = o
          /\ call'[p].id = calls + 1
      BY <2>1, <2>3 DEF Call
    <3>4. call'[p].id <= calls'
      BY <2>1, <3>3
    <3> QED
      BY <2>1, <2>3, <3>1, <3>2, <3>3, <3>4, Zenon DEF Known, Early, Owning, Intended
  <2>8. ASSUME NEW q \in Callers, q # p PROVE Known(q)'
    <3>1. pc'[q] = pc[q] /\ call'[q] = call[q] /\ found'[q] = found[q]
      BY <2>1, <2>3, <2>8, Zenon
    <3>2. pc[q] # "idle" => call[q].id <= calls'
      BY <2>1, <2>4 DEF Call
    <3>3. Undisturbed(q)
      BY <2>1, <3>1, <3>2, Zenon DEF Undisturbed, Owner
    <3> QED
      BY <3>3, KnownKept, Zenon
  <2> QED
    BY <2>2, <2>5, <2>6, <2>7, <2>8, Zenon DEF Inv
\* The environment: a bundle is frozen once, a merge commit is for good, and a request
\* changes only while it is pending.
<1>28. ASSUME NEW o \in Operations, Prepare(o) PROVE Inv'
  <2>1. /\ base[o] = 0
        /\ base' = [base EXCEPT ![o] = head]
        /\ UNCHANGED <<lease, evidence, intent, authorization, receipt, head, merged, request,
                       calls, pc, call, found>>
    BY <1>28, Zenon DEF Prepare, journal, callers
  <2>2. head \in 1 .. MaxCommits /\ base \in [Operations -> 0 .. MaxCommits]
    BY Zenon DEF Inv, TypeOK
  <2>3. TypeOK'
    BY <2>1, <2>2 DEF Inv, TypeOK
  <2>4. \A r \in Operations : base[r] # 0 => base'[r] = base[r]
    BY <2>1, <2>2, Zenon
  <2>5. IdsDistinct'
    BY <2>1, Zenon DEF Inv, IdsDistinct
  <2>6. ASSUME NEW r \in Operations PROVE Chain(r)'
    <3>1. receipt[r] \in Success => evidence[r] # 0
      BY Zenon DEF Inv, Chain, Success
    <3> QED
      BY <2>1, <2>4, <3>1, Zenon DEF Inv, Chain
  <2>7. ASSUME NEW q \in Callers PROVE Known(q)'
    <3>1. pc[q] # "idle" =>
            call[q].op \in Operations /\ call[q].id <= calls /\ base[call[q].op] # 0
      BY Zenon DEF Inv, Known, Call
    <3>2. Undisturbed(q)
      BY <2>1, <2>4, <3>1, Zenon DEF Undisturbed, Owner
    <3> QED
      BY <3>2, KnownKept, Zenon
  <2> QED
    BY <2>3, <2>5, <2>6, <2>7, Zenon DEF Inv
<1>29. ASSUME NEW o \in Operations, Land(o) PROVE Inv'
  <2>1. /\ request[o] = "sent"
        /\ \E a \in {"landed", "rejected", "lost"} : request' = [request EXCEPT ![o] = a]
        /\ UNCHANGED <<lease, evidence, intent, authorization, receipt, base, calls, pc, call,
                       found>>
    BY <1>29, Zenon DEF Land, journal, callers
  <2>2. /\ head' \in 1 .. MaxCommits
        /\ merged' \in [Operations -> 0 .. MaxCommits]
        /\ \A r \in Operations : merged[r] # 0 => merged'[r] = merged[r]
    <3>0. head \in 1 .. MaxCommits /\ merged \in [Operations -> 0 .. MaxCommits]
      BY Zenon DEF Inv, TypeOK
    <3>1. CASE UNCHANGED <<head, merged>>
      BY <3>0, <3>1, Zenon
    <3>2. CASE merged[o] = 0 /\ head < MaxCommits /\ head' = head + 1
               /\ merged' = [merged EXCEPT ![o] = head + 1]
      BY <3>0, <3>2
    <3> QED
      BY <1>29, <3>1, <3>2, Zenon DEF Land
  <2>3. TypeOK'
    <3>1. request' \in [Operations -> {"none", "sent", "landed", "rejected", "lost"}]
      BY <2>1, Zenon DEF Inv, TypeOK
    <3> QED
      BY <2>1, <2>2, <3>1, Zenon DEF Inv, TypeOK
  <2>4. /\ \A r \in Operations : r # o => request'[r] = request[r]
        /\ request'[o] # "none"
    BY <2>1, Zenon DEF Inv, TypeOK
  <2>5. IdsDistinct'
    BY <2>1, Zenon DEF Inv, IdsDistinct
  <2>6. \A r \in Operations : merged[r] = base[r] + 1 => merged[r] # 0
    BY DEF Inv, TypeOK
  <2>7. ASSUME NEW r \in Operations PROVE Chain(r)'
    BY <2>1, <2>2, <2>4, <2>6, Zenon DEF Inv, Chain
  <2>8. ASSUME NEW q \in Callers PROVE Known(q)'
    <3>1. pc[q] # "idle" => call[q].op \in Operations /\ call[q].id <= calls
      BY Zenon DEF Inv, Known, Call
    <3>2. Undisturbed(q)
      BY <2>1, <2>2, <2>4, <3>1, Zenon DEF Undisturbed, Owner
    <3> QED
      BY <3>2, KnownKept, Zenon
  <2> QED
    BY <2>3, <2>5, <2>7, <2>8, Zenon DEF Inv
<1>30. ASSUME OthersMerge PROVE Inv'
  <2>1. UNCHANGED <<lease, evidence, intent, authorization, receipt, base, request, calls, pc,
                   call, found>>
    BY <1>30, Zenon DEF OthersMerge, journal, callers
  <2>2. /\ head' \in 1 .. MaxCommits
        /\ merged' \in [Operations -> 0 .. MaxCommits]
        /\ \A r \in Operations : merged[r] # 0 => merged'[r] = merged[r]
    <3>0. head \in 1 .. MaxCommits /\ merged \in [Operations -> 0 .. MaxCommits]
      BY Zenon DEF Inv, TypeOK
    <3>1. head < MaxCommits /\ head' = head + 1
      BY <1>30, Zenon DEF OthersMerge
    <3>2. CASE UNCHANGED merged
      BY <3>0, <3>1, <3>2
    <3>3. CASE \E o \in Operations :
                 merged[o] = 0 /\ merged' = [merged EXCEPT ![o] = head + 1]
      BY <3>0, <3>1, <3>3
    <3> QED
      BY <1>30, <3>2, <3>3, Zenon DEF OthersMerge
  <2>3. TypeOK'
    BY <2>1, <2>2, Zenon DEF Inv, TypeOK
  <2>4. IdsDistinct'
    BY <2>1, Zenon DEF Inv, IdsDistinct
  <2>5. \A r \in Operations : merged[r] = base[r] + 1 => merged[r] # 0
    BY DEF Inv, TypeOK
  <2>6. ASSUME NEW r \in Operations PROVE Chain(r)'
    BY <2>1, <2>2, <2>5, Zenon DEF Inv, Chain
  <2>7. ASSUME NEW q \in Callers PROVE Known(q)'
    <3>1. pc[q] # "idle" => call[q].op \in Operations /\ call[q].id <= calls
      BY Zenon DEF Inv, Known, Call
    <3>2. Undisturbed(q)
      BY <2>1, <2>2, <3>1, Zenon DEF Undisturbed, Owner
    <3> QED
      BY <3>2, KnownKept, Zenon
  <2> QED
    BY <2>3, <2>4, <2>6, <2>7, Zenon DEF Inv
\* The lease file changes under the calls.
<1>31. ASSUME UNCHANGED <<journal, provider, calls, callers>>, lease' \in LeaseType PROVE Inv'
  <2>1. UNCHANGED <<evidence, intent, authorization, receipt, head, base, merged, request,
                   calls, pc, call, found>>
    BY <1>31, Zenon DEF journal, provider, callers
  <2>2. TypeOK'
    BY <1>31, <2>1, Zenon DEF Inv, TypeOK, LeaseType
  <2>3. IdsDistinct'
    BY <2>1, Zenon DEF Inv, IdsDistinct
  <2>4. \A o \in Operations : Chain(o)'
    BY <2>1, Zenon DEF Inv, Chain
  <2>5. ASSUME NEW q \in Callers PROVE Known(q)'
    <3>1. pc[q] # "idle" => call[q].id <= calls
      BY Zenon DEF Inv, Known
    <3>2. Undisturbed(q)
      BY <2>1, <3>1, Zenon DEF Undisturbed, Owner
    <3> QED
      BY <3>2, KnownKept, Zenon
  <2> QED
    BY <2>2, <2>3, <2>4, <2>5, Zenon DEF Inv
<1>32. CASE Expire
  <2>1. lease' \in LeaseType
    <3>1. lease.op \in Operations /\ lease.id \in 1 .. MaxCalls
      BY <1>1, <1>32, Zenon DEF Expire, LeaseType
    <3>2. lease' = [op |-> lease.op, id |-> lease.id, expired |-> TRUE]
      BY <1>32, Zenon DEF Expire
    <3> QED
      BY <3>1, <3>2, Zenon DEF LeaseType
  <2> QED
    BY <1>31, <1>32, <2>1, Zenon DEF Expire
<1>33. CASE OperatorRemovesLease
  <2>1. lease' \in LeaseType
    BY <1>33, Zenon DEF OperatorRemovesLease, LeaseType
  <2> QED
    BY <1>31, <1>33, <2>1, Zenon DEF OperatorRemovesLease
<1>34. CASE UNCHANGED vars
  BY <1>1, <1>31, <1>34, Zenon DEF vars, journal, provider, callers
<1>35. ASSUME NEW p \in Callers, Proceed(p) PROVE Inv'
  BY <1>6, <1>7, <1>8, <1>9, <1>10, <1>11, <1>12, <1>14, <1>15, <1>16, <1>17, <1>18, <1>19,
     <1>20, <1>21, <1>22, <1>23, <1>24, <1>35, Zenon DEF Proceed
<1> QED
  BY <1>25, <1>26, <1>27, <1>28, <1>29, <1>30, <1>32, <1>33, <1>34, <1>35, Zenon DEF Next

LEMMA InvInit ==
  ASSUME Init
  PROVE  Inv
<1> USE ConstantsAssumption
<1>1. TypeOK
  <2>1. Nothing \in Found
    BY DEF Nothing, Found, Answer
  <2> QED
    BY <2>1 DEF Init, TypeOK
<1>2. IdsDistinct
  BY Zenon DEF Init, IdsDistinct
<1>3. ASSUME NEW o \in Operations PROVE Chain(o)
  BY DEF Init, Chain, Refusal, Success
<1>4. ASSUME NEW p \in Callers PROVE Known(p)
  BY Zenon DEF Init, Known, Early, Owning, Intended
<1> QED
  BY <1>1, <1>2, <1>3, <1>4, Zenon DEF Inv

LEMMA Invariance == Spec => []Inv
BY InvInit, InvNext, PTL DEF Spec
-----------------------------------------------------------------------------
\* The types of the records, the lease and the calls' state.
THEOREM TypeCorrect == Spec => []TypeOK
<1>1. Inv => TypeOK
  BY Zenon DEF Inv
<1> QED
  BY <1>1, Invariance, PTL

INSTANCE FiniteSetTheorems

\* However many processes promote an operation, however often and wherever they die, its
\* merge is requested once.
THEOREM MergesOnce == Spec => []OneMergeRequest
<1>1. ASSUME Inv PROVE OneMergeRequest
  <2>1. ASSUME NEW o \in Operations, request[o] # "none" PROVE Submitting(o) = {}
    <3>1. ASSUME NEW p \in Callers, pc[p] = "put" PROVE request[call[p].op] = "none"
      BY <1>1, <3>1, Zenon DEF Inv, Known, Owning, Intended
    <3> QED
      BY <2>1, <3>1, Zenon DEF Submitting
  <2>2. ASSUME NEW o \in Operations PROVE Cardinality(Submitting(o)) <= 1
    <3>1. \A p, q \in Submitting(o) : p = q
      <4> SUFFICES ASSUME NEW p \in Submitting(o), NEW q \in Submitting(o) PROVE p = q
        BY Zenon
      <4>1. /\ p \in Callers /\ pc[p] = "put" /\ call[p].op = o
            /\ q \in Callers /\ pc[q] = "put" /\ call[q].op = o
        BY Zenon DEF Submitting
      <4>2. Owner(p) /\ Owner(q)
        BY <1>1, <4>1, Zenon DEF Inv, Known
      <4> QED
        BY <1>1, <4>1, <4>2, OwnerUnique, Zenon
    <3>2. CASE Submitting(o) = {}
      BY <3>2, FS_EmptySet
    <3>3. CASE Submitting(o) # {}
      <4>1. PICK p : Submitting(o) = {p}
        BY <3>1, <3>3, Zenon
      <4> QED
        BY <4>1, FS_Singleton
    <3> QED
      BY <3>2, <3>3, Zenon
  <2> QED
    BY <2>1, <2>2, Zenon DEF OneMergeRequest
<1> QED
  BY <1>1, Invariance, PTL

\* A receipt that claims success is backed by the whole chain of records and by a squash
\* of the pull request exactly onto the base of its bundle.
THEOREM SuccessExact == Spec => []SuccessIsExact
<1>1. ASSUME Inv PROVE SuccessIsExact
  BY <1>1, Zenon DEF Inv, TypeOK, Chain, Success, SuccessIsExact
<1> QED
  BY <1>1, Invariance, PTL

\* A receipt that says the promotion did not happen stays true.
THEOREM RefusalFinal == Spec => []RefusalIsFinal
<1>1. ASSUME Inv PROVE RefusalIsFinal
  <2>1. ASSUME NEW o \in Operations, receipt[o] \in Refusal PROVE Submitting(o) = {}
    BY <1>1, <2>1, Zenon DEF Inv, Known, Submitting, Owning, Intended
  <2> QED
    BY <1>1, <2>1, Zenon DEF Inv, Chain, Refusal, RefusalIsFinal
<1> QED
  BY <1>1, Invariance, PTL
=============================================================================
