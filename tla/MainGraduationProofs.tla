------------------------- MODULE MainGraduationProofs -------------------------
(***************************************************************************)
(* Proofs about MainGraduation: a graduation implements GuardedMerge, and  *)
(* its requests, its merge and its completion are what the properties of   *)
(* the module say, for every bound on clock, generations, edits and stops. *)
(*                                                                         *)
(* Records are published once and never changed, so a record still agrees  *)
(* with the records it was published over (JournalInv).  A stage is sent   *)
(* only by the step that follows the creation of its owner marker          *)
(* (StageInv), so the release is sent once, after its claim is durable.    *)
(* What the repository shows follows from what was sent (HostedInv).       *)
(***************************************************************************)
EXTENDS MainGraduation, TLAPS

(* What the proofs use of the constants: instants and generations are      *)
(* naturals, and a missing check run is no check run.                      *)
ConstantsOK ==
    /\ MaxClock \in Nat /\ MaxGeneration \in Nat /\ MaxEpoch \in Nat
    /\ NoRecord \notin CheckRuns

Outcomes == {"none", "applied", "already_applied", "rejected", "ambiguous"}

StageRecord ==
    [intentAt : Nat, gen : 0..MaxGeneration, owner : BOOLEAN, outcome : Outcomes,
     at : Nat, resolution : {"none", "already_applied", "not_applied"},
     resolvedAt : Nat, resolvedBy : {"none", "stage observation"}]

(* The steps of the stage executor, and those at which the intent exists.  *)
Recorded == {"own", "send", "receipt", "recover", "observe", "settled"}
AtStage == Recorded \cup {"run_stage"}

StagesTyped ==
    /\ DOMAIN S \subseteq StageNames
    /\ S \in [DOMAIN S -> StageRecord]
    /\ asked \in [StageNames -> {0, 1}]
    /\ inflight \subseteq StageNames

(* The call: which stage it works on, and how far that stage is.           *)
CallInv ==
    /\ stage \in StageNames \cup {"none"}
    /\ pc \in AtStage => stage \in StageNames
    /\ pc \in Recorded => stage \in DOMAIN S
    /\ pc = "own" => ~S[stage].owner
    /\ pc = "send" => S[stage].owner /\ asked[stage] = 0
    /\ pc = "receipt" => work \in Outcomes /\ asked[stage] = 1
    /\ pc \in {"own", "send", "receipt"} => S[stage].outcome = "none"
    /\ pc = "recover" => S[stage].outcome \in {"none", "ambiguous"}
    /\ pc = "observe" => S[stage].outcome = "ambiguous"
    /\ pc \in {"group", "webhook"} => "queue" \in DOMAIN J
    /\ stage \in TimedStages => "queue" \in DOMAIN J
    /\ stage = "release_transition" => "claim" \in DOMAIN J

(* A stage is sent by the creator of its owner marker, and both stages of  *)
(* the merge group name the generation of the durable queue observation.   *)
StageInv ==
    /\ \A s \in StageNames : asked[s] = 1 => s \in DOMAIN S /\ S[s].owner
    /\ \A s \in inflight : asked[s] = 1
    /\ \A s \in DOMAIN S \cap TimedStages :
          "queue" \in DOMAIN J /\ S[s].gen = J["queue"].gen
    /\ "release_transition" \in DOMAIN S =>
          /\ "claim" \in DOMAIN J
          /\ J["claim"].at <= S["release_transition"].intentAt
          /\ S["release_transition"].intentAt < J["authorization"].until

(* The durable records that the theorems speak of, each with what it was   *)
(* published over.                                                         *)
PlanInv ==
    /\ "composition" \in DOMAIN J => J["composition"].tree = "candidate"
    /\ "plan" \in DOMAIN J => J["plan"].composition.tree = "candidate"

QueueInv == "queue" \in DOMAIN J => J["queue"].gen \in 1..MaxGeneration

AdmissionInv ==
    "admission" \in DOMAIN J =>
        /\ "preparation" \in DOMAIN J
        /\ J["preparation"].at <= J["admission"].at

HoldInv ==
    "hold" \in DOMAIN J =>
        /\ {"admission", "queue"} \subseteq DOMAIN J
        /\ J["admission"].at <= J["hold"].at
        /\ J["hold"].gen = J["queue"].gen

AuthorizationInv ==
    "authorization" \in DOMAIN J =>
        /\ "hold" \in DOMAIN J
        /\ J["authorization"].hold = J["hold"]
        /\ J["hold"].at <= J["authorization"].at

ClaimInv ==
    "claim" \in DOMAIN J =>
        /\ {"authorization", "lease"} \subseteq DOMAIN J
        /\ J["claim"].authorization = J["authorization"]
        /\ J["authorization"].at <= J["claim"].at
        /\ J["authorization"].until <= J["lease"].until
        /\ J["claim"].at \in Nat /\ J["claim"].at <= clock

ClosureInv ==
    "completion" \in DOMAIN J =>
        /\ {"providerReceipt", "reconciliation", "postState"} \subseteq DOMAIN J
        /\ J["providerReceipt"].tree = "candidate"
        /\ J["reconciliation"].claimed.outcome \in Terminal
        /\ J["postState"].tree = "candidate"

JournalInv ==
    PlanInv /\ QueueInv /\ AdmissionInv /\ HoldInv /\ AuthorizationInv /\ ClaimInv
    /\ ClosureInv

(* The repository: the check on the merge group is the one the stages      *)
(* asked for, it succeeds only after the release was sent, and the         *)
(* candidate is on main only through the merge.                            *)
HostedInv ==
    /\ hold # NoRecord => "merge_group_hold" \in DOMAIN S
                          /\ hold.gen = S["merge_group_hold"].gen
    /\ hold # NoRecord /\ hold.status = "success" => asked["release_transition"] = 1
    /\ main = "candidate" => pr = "merged"
    /\ pr = "merged" => main # "base" /\ hold # NoRecord /\ hold.status = "success"
    /\ "providerReceipt" \in DOMAIN J /\ J["providerReceipt"].tree = "candidate" =>
          pr = "merged"

(* What a stage leaves behind at the service and nobody takes away.        *)
Shows(s) ==
    /\ s = "pull_request_open" => pr # "absent"
    /\ s = "admission_check" => admission # NoRecord
    /\ s = "merge_group_hold" => hold # NoRecord

(* A stage that succeeded shows, and one that was begun had a parent that  *)
(* did.  Only an ambiguous receipt is resolved.                            *)
EffectInv ==
    /\ \A s \in DOMAIN S : S[s].resolution # "none" => S[s].outcome = "ambiguous"
    /\ \A s \in DOMAIN S : EffectiveOutcome(s) \in Success => Shows(s)
    /\ pc = "receipt" /\ work \in Success => Shows(stage)
    /\ "admission_check" \in DOMAIN S => pr # "absent"
    /\ "queue_enqueue" \in DOMAIN S => pr # "absent" /\ admission # NoRecord
    /\ "release_transition" \in DOMAIN S => hold # NoRecord

Inv ==
    /\ WorldTypeOK /\ StagesTyped /\ CallInv /\ StageInv /\ JournalInv /\ HostedInv
    /\ EffectInv

-----------------------------------------------------------------------------
(* How a step changes the journal, and what a record must fit.             *)

(* Every record stays and keeps its content.                               *)
JournalGrows ==
    /\ DOMAIN J \subseteq DOMAIN J'
    /\ \A k \in DOMAIN J : J'[k] = J[k]

(* What a record of kind k is when it is published.                        *)
Fits(k, v) ==
    /\ k = "composition" => v.tree = "candidate"
    /\ k = "plan" => v.composition.tree = "candidate"
    /\ k = "queue" => v.gen \in 1..MaxGeneration
    /\ k = "admission" => "preparation" \in DOMAIN J /\ J["preparation"].at <= v.at
    /\ k = "hold" => /\ {"admission", "queue"} \subseteq DOMAIN J
                     /\ J["admission"].at <= v.at
                     /\ v.gen = J["queue"].gen
    /\ k = "authorization" => /\ "hold" \in DOMAIN J
                              /\ v.hold = J["hold"]
                              /\ J["hold"].at <= v.at
    /\ k = "claim" => /\ {"authorization", "lease"} \subseteq DOMAIN J
                      /\ v.authorization = J["authorization"]
                      /\ J["authorization"].at <= v.at
                      /\ J["authorization"].until <= J["lease"].until
                      /\ v.at = clock
    /\ k = "providerReceipt" => v.tree = main
    /\ k = "completion" =>
          /\ {"providerReceipt", "reconciliation", "postState"} \subseteq DOMAIN J
          /\ J["providerReceipt"].tree = "candidate"
          /\ J["reconciliation"].claimed.outcome \in Terminal
          /\ J["postState"].tree = "candidate"

(* A step that at most publishes one record.                               *)
Records(k, v) ==
    /\ OnlyJournal
    /\ J' = J \/ (J' = Published(J, k, v) /\ (k \notin DOMAIN J => Fits(k, v)))

(* A step of the promise or none.                                          *)
Refines == [Promise!Next]_(Promise!vars)

-----------------------------------------------------------------------------
(* Lemmas about the journal.                                               *)

(* A recording step keeps every record.                                    *)
LEMMA RecordsGrow ==
    ASSUME NEW k, NEW v, Records(k, v)
    PROVE  /\ JournalGrows
           /\ \A m \in DOMAIN J' : m \in DOMAIN J \/ (m = k /\ J'[m] = v /\ Fits(k, v))
    <1>1. CASE J' = J
        BY <1>1, Zenon DEF JournalGrows
    <1>2. CASE J' = Published(J, k, v) /\ (k \notin DOMAIN J => Fits(k, v))
        <2>1. /\ DOMAIN J' = DOMAIN J \cup {k}
              /\ \A m \in DOMAIN J : J'[m] = J[m]
              /\ k \notin DOMAIN J => J'[k] = v
            BY <1>2, Zenon DEF Published
        <2> QED
            BY <1>2, <2>1, Zenon DEF JournalGrows
    <1> QED
        BY <1>1, <1>2, Zenon DEF Records

(* What is recorded stays well founded while the journal is left alone and *)
(* the clock does not go back.                                             *)
LEMMA JournalKept ==
    ASSUME JournalInv, J' = J, clock \in Nat, clock' \in Nat, clock <= clock'
    PROVE  JournalInv'
    BY DEF JournalInv, PlanInv, QueueInv, AdmissionInv, HoldInv, AuthorizationInv,
           ClaimInv, ClosureInv

(* A record that fits keeps the journal well founded.                      *)
LEMMA JournalExtended ==
    ASSUME JournalInv, WorldTypeOK, NEW k, NEW v, Records(k, v)
    PROVE  JournalInv'
    <1> USE RecordsGrow
    <1>0. clock' = clock /\ clock \in Nat
        BY DEF Records, OnlyJournal, worldVars, WorldTypeOK
    <1>1. PlanInv'
        BY DEF JournalInv, PlanInv, JournalGrows, Fits
    <1>2. QueueInv'
        BY Zenon DEF JournalInv, QueueInv, JournalGrows, Fits
    <1>3. AdmissionInv'
        BY Zenon DEF JournalInv, AdmissionInv, JournalGrows, Fits
    <1>4. HoldInv'
        BY DEF JournalInv, HoldInv, JournalGrows, Fits
    <1>5. AuthorizationInv'
        BY DEF JournalInv, AuthorizationInv, JournalGrows, Fits
    <1>6. ClaimInv'
        BY <1>0 DEF JournalInv, ClaimInv, JournalGrows, Fits
    <1>7. ClosureInv'
        BY Zenon DEF JournalInv, ClosureInv, JournalGrows, Fits
    <1> QED
        BY <1>1, <1>2, <1>3, <1>4, <1>5, <1>6, <1>7, Zenon DEF JournalInv

-----------------------------------------------------------------------------
(* Steps that at most publish a record.                                    *)

(* The stages and the repository are left alone: what is said of them      *)
(* holds of the longer journal.                                            *)
LEMMA StagesKept ==
    ASSUME Inv, JournalGrows, UNCHANGED <<S, inflight, asked>>
    PROVE  StagesTyped' /\ StageInv'
    <1>1. StagesTyped'
        BY Zenon DEF Inv, StagesTyped
    <1>2. StageInv'
        BY Zenon DEF Inv, StageInv, JournalInv, ClaimInv, JournalGrows
    <1> QED
        BY <1>1, <1>2, Zenon

(* The promise sees a recording step as a claim, as the closing or not at  *)
(* all.                                                                    *)
LEMMA RecordsRefine ==
    ASSUME ConstantsOK, Inv, NEW k, NEW v, Records(k, v)
    PROVE  Refines
    <1>1. UNCHANGED <<main, pr, hold, asked>>
        BY Zenon DEF Records, OnlyJournal, worldVars, hosted
    <1>2. JournalGrows
        BY RecordsGrow, Zenon
    <1>3. JournalInv'
        BY JournalExtended, Zenon DEF Inv
    <1>4. CASE /\ ("claim" \in DOMAIN J') = ("claim" \in DOMAIN J)
               /\ ("completion" \in DOMAIN J') = ("completion" \in DOMAIN J)
        BY <1>1, <1>2, <1>4, Zenon DEF Refines, Promise!vars, Durable, JournalGrows
    <1>5. CASE "claim" \notin DOMAIN J /\ "claim" \in DOMAIN J'
        <2>1. k = "claim" /\ ("completion" \in DOMAIN J') = ("completion" \in DOMAIN J)
            BY <1>2, <1>5, RecordsGrow DEF JournalGrows
        <2>2. J'["claim"].authorization.hold.gen \in 1..MaxGeneration
            BY <1>3, <1>5, Zenon DEF JournalInv, ClaimInv, AuthorizationInv, HoldInv, QueueInv
        <2>3. Promise!Claim
            BY <1>1, <1>5, <2>1, <2>2, Zenon DEF Promise!Claim, Durable
        <2> QED
            BY <2>3, Zenon DEF Refines, Promise!Next
    <1>6. CASE "completion" \notin DOMAIN J /\ "completion" \in DOMAIN J'
        <2>1. k = "completion" /\ ("claim" \in DOMAIN J') = ("claim" \in DOMAIN J)
              /\ Fits(k, v)
            BY <1>2, <1>6, RecordsGrow DEF JournalGrows
        <2>2. pr = "merged"
            BY <2>1, Zenon DEF Fits, Inv, HostedInv
        <2>3. hold.gen # 0
            BY <2>2 DEF Inv, HostedInv, StageInv, TimedStages, JournalInv, QueueInv
        <2>4. Promise!Close
            BY <1>1, <1>2, <1>6, <2>1, <2>2, <2>3, Zenon
               DEF Promise!Close, Durable, JournalGrows
        <2> QED
            BY <2>4, Zenon DEF Refines, Promise!Next
    <1> QED
        BY <1>2, <1>4, <1>5, <1>6 DEF JournalGrows

(* A recording step keeps the invariant when the call it belongs to goes   *)
(* on as it should.                                                        *)
LEMMA RecordsStep ==
    ASSUME ConstantsOK, Inv, NEW k, NEW v, Records(k, v), CallInv', pc' \notin Recorded
    PROVE  Inv' /\ Refines
    <1>0. JournalGrows /\ UNCHANGED <<worldVars, S, inflight, asked>>
        BY RecordsGrow, Zenon DEF Records, OnlyJournal
    <1>1. WorldTypeOK'
        BY <1>0, Zenon DEF Inv, WorldTypeOK, worldVars, hosted
    <1>2. StagesTyped' /\ StageInv'
        BY <1>0, StagesKept, Zenon
    <1>3. JournalInv'
        BY JournalExtended, Zenon DEF Inv
    <1>4. HostedInv'
        <2>1. "providerReceipt" \in DOMAIN J' /\ J'["providerReceipt"].tree = "candidate"
                => pr = "merged"
            BY <1>0, RecordsGrow DEF Inv, HostedInv, JournalGrows, Fits
        <2> QED
            BY <1>0, <2>1, Zenon DEF Inv, HostedInv, worldVars, hosted
    <1>5. EffectInv'
        BY <1>0, Zenon DEF Inv, EffectInv, EffectiveOutcome, Shows, Recorded, worldVars, hosted
    <1> QED
        BY <1>1, <1>2, <1>3, <1>4, <1>5, RecordsRefine, Zenon DEF Inv

(* The call that records ends ...                                          *)
LEMMA EndsStep ==
    ASSUME ConstantsOK, Inv, NEW k, NEW v, Records(k, v), pc' = "idle", stage' = "none"
    PROVE  Inv' /\ Refines
    <1>1. CallInv' /\ pc' \notin Recorded
        BY Zenon DEF CallInv, Recorded, AtStage, TimedStages
    <1> QED
        BY <1>1, RecordsStep, Zenon

(* ... or goes on with its stage, outside the stage executor ...           *)
LEMMA GoesStep ==
    ASSUME ConstantsOK, Inv, NEW k, NEW v, Records(k, v), stage' = stage,
           pc' \notin AtStage \cup {"group", "webhook"}
    PROVE  Inv' /\ Refines
    <1>1. JournalGrows
        BY RecordsGrow, Zenon
    <1>2. CallInv' /\ pc' \notin Recorded
        BY <1>1, Zenon DEF Inv, CallInv, Recorded, AtStage, JournalGrows
    <1> QED
        BY <1>2, RecordsStep, Zenon

(* ... or turns to a stage of the preparation, or to none.                 *)
LEMMA TurnsStep ==
    ASSUME ConstantsOK, Inv, NEW k, NEW v, Records(k, v),
           stage' \in (StageNames \cup {"none"}) \ TimedStages,
           pc' \notin AtStage \cup {"group", "webhook"}
    PROVE  Inv' /\ Refines
    <1>1. CallInv' /\ pc' \notin Recorded
        BY Zenon DEF CallInv, Recorded, AtStage, TimedStages
    <1> QED
        BY <1>1, RecordsStep, Zenon

(* A step that leaves the journal alone records nothing.                   *)
LEMMA RecordsNothing ==
    ASSUME OnlyJournal, J' = J
    PROVE  Records("none", "none")
    BY Zenon DEF Records

(* A kind the invariant does not speak of fits whatever it says.           *)
LEMMA OtherKindsFit ==
    ASSUME NEW k, NEW v,
           k \notin {"composition", "plan", "queue", "admission", "hold", "authorization",
                     "claim", "providerReceipt", "completion"}
    PROVE  Fits(k, v)
    BY Zenon DEF Fits

(* A record an operator may supply is one the invariant does not relate. *)
LEMMA OperatorRecordsStep ==
    ASSUME ConstantsOK, Inv, OperatorRecords
    PROVE  Inv' /\ Refines
    <1>1. PICK n \in 1..Len(OperatorOrder) :
             /\ OperatorOrder[n] \notin DOMAIN J
             /\ \A m \in 1..(n - 1) : OperatorOrder[m] \in DOMAIN J
             /\ J' = Published(J, OperatorOrder[n], OperatorRecord(OperatorOrder[n]))
        BY Zenon DEF OperatorRecords
    <1> DEFINE k == OperatorOrder[n]
               v == OperatorRecord(k)
    <1>2. n \in 1..11 /\ (n = 4 <=> k = "composition") /\ (n = 6 <=> k = "plan")
          /\ k \notin {"queue", "admission", "hold", "authorization", "claim",
                       "providerReceipt", "completion"}
        BY <1>1 DEF OperatorOrder
    <1>3. k = "composition" => v.tree = "candidate"
        BY Zenon DEF OperatorRecord
    <1>4. k = "plan" => v.composition = J["composition"]
        BY Zenon DEF OperatorRecord
    <1>5. k = "plan" => "composition" \in DOMAIN J
        <2>1. n = 6 => OperatorOrder[4] \in DOMAIN J
            BY <1>1
        <2> QED
            BY <1>2, <2>1, Zenon DEF OperatorOrder
    <1>6. Fits(k, v)
        <2> HIDE DEF k, v
        <2> QED
            BY <1>2, <1>3, <1>4, <1>5, Zenon DEF Fits, Inv, JournalInv, PlanInv
    <1>7. Records(k, v)
        BY <1>1, <1>6, Zenon DEF Records, OperatorRecords
    <1>8. stage' = stage /\ pc' \notin AtStage \cup {"group", "webhook"}
        BY Zenon DEF OperatorRecords, callVars, AtStage, Recorded
    <1> QED
        BY <1>7, <1>8, GoesStep, Zenon

(* prepare begins without touching a record. *)
LEMMA PrepareStep ==
    ASSUME ConstantsOK, Inv, Prepare
    PROVE  Inv' /\ Refines
    BY RecordsNothing, TurnsStep, Zenon DEF Prepare, Turns, AtStage, Recorded, TimedStages

(* Revalidation records the queue configuration, once, then goes on or returns (_preflight). *)
LEMMA PreflightStep ==
    ASSUME ConstantsOK, Inv, Preflight
    PROVE  Inv' /\ Refines
    <1>1. Records("queueConfiguration", ObserveQueueConfiguration)
        BY OtherKindsFit DEF Preflight, PreflightJournal, Records
    <1>2. CASE pc' = "idle" /\ stage' = "none"
        BY <1>1, <1>2, EndsStep, Zenon
    <1>3. CASE pc' = "durable_queued" /\ stage' = stage
        BY <1>1, <1>3, GoesStep, Zenon DEF AtStage, Recorded
    <1>4. CASE pc' = "run_stage" /\ stage' = stage /\ stage # "none"
        <2>1. CallInv' /\ pc' \notin Recorded
            BY <1>1, <1>4, RecordsGrow, Zenon DEF Inv, CallInv, Recorded, AtStage, JournalGrows
        <2> QED
            BY <1>1, <2>1, RecordsStep, Zenon
    <1> QED
        BY <1>2, <1>3, <1>4, Zenon DEF Preflight, Goes, Returns

(* Recognizing a finished preparation records nothing (_durable_queued). *)
LEMMA DurableQueuedStep ==
    ASSUME ConstantsOK, Inv, DurableQueued
    PROVE  Inv' /\ Refines
    <1>1. Records("none", "none")
        BY RecordsNothing, Zenon DEF DurableQueued
    <1>2. CASE pc' = "idle" /\ stage' = "none"
        BY <1>1, <1>2, EndsStep, Zenon
    <1>3. CASE pc' = "preflight" /\ stage' = "candidate_publication"
        BY <1>1, <1>3, TurnsStep, Zenon DEF AtStage, Recorded, TimedStages, StageNames
    <1> QED
        BY <1>2, <1>3, Zenon DEF DurableQueued, Turns, Returns

(* Reading the pull request records nothing (_resolve_pr). *)
LEMMA ResolvePrStep ==
    ASSUME ConstantsOK, Inv, ResolvePr
    PROVE  Inv' /\ Refines
    <1>1. Records("none", "none")
        BY RecordsNothing, Zenon DEF ResolvePr
    <1>2. CASE pc' = "idle" /\ stage' = "none"
        BY <1>1, <1>2, EndsStep, Zenon
    <1>3. CASE pc' = "preflight" /\ stage' = "admission_check"
        BY <1>1, <1>3, TurnsStep, Zenon DEF AtStage, Recorded, TimedStages, StageNames
    <1> QED
        BY <1>2, <1>3, Zenon DEF ResolvePr, Turns, Returns

(* The admission is recorded in the order of the clock, after the preparation. *)
LEMMA AdmitStep ==
    ASSUME ConstantsOK, Inv, Admit
    PROVE  Inv' /\ Refines
    <1>1. Records("admission", AdmissionRecord)
        BY Zenon DEF Admit, Records, Fits, RequireQueueAdmission, Durable, Returns
    <1>2. CASE pc' = "idle" /\ stage' = "none"
        BY <1>1, <1>2, EndsStep, Zenon
    <1>3. CASE pc' = "preflight" /\ stage' = "queue_enqueue"
        BY <1>1, <1>3, TurnsStep, Zenon DEF AtStage, Recorded, TimedStages, StageNames
    <1> QED
        BY <1>2, <1>3, Zenon DEF Admit, Turns, Returns

(* The queue entry is recorded with a generation that exists. *)
LEMMA ObserveQueuedStep ==
    ASSUME ConstantsOK, Inv, ObserveQueued
    PROVE  Inv' /\ Refines
    <1>1. Records("queue", ObserveQueue(J["queueConfiguration"], J["admission"]))
        BY DEF ObserveQueued, Records, Fits, ObserveQueue, QueueReadable, Inv, WorldTypeOK,
               ConstantsOK
    <1>2. pc' = "idle" /\ stage' = "none"
        BY Zenon DEF ObserveQueued, Returns
    <1> QED
        BY <1>1, <1>2, EndsStep, Zenon

(* After a settled stage the coordinator goes on to what follows it, or returns. *)
LEMMA SettledStep ==
    ASSUME ConstantsOK, Inv, Settled
    PROVE  Inv' /\ Refines
    <1>1. Records("none", "none")
        BY RecordsNothing, Zenon DEF Settled
    <1>2. \/ pc' = "idle" /\ stage' = "none"
          \/ /\ pc' \in {"transition", "resolve_pr", "admit", "observe_queued", "group_checks"}
             /\ stage' = stage
          \/ pc' = "preflight" /\ stage' = "pull_request_open"
        <2>1. stage \in StageNames
            BY Zenon DEF Settled, Inv, CallInv, AtStage, Recorded
        <2>2. CASE stage = "release_transition"
            BY <2>2, Zenon DEF Settled, Goes
        <2>3. CASE stage # "release_transition" /\ EffectiveOutcome(stage) \notin Success
            BY <2>3, Zenon DEF Settled, Returns
        <2>4. CASE stage # "release_transition" /\ EffectiveOutcome(stage) \in Success
            BY <2>1, <2>4, Zenon DEF Settled, Goes, Turns, StageNames
        <2> QED
            BY <2>2, <2>3, <2>4, Zenon
    <1>3. CASE pc' = "idle" /\ stage' = "none"
        BY <1>1, <1>3, EndsStep, Zenon
    <1>4. CASE /\ pc' \in {"transition", "resolve_pr", "admit", "observe_queued",
                           "group_checks"}
               /\ stage' = stage
        BY <1>1, <1>4, GoesStep, Zenon DEF AtStage, Recorded
    <1>5. CASE pc' = "preflight" /\ stage' = "pull_request_open"
        BY <1>1, <1>5, TurnsStep, Zenon DEF AtStage, Recorded, TimedStages, StageNames
    <1> QED
        BY <1>2, <1>3, <1>4, <1>5, Zenon

(* complete begins from the durable queue. *)
LEMMA CompleteStep ==
    ASSUME ConstantsOK, Inv, Complete
    PROVE  Inv' /\ Refines
    <1>1. Records("none", "none") /\ J' = J
        BY RecordsNothing, Zenon DEF Complete
    <1>2. CASE pc' = "idle" /\ stage' = "none"
        BY <1>1, <1>2, EndsStep, Zenon
    <1>3. CASE pc' \in {"group", "authorize", "claim"} /\ stage' = "none"
        <2>1. "queue" \in DOMAIN J
            BY Zenon DEF Complete, Durable, CompleteLoads
        <2>2. CallInv' /\ pc' \notin Recorded
            BY <1>1, <1>3, <2>1, Zenon DEF CallInv, Recorded, AtStage, TimedStages
        <2> QED
            BY <1>1, <2>2, RecordsStep, Zenon
    <1> QED
        BY <1>2, <1>3, Zenon DEF Complete, Turns, Returns

(* The delivery is recorded before the hold is asked for. *)
LEMMA WebhookStep ==
    ASSUME ConstantsOK, Inv, RecordMergeGroupWebhookReceipt
    PROVE  Inv' /\ Refines
    <1>1. Records("webhook", work)
        BY OtherKindsFit DEF RecordMergeGroupWebhookReceipt, Records
    <1>2. CASE pc' = "idle" /\ stage' = "none"
        BY <1>1, <1>2, EndsStep, Zenon
    <1>3. CASE pc' = "run_stage" /\ stage' = "merge_group_hold"
        <2>1. "queue" \in DOMAIN J'
            BY <1>1, RecordsGrow, Zenon DEF RecordMergeGroupWebhookReceipt, Inv, CallInv,
               JournalGrows
        <2>2. CallInv' /\ pc' \notin Recorded
            BY <1>3, <2>1, Zenon DEF CallInv, Recorded, AtStage, TimedStages, StageNames
        <2> QED
            BY <1>1, <2>2, RecordsStep, Zenon
    <1> QED
        BY <1>2, <1>3, Zenon DEF RecordMergeGroupWebhookReceipt, Turns

(* The checks of the group are recorded with the instant they were read. *)
LEMMA GroupChecksStep ==
    ASSUME ConstantsOK, Inv, GroupChecks
    PROVE  Inv' /\ Refines
    <1>1. Records("checks", ObserveMergeGroupChecks(J["webhook"].gen, clock))
        BY OtherKindsFit DEF GroupChecks, Records
    <1>2. CASE pc' = "idle" /\ stage' = "none"
        BY <1>1, <1>2, EndsStep, Zenon
    <1>3. CASE pc' = "hold" /\ stage' = stage
        BY <1>1, <1>3, GoesStep, Zenon DEF AtStage, Recorded
    <1> QED
        BY <1>2, <1>3, Zenon DEF GroupChecks, Goes, Returns

(* The hold names the generation of the group that is held. *)
LEMMA HoldStep ==
    ASSUME ConstantsOK, Inv, RecordReleaseHold
    PROVE  Inv' /\ Refines
    <1>1. RequireReleaseHold(J, HoldRecord) => Fits("hold", HoldRecord)
        BY Zenon DEF RequireReleaseHold, RequireAdmission, Durable, Fits
    <1>2. Records("hold", HoldRecord)
        BY <1>1, Zenon DEF RecordReleaseHold, Publishes, Records
    <1>3. CASE pc' = "idle" /\ stage' = "none"
        BY <1>2, <1>3, EndsStep, Zenon
    <1>4. CASE pc' = "authorize" /\ stage' = stage
        BY <1>2, <1>4, GoesStep, Zenon DEF AtStage, Recorded
    <1> QED
        BY <1>3, <1>4, Zenon DEF RecordReleaseHold, Publishes, Goes, Returns

(* The authorization is issued over the durable hold, within the lease. *)
LEMMA AuthorizationStep ==
    ASSUME ConstantsOK, Inv, IssueAuthorization
    PROVE  Inv' /\ Refines
    <1>1. RequireHold(J, AuthorizationRecord) => Fits("authorization", AuthorizationRecord)
        BY Zenon DEF RequireHold, Durable, Fits
    <1>2. Records("authorization", AuthorizationRecord)
        BY <1>1, Zenon DEF IssueAuthorization, Publishes, Records
    <1>3. CASE pc' = "idle" /\ stage' = "none"
        BY <1>2, <1>3, EndsStep, Zenon
    <1>4. CASE pc' = "claim" /\ stage' = stage
        BY <1>2, <1>4, GoesStep, Zenon DEF AtStage, Recorded
    <1> QED
        BY <1>3, <1>4, Zenon DEF IssueAuthorization, Publishes, Goes, Returns

(* The claim is issued over the durable authorization, and once. *)
LEMMA ClaimStep ==
    ASSUME ConstantsOK, Inv, IssueClaim
    PROVE  Inv' /\ Refines
    <1>1. RequireReleaseClaim(J, ClaimRecord) => Fits("claim", ClaimRecord)
        BY Zenon DEF RequireReleaseClaim, ClaimRecord, Durable, Fits
    <1>2. Records("claim", ClaimRecord)
        BY <1>1, Zenon DEF IssueClaim, Records
    <1>3. CASE pc' = "idle" /\ stage' = "none"
        BY <1>2, <1>3, EndsStep, Zenon
    <1>4. CASE pc' = "run_stage" /\ stage' = "release_transition" /\ "claim" \in DOMAIN J'
        <2>1. "queue" \in DOMAIN J'
            BY <1>2, <1>4, JournalExtended, Zenon
               DEF Inv, JournalInv, ClaimInv, AuthorizationInv, HoldInv
        <2>2. CallInv' /\ pc' \notin Recorded
            BY <1>4, <2>1, Zenon DEF CallInv, Recorded, AtStage, TimedStages, StageNames
        <2> QED
            BY <1>2, <2>2, RecordsStep, Zenon
    <1> QED
        BY <1>3, <1>4, Zenon DEF IssueClaim, Turns, Returns, Durable, Published

(* What the release came to is recorded once (_release, after the stage). *)
LEMMA TransitionStep ==
    ASSUME ConstantsOK, Inv, RecordReleaseTransition
    PROVE  Inv' /\ Refines
    <1>1. Records("transition", TransitionRecord)
        BY OtherKindsFit DEF RecordReleaseTransition, Publishes, Records
    <1>2. CASE pc' = "idle" /\ stage' = "none"
        BY <1>1, <1>2, EndsStep, Zenon
    <1>3. CASE pc' = "claimed" /\ stage' = stage
        BY <1>1, <1>3, GoesStep, Zenon DEF AtStage, Recorded
    <1> QED
        BY <1>2, <1>3, Zenon DEF RecordReleaseTransition, Publishes, Goes, Returns

(* A terminal release is recorded as claimed (_release, after the stage). *)
LEMMA ClaimedStep ==
    ASSUME ConstantsOK, Inv, RecordClaimedReleaseTransition
    PROVE  Inv' /\ Refines
    <1>1. Records("claimed", ClaimedRecord)
        BY OtherKindsFit DEF RecordClaimedReleaseTransition, Publishes, Records
    <1>2. CASE pc' = "idle" /\ stage' = "none"
        BY <1>1, <1>2, EndsStep, Zenon
    <1>3. CASE pc' = "post_state" /\ stage' = stage
        BY <1>1, <1>3, GoesStep, Zenon DEF AtStage, Recorded
    <1> QED
        BY <1>2, <1>3, Zenon DEF RecordClaimedReleaseTransition, Publishes, Goes, Returns

(* The receipt of the post-state names the tree that main shows. *)
LEMMA PostStateReadStep ==
    ASSUME ConstantsOK, Inv, ObservePostState
    PROVE  Inv' /\ Refines
    <1>1. Records("providerReceipt", ReceiptRecord)
        BY Zenon DEF ObservePostState, Records, Fits, ReceiptRecord
    <1>2. CASE pc' = "idle" /\ stage' = "none"
        BY <1>1, <1>2, EndsStep, Zenon
    <1>3. CASE pc' = "reconcile" /\ stage' = stage
        BY <1>1, <1>3, GoesStep, Zenon DEF AtStage, Recorded
    <1> QED
        BY <1>2, <1>3, Zenon DEF ObservePostState, Goes, Returns

(* The reconciliation rests on the claimed record and on the receipt. *)
LEMMA ReconciliationStep ==
    ASSUME ConstantsOK, Inv, RecordReconciliation
    PROVE  Inv' /\ Refines
    <1>1. Records("reconciliation", ReconciliationRecord)
        BY OtherKindsFit DEF RecordReconciliation, Publishes, Records
    <1>2. CASE pc' = "idle" /\ stage' = "none"
        BY <1>1, <1>2, EndsStep, Zenon
    <1>3. CASE pc' = "observation" /\ stage' = stage
        BY <1>1, <1>3, GoesStep, Zenon DEF AtStage, Recorded
    <1> QED
        BY <1>2, <1>3, Zenon DEF RecordReconciliation, Publishes, Goes, Returns

(* The post-state repeats the tree of the receipt. *)
LEMMA PostStateStep ==
    ASSUME ConstantsOK, Inv, RecordPostState
    PROVE  Inv' /\ Refines
    <1>1. Records("postState", PostStateRecord)
        BY OtherKindsFit DEF RecordPostState, Publishes, Records
    <1>2. CASE pc' = "idle" /\ stage' = "none"
        BY <1>1, <1>2, EndsStep, Zenon
    <1>3. CASE pc' = "complete" /\ stage' = stage
        BY <1>1, <1>3, GoesStep, Zenon DEF AtStage, Recorded
    <1> QED
        BY <1>2, <1>3, Zenon DEF RecordPostState, Publishes, Goes, Returns

(* The operation is closed over its reconciliation and its post-state. *)
LEMMA CompletionStep ==
    ASSUME ConstantsOK, Inv, RecordCompletion
    PROVE  Inv' /\ Refines
    <1>1. ASSUME ValidateCompletion(J, ReleaseStage, ReleaseIssuerBinding)
          PROVE  Fits("completion", [at |-> clock])
        <2>1. {"plan", "providerReceipt", "reconciliation", "postState"} \subseteq DOMAIN J
            BY <1>1, Zenon DEF ValidateCompletion, VerifyCompletionPrerequisites, Durable,
                        CompletionChildren
        <2>2. /\ J["providerReceipt"].tree = "candidate"
              /\ J["postState"].tree = "candidate"
            BY <1>1, <2>1, Zenon DEF ValidateCompletion, CompletionPostState, Inv, JournalInv,
               PlanInv
        <2>3. J["reconciliation"].claimed.outcome \in Terminal
            BY <1>1, Zenon DEF ValidateCompletion, VerifyCompletionPrerequisites,
                        RequireReconciliation
        <2> QED
            BY <2>1, <2>2, <2>3, Zenon DEF Fits
    <1>2. Records("completion", [at |-> clock])
        BY <1>1, Zenon DEF RecordCompletion, Records
    <1>3. pc' = "idle" /\ stage' = "none"
        BY Zenon DEF RecordCompletion, Returns
    <1> QED
        BY <1>2, <1>3, EndsStep, Zenon

-----------------------------------------------------------------------------
(* The stage executor: steps that change the durable stages.               *)

(* A step that leaves the repository, the journal and the requests alone   *)
(* is no step of the promise.                                              *)
LEMMA QuietStep ==
    ASSUME UNCHANGED <<main, pr, hold, J, asked>>
    PROVE  Refines
    BY Zenon DEF Refines, Promise!vars, Durable

(* The executor writes to its own stage only, and nothing else changes but *)
(* the call.                                                               *)
StageWrites ==
    /\ UNCHANGED <<worldVars, J, inflight, asked>>
    /\ DOMAIN S' = DOMAIN S \cup {stage}
    /\ \A s \in DOMAIN S : s # stage => S'[s] = S[s]
    /\ stage \in DOMAIN S =>
          /\ S'[stage].gen = S[stage].gen
          /\ S'[stage].intentAt = S[stage].intentAt
          /\ S[stage].owner => S'[stage].owner

(* A step of the stage executor that writes the stages alone keeps the invariant when
   what it writes fits the call and the hosted repository. *)
LEMMA StageStep ==
    ASSUME ConstantsOK, Inv, stage \in DOMAIN S, StageWrites,
           S' \in [DOMAIN S' -> StageRecord], stage' \in {stage, "none"}, CallInv',
           pc' # "receipt",
           \A s \in DOMAIN S : s = stage /\ EffectiveOutcome(s)' \in Success => Shows(s),
           S'[stage].resolution # "none" => S'[stage].outcome = "ambiguous"
    PROVE  Inv' /\ Refines
    <1>0. UNCHANGED <<main, pr, hold, admission, J, asked, inflight, clock>>
        BY Zenon DEF StageWrites, worldVars, hosted
    <1>1. WorldTypeOK'
        BY Zenon DEF Inv, WorldTypeOK, StageWrites, worldVars, hosted
    <1>2. StagesTyped'
        BY <1>0, Zenon DEF Inv, StagesTyped, StageWrites
    <1>3. StageInv'
        BY <1>0, Zenon DEF Inv, StagesTyped, StageInv, StageWrites
    <1>4. JournalInv'
        BY <1>0, JournalKept DEF Inv, WorldTypeOK
    <1>5. HostedInv'
        BY <1>0, Zenon DEF Inv, HostedInv, StageWrites
    <1>6. EffectInv'
        <2>1. ASSUME NEW s \in DOMAIN S', EffectiveOutcome(s)' \in Success
              PROVE  Shows(s)
            <3>1. CASE s = stage
                BY <2>1, <3>1, Zenon
            <3>2. CASE s # stage
                BY <2>1, <3>2, Zenon DEF Inv, EffectInv, EffectiveOutcome, StageWrites
            <3> QED
                BY <3>1, <3>2, Zenon
        <2>2. \A s \in DOMAIN S' : EffectiveOutcome(s)' \in Success => Shows(s)'
            BY <1>0, <2>1, Zenon DEF Shows
        <2>3. \A s \in DOMAIN S' : S'[s].resolution # "none" => S'[s].outcome = "ambiguous"
            BY Zenon DEF Inv, EffectInv, StageWrites
        <2> QED
            BY <1>0, <2>2, <2>3, Zenon DEF Inv, EffectInv, StageWrites
    <1> QED
        BY <1>0, <1>1, <1>2, <1>3, <1>4, <1>5, <1>6, QuietStep, Zenon DEF Inv

(* The writes of the executor to one stage: the owner marker, the receipt, *)
(* the resolution.                                                         *)
LEMMA OwnerWritten ==
    ASSUME Inv, stage \in DOMAIN S, S' = [S EXCEPT ![stage].owner = TRUE],
           UNCHANGED <<worldVars, J, inflight, asked>>
    PROVE  /\ StageWrites /\ S' \in [DOMAIN S' -> StageRecord]
           /\ S'[stage].owner
           /\ S'[stage].outcome = S[stage].outcome
           /\ S'[stage].resolution = S[stage].resolution
    <1>1. PICK r \in StageRecord : r = S[stage]
        BY Zenon DEF Inv, StagesTyped
    <1>2. S' = [S EXCEPT ![stage] = [r EXCEPT !.owner = TRUE]]
        BY <1>1, Zenon
    <1>3. PICK q : q = [r EXCEPT !.owner = TRUE]
        BY Zenon
    <1>4. /\ q \in StageRecord
          /\ q.gen = r.gen /\ q.intentAt = r.intentAt /\ q.owner = TRUE
          /\ q.outcome = r.outcome /\ q.resolution = r.resolution
        BY <1>3, Zenon DEF StageRecord
    <1> QED
        BY <1>1, <1>2, <1>3, <1>4, Zenon DEF Inv, StagesTyped, StageWrites

(* A receipt changes the outcome of its own stage only. *)
LEMMA ReceiptWritten ==
    ASSUME Inv, stage \in DOMAIN S, NEW outcome \in Outcomes, NEW at \in Nat,
           S' = [S EXCEPT ![stage].outcome = outcome, ![stage].at = at],
           UNCHANGED <<worldVars, J, inflight, asked>>
    PROVE  /\ StageWrites /\ S' \in [DOMAIN S' -> StageRecord]
           /\ S'[stage].outcome = outcome
           /\ S'[stage].resolution = S[stage].resolution
           /\ S'[stage].owner = S[stage].owner
    <1>1. PICK r \in StageRecord : r = S[stage]
        BY Zenon DEF Inv, StagesTyped
    <1>2. S' = [S EXCEPT ![stage] = [[r EXCEPT !.outcome = outcome] EXCEPT !.at = at]]
        BY <1>1, Zenon
    <1>3. PICK q : q = [[r EXCEPT !.outcome = outcome] EXCEPT !.at = at]
        BY Zenon
    <1>4. /\ q \in StageRecord
          /\ q.gen = r.gen /\ q.intentAt = r.intentAt /\ q.owner = r.owner
          /\ q.outcome = outcome /\ q.resolution = r.resolution
        BY <1>3, Zenon DEF StageRecord
    <1> QED
        BY <1>1, <1>2, <1>3, <1>4, ZenonT(40) DEF Inv, StagesTyped, StageWrites

(* A resolution changes the resolution of its own stage only. *)
LEMMA ResolutionWritten ==
    ASSUME Inv, stage \in DOMAIN S, NEW verdict \in {"already_applied", "not_applied"},
           NEW at \in Nat,
           S' = [S EXCEPT ![stage].resolution = verdict, ![stage].resolvedAt = at,
                          ![stage].resolvedBy = "stage observation"],
           UNCHANGED <<worldVars, J, inflight, asked>>
    PROVE  /\ StageWrites /\ S' \in [DOMAIN S' -> StageRecord]
           /\ S'[stage].outcome = S[stage].outcome
           /\ S'[stage].resolution = verdict
           /\ S'[stage].owner = S[stage].owner
    <1>1. PICK r \in StageRecord : r = S[stage]
        BY Zenon DEF Inv, StagesTyped
    <1>2. S' = [S EXCEPT ![stage] = [[[r EXCEPT !.resolution = verdict]
                                         EXCEPT !.resolvedAt = at]
                                         EXCEPT !.resolvedBy = "stage observation"]]
        BY <1>1, Zenon
    <1>3. PICK q : q = [[[r EXCEPT !.resolution = verdict] EXCEPT !.resolvedAt = at]
                           EXCEPT !.resolvedBy = "stage observation"]
        BY Zenon
    <1>4. /\ q \in StageRecord
          /\ q.gen = r.gen /\ q.intentAt = r.intentAt /\ q.owner = r.owner
          /\ q.outcome = r.outcome /\ q.resolution = verdict
        BY <1>3, Zenon DEF StageRecord
    <1>5. S' = [S EXCEPT ![stage] = q]
        BY <1>2, <1>3, Zenon
    <1> QED
        BY <1>1, <1>4, <1>5 DEF Inv, StagesTyped, StageWrites

(* Which stage is the parent of which (MainMutationStage order).           *)
LEMMA Parents ==
    ASSUME NEW s \in StageNames
    PROVE  /\ NextStage(s) = "admission_check" => s = "pull_request_open"
           /\ NextStage(s) = "queue_enqueue" => s = "admission_check"
           /\ NextStage(s) = "release_transition" => s = "merge_group_hold"
    <1>1. CASE s = "candidate_publication"
        BY <1>1, Zenon DEF NextStage
    <1>2. CASE s = "pull_request_open"
        BY <1>2, Zenon DEF NextStage
    <1>3. CASE s = "admission_check"
        BY <1>3, Zenon DEF NextStage
    <1>4. CASE s = "queue_enqueue"
        BY <1>4, Zenon DEF NextStage
    <1>5. CASE s = "merge_group_hold"
        BY <1>5, Zenon DEF NextStage
    <1>6. CASE s = "release_transition"
        BY <1>6, Zenon DEF NextStage
    <1> QED
        BY <1>1, <1>2, <1>3, <1>4, <1>5, <1>6, Zenon DEF StageNames

(* An intent is recorded after its parent succeeded, under the claim when  *)
(* it is the release.                                                      *)
LEMMA IntentStep ==
    ASSUME ConstantsOK, Inv, pc = "run_stage", stage \notin DOMAIN S,
           ParentSucceeded(stage), StageAuthority(stage),
           S' = Published(S, stage, NewStage(stage)), pc' = "own", stage' = stage,
           UNCHANGED <<worldVars, J, inflight, asked>>
    PROVE  Inv' /\ Refines
    <1>0. UNCHANGED <<main, pr, hold, admission, clock>> /\ stage \in StageNames
        BY Zenon DEF worldVars, hosted, Inv, CallInv, AtStage
    <1>1. WorldTypeOK'
        BY Zenon DEF Inv, WorldTypeOK, worldVars, hosted
    <1>2. /\ NewStage(stage) \in StageRecord
          /\ ~NewStage(stage).owner /\ NewStage(stage).outcome = "none"
          /\ NewStage(stage).resolution = "none"
          /\ stage \in TimedStages => /\ NewStage(stage).gen = J["queue"].gen
                                      /\ NewStage(stage).intentAt = clock
        BY DEF NewStage, StampOf, StageRecord, Outcomes, ConstantsOK, Inv, WorldTypeOK,
               CallInv, JournalInv, QueueInv
    <1>3. /\ DOMAIN S' = DOMAIN S \cup {stage}
          /\ S' \in [DOMAIN S' -> StageRecord]
          /\ S'[stage] = NewStage(stage)
          /\ \A s \in DOMAIN S : S'[s] = S[s]
        BY <1>2, Zenon DEF Published, Inv, StagesTyped
    <1>4. StagesTyped'
        BY <1>0, <1>3, Zenon DEF Inv, StagesTyped
    <1>5. CallInv'
        BY <1>0, <1>2, <1>3, Zenon DEF Inv, CallInv, AtStage, Recorded
    <1>6. StageInv'
        <2>1. \A s \in StageNames : asked'[s] = 1 => s \in DOMAIN S' /\ S'[s].owner
            BY <1>3, Zenon DEF Inv, StageInv
        <2>2. \A s \in inflight' : asked'[s] = 1
            BY Zenon DEF Inv, StageInv
        <2>3. \A s \in DOMAIN S' \cap TimedStages :
                 "queue" \in DOMAIN J' /\ S'[s].gen = J'["queue"].gen
            BY <1>2, <1>3 DEF Inv, StageInv, CallInv
        <2>4. "release_transition" \in DOMAIN S' =>
                 /\ "claim" \in DOMAIN J'
                 /\ J'["claim"].at <= S'["release_transition"].intentAt
                 /\ S'["release_transition"].intentAt < J'["authorization"].until
            <3>1. CASE stage = "release_transition"
                BY <1>2, <1>3, <3>1, Zenon
                   DEF StageAuthority, Durable, TimedStages, Inv, JournalInv, ClaimInv
            <3>2. CASE stage # "release_transition"
                BY <1>3, <3>2, Zenon DEF Inv, StageInv
            <3> QED
                BY <3>1, <3>2, Zenon
        <2> QED
            BY <2>1, <2>2, <2>3, <2>4, Zenon DEF StageInv
    <1>7. JournalInv'
        BY <1>0, JournalKept DEF Inv, WorldTypeOK
    <1>8. HostedInv'
        BY <1>0, <1>3, Zenon DEF Inv, HostedInv
    <1>9. EffectInv'
        <2>1. ASSUME NEW s \in DOMAIN S', EffectiveOutcome(s)' \in Success
              PROVE  Shows(s)
            BY <1>2, <1>3, <2>1, Zenon DEF Inv, EffectInv, EffectiveOutcome, Success
        <2>2. \A s \in DOMAIN S' : EffectiveOutcome(s)' \in Success => Shows(s)'
            BY <1>0, <2>1, Zenon DEF Shows
        <2>3. \A p \in DOMAIN S : p \in StageNames /\ (Succeeded(p) => Shows(p))
            BY Zenon DEF Inv, StagesTyped, EffectInv, Succeeded
        <2>4. stage = "admission_check" => pr # "absent"
            BY <2>3, Parents, Zenon DEF ParentSucceeded, Shows
        <2>5. stage = "queue_enqueue" => pr # "absent" /\ admission # NoRecord
            <3>1. stage = "queue_enqueue" => "admission_check" \in DOMAIN S
                                             /\ admission # NoRecord
                BY <2>3, Parents, Zenon DEF ParentSucceeded, Shows
            <3> QED
                BY <3>1, Zenon DEF Inv, EffectInv
        <2>6. stage = "release_transition" => hold # NoRecord
            BY <2>3, Parents, Zenon DEF ParentSucceeded, Shows
        <2>7. \A s \in DOMAIN S' : S'[s].resolution # "none" => S'[s].outcome = "ambiguous"
            BY <1>2, <1>3, Zenon DEF Inv, EffectInv
        <2> QED
            BY <1>0, <1>3, <2>2, <2>4, <2>5, <2>6, <2>7, Zenon DEF Inv, EffectInv
    <1> QED
        BY <1>0, <1>1, <1>4, <1>5, <1>6, <1>7, <1>8, <1>9, QuietStep, Zenon DEF Inv

(* A new stage has its intent before anything is sent for it (_intent_values). *)
LEMMA RunStageStep ==
    ASSUME ConstantsOK, Inv, RunStage
    PROVE  Inv' /\ Refines
    <1>1. CASE stage \notin DOMAIN S /\ ParentSucceeded(stage) /\ StageAuthority(stage)
        BY <1>1, IntentStep, Zenon DEF RunStage, Goes
    <1>2. CASE stage \notin DOMAIN S /\ ~(ParentSucceeded(stage) /\ StageAuthority(stage))
        <2>1. OnlyJournal /\ J' = J /\ pc' = "idle" /\ stage' = "none"
            BY <1>2, Zenon DEF RunStage, OnlyJournal, Returns
        <2> QED
            BY <2>1, RecordsNothing, EndsStep, Zenon
    <1>3. CASE stage \in DOMAIN S
        <2>1. S' = S /\ stage' = stage /\ UNCHANGED <<worldVars, J, inflight, asked>>
              /\ pc' \in {"own", "recover", "settled"}
              /\ (pc' = "own" => ~S[stage].owner /\ S[stage].outcome = "none")
              /\ (pc' = "recover" => S[stage].outcome \in {"none", "ambiguous"})
            BY <1>3, Zenon DEF RunStage, Goes
        <2>2. CallInv'
            BY <1>3, <2>1, Zenon DEF Inv, CallInv, AtStage, Recorded, RunStage
        <2>3. StageWrites /\ S' \in [DOMAIN S' -> StageRecord]
            BY <1>3, <2>1, Zenon DEF StageWrites, Inv, StagesTyped
        <2>4. /\ \A s \in DOMAIN S : EffectiveOutcome(s)' \in Success => Shows(s)
              /\ S'[stage].resolution # "none" => S'[stage].outcome = "ambiguous"
            BY <1>3, <2>1, Zenon DEF Inv, EffectInv, EffectiveOutcome
        <2> QED
            BY <1>3, <2>1, <2>2, <2>3, <2>4, StageStep, Zenon
    <1> QED
        BY <1>1, <1>2, <1>3, Zenon

(* The owner marker is created once, by the call that then sends (_claim_dispatch_owner). *)
LEMMA OwnStep ==
    ASSUME ConstantsOK, Inv, ClaimDispatchOwner
    PROVE  Inv' /\ Refines
    <1>0. stage \in DOMAIN S /\ stage \in StageNames
          /\ ~S[stage].owner /\ S[stage].outcome = "none"
        BY Zenon DEF ClaimDispatchOwner, Inv, CallInv, AtStage, Recorded
    <1>1. CASE StageAuthority(stage)
        <2>1. /\ S' = [S EXCEPT ![stage].owner = TRUE]
              /\ pc' = "send" /\ stage' = stage
              /\ UNCHANGED <<worldVars, J, inflight, asked>>
            BY <1>1, Zenon DEF ClaimDispatchOwner, Goes
        <2>2. /\ StageWrites /\ S' \in [DOMAIN S' -> StageRecord]
              /\ S'[stage].owner
              /\ S'[stage].outcome = S[stage].outcome
              /\ S'[stage].resolution = S[stage].resolution
            BY <1>0, <2>1, OwnerWritten, Zenon
        <2>3. asked[stage] = 0
            BY <1>0, Zenon DEF Inv, StageInv, StagesTyped
        <2>4. CallInv'
            BY <1>0, <2>1, <2>2, <2>3, Zenon
               DEF Inv, CallInv, AtStage, Recorded, StageWrites
        <2>5. /\ \A s \in DOMAIN S :
                    s = stage /\ EffectiveOutcome(s)' \in Success => Shows(s)
              /\ S'[stage].resolution # "none" => S'[stage].outcome = "ambiguous"
            BY <1>0, <2>2, Zenon DEF Inv, EffectInv, EffectiveOutcome
        <2> QED
            BY <1>0, <2>1, <2>2, <2>4, <2>5, StageStep, Zenon
    <1>2. CASE ~StageAuthority(stage)
        <2>1. OnlyJournal /\ J' = J /\ pc' = "idle" /\ stage' = "none"
            BY <1>2, Zenon DEF ClaimDispatchOwner, OnlyJournal, Returns
        <2> QED
            BY <2>1, RecordsNothing, EndsStep, Zenon
    <1> QED
        BY <1>1, <1>2, Zenon

(* The receipt records what the service answered, or that the answer is unknown. *)
LEMMA ReceiptStep ==
    ASSUME ConstantsOK, Inv, RecordMutationReceipt
    PROVE  Inv' /\ Refines
    <1>0. stage \in DOMAIN S /\ stage \in StageNames /\ work \in Outcomes
        BY Zenon DEF RecordMutationReceipt, Inv, CallInv, AtStage, Recorded
    <1>1. StampOf(stage) \in Nat
        BY DEF StampOf, Inv, WorldTypeOK, ConstantsOK
    <1>2. /\ S' = [S EXCEPT ![stage].outcome = work, ![stage].at = StampOf(stage)]
          /\ pc' \in {"recover", "settled"} /\ stage' = stage
          /\ pc' = "recover" => work = "ambiguous"
          /\ UNCHANGED <<worldVars, J, inflight, asked>>
        BY Zenon DEF RecordMutationReceipt, Goes
    <1>3. /\ StageWrites /\ S' \in [DOMAIN S' -> StageRecord]
          /\ S'[stage].outcome = work
          /\ S'[stage].resolution = S[stage].resolution
        BY <1>0, <1>1, <1>2, ReceiptWritten, Zenon
    <1>4. CallInv'
        BY <1>0, <1>2, <1>3, Zenon DEF Inv, CallInv, AtStage, Recorded, StageWrites
    <1>5. S'[stage].resolution = "none"
        BY <1>0, <1>3, Zenon DEF RecordMutationReceipt, Inv, CallInv, EffectInv
    <1>6. ASSUME NEW s \in DOMAIN S, s = stage, EffectiveOutcome(s)' \in Success
          PROVE  Shows(s)
        <2>1. work \in Success
            BY <1>3, <1>6, <1>5, Zenon DEF EffectiveOutcome, Success
        <2> QED
            BY <1>6, <2>1, Zenon DEF Inv, EffectInv, RecordMutationReceipt
    <1> QED
        BY <1>0, <1>2, <1>3, <1>4, <1>6, <1>5, StageStep, Zenon

(* Recovery reads receipts and fences, and never sends (_recover_locked). *)
LEMMA RecoverStep ==
    ASSUME ConstantsOK, Inv, Recover
    PROVE  Inv' /\ Refines
    <1>0. stage \in DOMAIN S /\ stage \in StageNames
          /\ S[stage].outcome \in {"none", "ambiguous"}
        BY Zenon DEF Recover, Inv, CallInv, AtStage, Recorded
    <1>1. StampOf(stage) \in Nat
        BY DEF StampOf, Inv, WorldTypeOK, ConstantsOK
    <1>2. /\ pc' \in {"observe", "settled"} /\ stage' = stage
          /\ UNCHANGED <<worldVars, J, inflight, asked>>
        BY Zenon DEF Recover, Goes
    <1>3. /\ StageWrites /\ S' \in [DOMAIN S' -> StageRecord]
          /\ S'[stage].outcome = "ambiguous"
          /\ S'[stage].resolution = S[stage].resolution
        <2>1. CASE S[stage].outcome = "none"
            <3>1. S' = [S EXCEPT ![stage].outcome = "ambiguous", ![stage].at = StampOf(stage)]
                BY <2>1, Zenon DEF Recover
            <3>2. "ambiguous" \in Outcomes
                BY Zenon DEF Outcomes
            <3> QED
                BY <1>0, <1>1, <1>2, <3>1, <3>2, ReceiptWritten, Zenon
        <2>2. CASE S[stage].outcome = "ambiguous"
            BY <1>0, <1>2, <2>2, Zenon DEF Recover, StageWrites, Inv, StagesTyped
        <2> QED
            BY <1>0, <2>1, <2>2, Zenon
    <1>4. CallInv'
        BY <1>0, <1>2, <1>3, Zenon DEF Inv, CallInv, AtStage, Recorded, StageWrites
    <1>5. ASSUME NEW s \in DOMAIN S, s = stage, EffectiveOutcome(s)' \in Success
          PROVE  Shows(s)
        <2>1. EffectiveOutcome(s) \in Success
            BY <1>0, <1>3, <1>5, Zenon DEF EffectiveOutcome, Inv, EffectInv, Success
        <2> QED
            BY <2>1, Zenon DEF Inv, EffectInv
    <1> QED
        BY <1>0, <1>2, <1>3, <1>4, <1>5, StageStep, Zenon

(* A resolution says applied only of a stage whose effect was seen.        *)
LEMMA LandedShows ==
    ASSUME NEW s \in StageNames, Landed(s)
    PROVE  Shows(s)
    <1>1. CASE s = "pull_request_open"
        BY <1>1, Zenon DEF Landed, Shows
    <1>2. CASE s = "admission_check"
        BY <1>2, Zenon DEF Landed, Shows
    <1>3. CASE s = "merge_group_hold"
        BY <1>3, Zenon DEF Landed, Shows
    <1> QED
        BY <1>1, <1>2, <1>3, Zenon DEF Shows

(* An observation settles an ambiguous stage by what the repository shows. *)
LEMMA ObserveStep ==
    ASSUME ConstantsOK, Inv, Observe
    PROVE  Inv' /\ Refines
    <1>0. stage \in DOMAIN S /\ stage \in StageNames /\ S[stage].outcome = "ambiguous"
        BY Zenon DEF Observe, Inv, CallInv, AtStage, Recorded
    <1>1. StampOf(stage) \in Nat
        BY DEF StampOf, Inv, WorldTypeOK, ConstantsOK
    <1>2. /\ pc' = "settled" /\ stage' = stage
          /\ UNCHANGED <<worldVars, J, inflight, asked>>
        BY Zenon DEF Observe, Goes
    <1>3. CASE S' = S
        <2>1. StageWrites /\ S' \in [DOMAIN S' -> StageRecord]
            BY <1>0, <1>2, <1>3, Zenon DEF StageWrites, Inv, StagesTyped
        <2>2. CallInv'
            BY <1>0, <1>2, <1>3, Zenon DEF Inv, CallInv, AtStage, Recorded
        <2>3. /\ \A s \in DOMAIN S : EffectiveOutcome(s)' \in Success => Shows(s)
              /\ S'[stage].resolution # "none" => S'[stage].outcome = "ambiguous"
            BY <1>0, <1>3, Zenon DEF Inv, EffectInv, EffectiveOutcome
        <2> QED
            BY <1>0, <1>2, <2>1, <2>2, <2>3, StageStep, Zenon
    <1>4. CASE S' # S
        <2> DEFINE verdict == IF Landed(stage) THEN "already_applied" ELSE "not_applied"
        <2>1. S' = [S EXCEPT ![stage].resolution = verdict,
                             ![stage].resolvedAt = StampOf(stage),
                             ![stage].resolvedBy = "stage observation"]
            BY <1>4, Zenon DEF Observe
        <2>2. /\ verdict \in {"already_applied", "not_applied"}
              /\ verdict \in Success => Shows(stage)
            BY <1>0, LandedShows, Zenon DEF Success
        <2> HIDE DEF verdict
        <2>3. /\ StageWrites /\ S' \in [DOMAIN S' -> StageRecord]
              /\ S'[stage].outcome = S[stage].outcome
              /\ S'[stage].resolution = verdict
            BY <1>0, <1>1, <1>2, <2>1, <2>2, ResolutionWritten, Zenon
        <2>4. CallInv'
            BY <1>0, <1>2, <2>3, Zenon DEF Inv, CallInv, AtStage, Recorded, StageWrites
        <2>5. ASSUME NEW s \in DOMAIN S, s = stage, EffectiveOutcome(s)' \in Success
              PROVE  Shows(s)
            BY <1>0, <2>2, <2>3, <2>5, Zenon DEF EffectiveOutcome
        <2> QED
            BY <1>0, <1>2, <2>3, <2>4, <2>5, StageStep, Zenon
    <1> QED
        BY <1>3, <1>4, Zenon

-----------------------------------------------------------------------------
(* The mutation boundary.                                                  *)

(* What a request that lands changes: a check on the merge group appears   *)
(* once, and only the release makes it succeed.                            *)
LEMMA LandsEffect ==
    ASSUME ConstantsOK, Inv, NEW s \in StageNames, s \in DOMAIN S, Lands(s)
    PROVE  /\ UNCHANGED <<clock, main, epoch, checks, seen>>
           /\ pr' = pr \/ (pr = "absent" /\ pr' = "open")
           /\ ref' \in {"absent", "exact"}
           /\ admission' = admission \/ admission' \in CheckRuns
           /\ entry' \in 0..MaxGeneration /\ generations' \in 0..MaxGeneration
           /\ \/ s \notin {"merge_group_hold", "release_transition"} /\ hold' = hold
              \/ /\ s = "merge_group_hold" /\ hold = NoRecord
                 /\ hold' = [at |-> clock, gen |-> S[s].gen, status |-> "pending"]
              \/ /\ s = "release_transition" /\ hold # NoRecord
                 /\ hold' \in CheckRuns /\ hold'.gen = hold.gen
                 /\ hold'.status = "success"
    <1>0. WorldTypeOK /\ clock \in 0..MaxClock
        BY Zenon DEF Inv, WorldTypeOK
    <1>1. UNCHANGED <<clock, main, epoch, checks, seen>>
        BY Zenon DEF Lands
    <1>2. pr' = pr \/ (pr = "absent" /\ pr' = "open")
        <2>1. CASE s = "pull_request_open"
            <3>1. ~(pr # "absent")
                BY <2>1, Zenon DEF Lands, Landed
            <3> QED
                BY <2>1, <3>1, Zenon DEF Lands
        <2>2. CASE s # "pull_request_open"
            BY <2>2, Zenon DEF Lands
        <2> QED
            BY <2>1, <2>2, Zenon
    <1>3. ref' \in {"absent", "exact"}
        BY <1>0, Zenon DEF Lands, WorldTypeOK
    <1>4. admission' = admission \/ admission' \in CheckRuns
        BY <1>0 DEF Lands, CheckRuns, ConstantsOK
    <1>5. entry' \in 0..MaxGeneration /\ generations' \in 0..MaxGeneration
        <2>1. CASE s = "queue_enqueue"
            <3>1. generations < MaxGeneration
                BY <2>1, Zenon DEF Lands, CanLand
            <3> QED
                BY <1>0, <2>1, <3>1 DEF Lands, WorldTypeOK, ConstantsOK
        <2>2. CASE s # "queue_enqueue"
            BY <1>0, <2>2, Zenon DEF Lands, WorldTypeOK
        <2> QED
            BY <2>1, <2>2, Zenon
    <1>6. CASE s = "merge_group_hold"
        <2>1. ~(hold # NoRecord /\ hold.gen = S[s].gen)
            BY <1>6, Zenon DEF Lands, Landed
        <2>2. hold = NoRecord
            BY <1>6, <2>1, Zenon DEF Inv, HostedInv
        <2>3. hold' = [at |-> clock, gen |-> S[s].gen, status |-> "pending"]
            BY <1>6, Zenon DEF Lands
        <2> QED
            BY <1>1, <1>2, <1>3, <1>4, <1>5, <1>6, <2>2, <2>3, Zenon
    <1>7. CASE s = "release_transition"
        <2>1. hold # NoRecord
            BY <1>7, Zenon DEF Lands, CanLand
        <2>2. PICK h \in CheckRuns : h = hold
            BY <1>0, <2>1, Zenon DEF WorldTypeOK
        <2>3. hold' = [h EXCEPT !.status = "success"]
            BY <1>7, <2>2, Zenon DEF Lands
        <2>4. hold' \in CheckRuns /\ hold'.gen = h.gen /\ hold'.status = "success"
            BY <2>3, Zenon DEF CheckRuns
        <2> QED
            BY <1>1, <1>2, <1>3, <1>4, <1>5, <1>7, <2>1, <2>2, <2>4, Zenon
    <1>8. CASE s \notin {"merge_group_hold", "release_transition"}
        <2>1. hold' = hold
            BY <1>8, Zenon DEF Lands
        <2> QED
            BY <1>1, <1>2, <1>3, <1>4, <1>5, <1>8, <2>1, Zenon
    <1> QED
        BY <1>6, <1>7, <1>8, Zenon

(* A landing request keeps what is said of the repository, provided that   *)
(* it was asked for, and shows.                                            *)
LEMMA LandsKeeps ==
    ASSUME ConstantsOK, Inv, NEW s \in StageNames, s \in DOMAIN S, Lands(s),
           UNCHANGED <<J, S>>, asked' \in [StageNames -> {0, 1}],
           \A r \in StageNames : asked[r] = 1 => asked'[r] = 1, asked'[s] = 1
    PROVE  /\ WorldTypeOK' /\ JournalInv' /\ HostedInv'
           /\ \A r \in StageNames : Shows(r) => Shows(r)'
           /\ Shows(s)'
           /\ pr # "absent" => pr' # "absent"
           /\ admission # NoRecord => admission' # NoRecord
           /\ hold # NoRecord => hold' # NoRecord
           /\ main' = main
           /\ pr' = "merged" <=> pr = "merged"
           /\ pr = "merged" => hold'.gen = hold.gen
    <1>1. /\ UNCHANGED <<clock, main, epoch, checks, seen>>
          /\ pr' = pr \/ (pr = "absent" /\ pr' = "open")
          /\ ref' \in {"absent", "exact"}
          /\ admission' = admission \/ admission' \in CheckRuns
          /\ entry' \in 0..MaxGeneration /\ generations' \in 0..MaxGeneration
        BY LandsEffect, Zenon
    <1>2. \/ s \notin {"merge_group_hold", "release_transition"} /\ hold' = hold
          \/ /\ s = "merge_group_hold" /\ hold = NoRecord
             /\ hold' = [at |-> clock, gen |-> S[s].gen, status |-> "pending"]
          \/ /\ s = "release_transition" /\ hold # NoRecord
             /\ hold' \in CheckRuns /\ hold'.gen = hold.gen
             /\ hold'.status = "success"
        BY LandsEffect, Zenon
    <1>3. s = "merge_group_hold" => hold' \in CheckRuns /\ hold'.gen = S[s].gen
                                    /\ hold'.status = "pending"
        <2>1. S[s].gen \in 0..MaxGeneration /\ clock \in 0..MaxClock
            BY Zenon DEF Inv, StagesTyped, StageRecord, WorldTypeOK
        <2> QED
            BY <1>2, <2>1 DEF CheckRuns
    <1>4. WorldTypeOK'
        BY <1>1, <1>2, <1>3, Zenon DEF Inv, WorldTypeOK
    <1>5. JournalInv'
        BY <1>1, JournalKept DEF Inv, WorldTypeOK
    <1>6. hold # NoRecord => hold' # NoRecord /\ hold'.gen = hold.gen
                             /\ (hold.status = "success" => hold'.status = "success")
        BY <1>2, Zenon DEF ConstantsOK
    <1>7. HostedInv'
        <2>1. hold' # NoRecord => "merge_group_hold" \in DOMAIN S
                                  /\ hold'.gen = S["merge_group_hold"].gen
            BY <1>2, <1>3, Zenon DEF Inv, HostedInv
        <2>2. hold' # NoRecord /\ hold'.status = "success"
                => asked'["release_transition"] = 1
            BY <1>2, <1>3, Zenon DEF Inv, HostedInv, StageNames
        <2> QED
            BY <1>1, <1>6, <2>1, <2>2, Zenon DEF Inv, HostedInv
    <1>8. Shows(s)'
        <2>1. s = "pull_request_open" => pr' # "absent"
            BY Zenon DEF Lands
        <2>2. s = "admission_check" => admission' \in CheckRuns
            BY DEF Lands, CheckRuns, Inv, WorldTypeOK, ConstantsOK
        <2> QED
            BY <1>3, <2>1, <2>2, Zenon DEF Shows, ConstantsOK
    <1>9. /\ pr # "absent" => pr' # "absent"
          /\ admission # NoRecord => admission' # NoRecord
        BY <1>1, Zenon DEF ConstantsOK
    <1> QED
        BY <1>1, <1>4, <1>5, <1>6, <1>7, <1>8, <1>9, Zenon DEF Shows, Inv, HostedInv

(* The request is sent once: by the call that created the owner marker.    *)
LEMMA SendStep ==
    ASSUME ConstantsOK, Inv, Send
    PROVE  Inv' /\ Refines
    <1>0. /\ stage \in DOMAIN S /\ stage \in StageNames
          /\ S[stage].owner /\ S[stage].outcome = "none" /\ asked[stage] = 0
        BY Zenon DEF Send, Inv, CallInv, AtStage, Recorded
    <1>1. CASE ~StageAuthority(stage)
        <2>1. OnlyJournal /\ J' = J /\ pc' = "idle" /\ stage' = "none"
            BY <1>1, Zenon DEF Send, OnlyJournal, Returns
        <2> QED
            BY <2>1, RecordsNothing, EndsStep, Zenon
    <1>2. CASE StageAuthority(stage)
        <2>1. /\ UNCHANGED <<J, S, stage>> /\ pc' = "receipt"
              /\ asked' = [asked EXCEPT ![stage] = asked[stage] + 1]
            BY <1>2, Zenon DEF Send, Goes
        <2>2. \/ Lands(stage) /\ work' \in {"applied", "ambiguous"} /\ inflight' = inflight
              \/ /\ UNCHANGED worldVars
                 /\ work' \in {"already_applied", "rejected", "ambiguous"}
                 /\ work' = "already_applied" => Landed(stage)
                 /\ inflight' \in {inflight, inflight \cup {stage}}
            BY <1>2, Zenon DEF Send
        <2>3. /\ asked' \in [StageNames -> {0, 1}] /\ asked'[stage] = 1
              /\ \A r \in StageNames : r # stage => asked'[r] = asked[r]
            BY <1>0, <2>1 DEF Inv, StagesTyped
        <2>4. /\ WorldTypeOK' /\ JournalInv' /\ HostedInv'
              /\ \A r \in StageNames : Shows(r) => Shows(r)'
              /\ work' \in Success => Shows(stage)'
              /\ pr # "absent" => pr' # "absent"
              /\ admission # NoRecord => admission' # NoRecord
              /\ hold # NoRecord => hold' # NoRecord
              /\ main' = main
              /\ pr' = "merged" <=> pr = "merged"
              /\ pr = "merged" => hold'.gen = hold.gen
            <3>1. CASE Lands(stage)
                <4>1. \A r \in StageNames : asked[r] = 1 => asked'[r] = 1
                    BY <1>0, <2>3, Zenon
                <4>2. PICK s \in StageNames : s = stage
                    BY <1>0, Zenon
                <4>3. /\ WorldTypeOK' /\ JournalInv' /\ HostedInv'
                      /\ \A r \in StageNames : Shows(r) => Shows(r)'
                      /\ Shows(s)'
                      /\ pr # "absent" => pr' # "absent"
                      /\ admission # NoRecord => admission' # NoRecord
                      /\ hold # NoRecord => hold' # NoRecord
                      /\ main' = main
                      /\ pr' = "merged" <=> pr = "merged"
                      /\ pr = "merged" => hold'.gen = hold.gen
                    BY <1>0, <2>1, <2>3, <3>1, <4>1, <4>2, LandsKeeps, Zenon
                <4> QED
                    BY <2>1, <4>2, <4>3, Zenon
            <3>2. CASE UNCHANGED worldVars /\ (work' \in Success => Landed(stage))
                <4>1. UNCHANGED <<main, pr, hold, admission, clock>>
                    BY <3>2, Zenon DEF worldVars, hosted
                <4>2. WorldTypeOK'
                    BY <3>2, Zenon DEF Inv, WorldTypeOK, worldVars, hosted
                <4>3. JournalInv'
                    BY <2>1, <4>1, JournalKept, SMTT(30) DEF Inv, WorldTypeOK
                <4>4. HostedInv'
                    BY <1>0, <2>1, <2>3, <4>1, Zenon DEF Inv, HostedInv, StageNames
                <4>5. \A r \in StageNames : Shows(r) => Shows(r)'
                    BY <4>1, Zenon DEF Shows
                <4>6. work' \in Success => Shows(stage)'
                    <5>1. work' \in Success => Shows(stage)
                        BY <1>0, <3>2, LandedShows, Zenon
                    <5> QED
                        BY <2>1, <4>1, <5>1, Zenon DEF Shows
                <4> QED
                    BY <4>1, <4>2, <4>3, <4>4, <4>5, <4>6, Zenon
            <3> QED
                BY <2>2, <3>1, <3>2, Zenon DEF Success
        <2>5. StagesTyped'
            BY <1>0, <2>1, <2>2, <2>3, Zenon DEF Inv, StagesTyped
        <2>6. CallInv'
            <3>1. work' \in Outcomes
                BY <2>2, Zenon DEF Outcomes
            <3> QED
                BY <1>0, <2>1, <2>3, <3>1, Zenon DEF Inv, CallInv, AtStage, Recorded
        <2>7. StageInv'
            BY <1>0, <2>1, <2>2, <2>3, Zenon DEF Inv, StageInv, StagesTyped
        <2>8. EffectInv'
            <3>1. \A s \in DOMAIN S' : EffectiveOutcome(s)' \in Success => Shows(s)'
                BY <2>1, <2>4, Zenon DEF Inv, EffectInv, EffectiveOutcome, StagesTyped
            <3> QED
                BY <2>1, <2>4, <3>1, Zenon DEF Inv, EffectInv
        <2>9. Refines
            <3>1. CASE stage # "release_transition"
                <4>1. asked'["release_transition"] = asked["release_transition"]
                    BY <2>3, <3>1, Zenon DEF StageNames
                <4> QED
                    BY <2>1, <2>4, <4>1, Zenon DEF Refines, Promise!vars, Durable
            <3>2. CASE stage = "release_transition"
                <4>1. "claim" \in DOMAIN J /\ J["claim"].authorization.hold.gen # 0
                    BY <1>2, <3>2, SMTT(30) DEF StageAuthority, Durable, Inv, JournalInv, ClaimInv,
                                      AuthorizationInv, HoldInv, QueueInv
                <4>2. Promise!Request
                    BY <1>0, <2>1, <2>3, <2>4, <3>2, <4>1 DEF Promise!Request, Durable
                <4> QED
                    BY <4>2, Zenon DEF Refines, Promise!Next
            <3> QED
                BY <3>1, <3>2, Zenon
        <2> QED
            BY <2>4, <2>5, <2>6, <2>7, <2>8, <2>9, Zenon DEF Inv
    <1> QED
        BY <1>1, <1>2, Zenon

(* A request that arrives late was sent.                                   *)
LEMMA ArrivesStep ==
    ASSUME ConstantsOK, Inv, NEW s \in StageNames, ArrivesLate(s)
    PROVE  Inv' /\ Refines
    <1>1. /\ s \in DOMAIN S /\ asked[s] = 1
          /\ UNCHANGED <<J, S, asked, pc, stage, work>>
          /\ inflight' = inflight \ {s}
        BY Zenon DEF ArrivesLate, callVars, Inv, StageInv
    <1>2. asked \in [StageNames -> {0, 1}]
        BY Zenon DEF Inv, StagesTyped
    <1>3. /\ WorldTypeOK' /\ JournalInv' /\ HostedInv'
          /\ \A r \in StageNames : Shows(r) => Shows(r)'
          /\ pr # "absent" => pr' # "absent"
          /\ admission # NoRecord => admission' # NoRecord
          /\ hold # NoRecord => hold' # NoRecord
          /\ main' = main
          /\ pr' = "merged" <=> pr = "merged"
          /\ pr = "merged" => hold'.gen = hold.gen
        BY <1>1, <1>2, LandsKeeps, Zenon DEF ArrivesLate
    <1>4. StagesTyped'
        BY <1>1, Zenon DEF Inv, StagesTyped
    <1>5. CallInv'
        BY <1>1, Zenon DEF Inv, CallInv
    <1>6. StageInv'
        BY <1>1, Zenon DEF Inv, StageInv
    <1>7. EffectInv'
        <2>1. \A r \in DOMAIN S' : EffectiveOutcome(r)' \in Success => Shows(r)'
            BY <1>1, <1>3, Zenon DEF Inv, EffectInv, EffectiveOutcome, StagesTyped
        <2>2. pc' = "receipt" /\ work' \in Success => Shows(stage)'
            <3> SUFFICES ASSUME pc' = "receipt", work' \in Success PROVE Shows(stage)'
                BY Zenon
            <3>1. Shows(stage)
                BY <1>1, Zenon DEF Inv, EffectInv
            <3>2. /\ stage = "pull_request_open" => pr' # "absent"
                  /\ stage = "admission_check" => admission' # NoRecord
                  /\ stage = "merge_group_hold" => hold' # NoRecord
                BY <1>3, <3>1, Zenon DEF Shows
            <3> QED
                BY <1>1, <3>2, Zenon DEF Shows
        <2> QED
            BY <1>1, <1>3, <2>1, <2>2, Zenon DEF Inv, EffectInv
    <1>8. Refines
        BY <1>1, <1>3, Zenon DEF Refines, Promise!vars, Durable
    <1> QED
        BY <1>3, <1>4, <1>5, <1>6, <1>7, <1>8, Zenon DEF Inv

-----------------------------------------------------------------------------
(* The service, its other users, and a stop of the process.                *)

(* A step of the repository leaves the durable records and the call alone. *)
LEMMA HostedStep ==
    ASSUME ConstantsOK, Inv, UNCHANGED <<J, S, inflight, asked, callVars>>,
           WorldTypeOK', clock <= clock', HostedInv',
           pr # "absent" => pr' # "absent", UNCHANGED <<admission, hold>>
    PROVE  Inv'
    <1>1. StagesTyped' /\ CallInv' /\ StageInv'
        BY Zenon DEF Inv, StagesTyped, CallInv, StageInv, callVars
    <1>2. JournalInv'
        BY JournalKept DEF Inv, WorldTypeOK
    <1>3. EffectInv'
        BY Zenon DEF Inv, EffectInv, EffectiveOutcome, Shows, callVars
    <1> QED
        BY <1>1, <1>2, <1>3, Zenon DEF Inv

(* Time passes. *)
LEMMA TickStep ==
    ASSUME ConstantsOK, Inv, Tick, UNCHANGED <<J, S, inflight, asked, callVars>>
    PROVE  Inv' /\ Refines
    <1>1. UNCHANGED <<main, pr, hold, admission>>
        BY Zenon DEF Tick, hosted
    <1>2. WorldTypeOK' /\ clock <= clock'
        BY DEF Tick, hosted, Inv, WorldTypeOK, ConstantsOK
    <1>3. HostedInv'
        BY <1>1, Zenon DEF Inv, HostedInv
    <1> QED
        BY <1>1, <1>2, <1>3, HostedStep, QuietStep, Zenon

(* An administrator changes the protection of main. *)
LEMMA ChangeProtectionStep ==
    ASSUME ConstantsOK, Inv, ChangeProtection, UNCHANGED <<J, S, inflight, asked, callVars>>
    PROVE  Inv' /\ Refines
    <1>1. WorldTypeOK' /\ clock <= clock'
        BY DEF ChangeProtection, Inv, WorldTypeOK, ConstantsOK
    <1>2. HostedInv'
        BY Zenon DEF ChangeProtection, Inv, HostedInv
    <1> QED
        BY <1>1, <1>2, HostedStep, QuietStep, Zenon DEF ChangeProtection

(* Another user pushes to main: a step of others in the promise. *)
LEMMA AdvanceMainStep ==
    ASSUME ConstantsOK, Inv, AdvanceMain, UNCHANGED <<J, S, inflight, asked, callVars>>
    PROVE  Inv' /\ Refines
    <1>1. WorldTypeOK' /\ clock <= clock'
        BY DEF AdvanceMain, Inv, WorldTypeOK, ConstantsOK
    <1>2. HostedInv'
        BY Zenon DEF AdvanceMain, Inv, HostedInv
    <1>3. Promise!Foreign
        BY Zenon DEF AdvanceMain, Promise!Foreign, Durable
    <1> QED
        BY <1>1, <1>2, <1>3, HostedStep, Zenon DEF AdvanceMain, Refines, Promise!Next

(* The queue rebuilds its entry under a new generation. *)
LEMMA RebuildEntryStep ==
    ASSUME ConstantsOK, Inv, RebuildEntry, UNCHANGED <<J, S, inflight, asked, callVars>>
    PROVE  Inv' /\ Refines
    <1>1. WorldTypeOK' /\ clock <= clock'
        BY DEF RebuildEntry, Inv, WorldTypeOK, ConstantsOK
    <1>2. HostedInv'
        BY Zenon DEF RebuildEntry, Inv, HostedInv
    <1> QED
        BY <1>1, <1>2, HostedStep, QuietStep, Zenon DEF RebuildEntry

(* The validation workflow reports on the group. *)
LEMMA ValidateGroupStep ==
    ASSUME ConstantsOK, Inv, ValidateGroup, UNCHANGED <<J, S, inflight, asked, callVars>>
    PROVE  Inv' /\ Refines
    <1>1. WorldTypeOK' /\ clock <= clock'
        BY SMTT(30) DEF ValidateGroup, Inv, WorldTypeOK, CheckRuns, ConstantsOK
    <1>2. HostedInv'
        BY Zenon DEF ValidateGroup, Inv, HostedInv
    <1> QED
        BY <1>1, <1>2, HostedStep, QuietStep, Zenon DEF ValidateGroup

(* The queue merges the one group the claim names, after the one request.  *)
LEMMA MergeGroupStep ==
    ASSUME ConstantsOK, Inv, MergeGroup, UNCHANGED <<J, S, inflight, asked, callVars>>
    PROVE  Inv' /\ Refines
    <1>1. WorldTypeOK' /\ clock <= clock'
        BY DEF MergeGroup, Inv, WorldTypeOK, ConstantsOK
    <1>2. HostedInv'
        BY Zenon DEF MergeGroup, Inv, HostedInv
    <1>3. asked["release_transition"] = 1 /\ pr # "merged"
        BY Zenon DEF MergeGroup, Inv, HostedInv
    <1>4. /\ "release_transition" \in DOMAIN S /\ "claim" \in DOMAIN J
          /\ "merge_group_hold" \in DOMAIN S
        BY <1>3, Zenon DEF MergeGroup, Inv, HostedInv, StageInv, StageNames
    <1>5. hold.gen = J["claim"].authorization.hold.gen
        BY <1>4, Zenon DEF MergeGroup, Inv, HostedInv, StageInv, TimedStages, JournalInv,
                    ClaimInv, AuthorizationInv, HoldInv
    <1>6. Promise!Merge
        BY <1>3, <1>4, <1>5, Zenon DEF MergeGroup, Promise!Merge, Durable
    <1> QED
        BY <1>1, <1>2, <1>6, HostedStep, Zenon DEF MergeGroup, Refines, Promise!Next

(* The coordinator reads the delivery of the group: nothing durable changes. *)
LEMMA GroupObservationStep ==
    ASSUME ConstantsOK, Inv, GroupObservation
    PROVE  Inv' /\ Refines
    <1>0. /\ UNCHANGED <<clock, hosted, J, S, inflight, asked>>
          /\ UNCHANGED <<main, pr, hold, admission>>
        BY Zenon DEF GroupObservation, hosted
    <1>1. seen' = seen \/ (seen' = seen \cup {entry} /\ MergeGroupReadable(J["queue"]))
        BY Zenon DEF GroupObservation
    <1>2. MergeGroupReadable(J["queue"]) => entry > 0
        BY Zenon DEF MergeGroupReadable, QueueReadable
    <1>3. seen' \subseteq 1..MaxGeneration
        <2>1. seen \subseteq 1..MaxGeneration /\ entry \in 0..MaxGeneration
            BY Zenon DEF Inv, WorldTypeOK
        <2>2. entry > 0 => entry \in 1..MaxGeneration
            BY <2>1 DEF ConstantsOK
        <2> QED
            BY <1>1, <1>2, <2>1, <2>2, Zenon
    <1>4. WorldTypeOK'
        BY <1>0, <1>3, Zenon DEF Inv, WorldTypeOK, hosted
    <1>5. \/ pc' = "webhook" /\ stage' = stage
          \/ pc' = "idle" /\ stage' = "none"
        BY Zenon DEF GroupObservation, Goes, Returns
    <1>6. CallInv' /\ pc' \notin Recorded
        BY <1>0, <1>5, Zenon DEF GroupObservation, Inv, CallInv, AtStage, Recorded, TimedStages
    <1>7. StagesTyped' /\ StageInv'
        BY <1>0, Zenon DEF Inv, StagesTyped, StageInv
    <1>8. JournalInv'
        BY <1>0, JournalKept DEF Inv, WorldTypeOK
    <1>9. HostedInv'
        BY <1>0, Zenon DEF Inv, HostedInv
    <1>10. EffectInv'
        BY <1>0, <1>6, Zenon DEF Inv, EffectInv, EffectiveOutcome, Shows, Recorded
    <1> QED
        BY <1>0, <1>4, <1>6, <1>7, <1>8, <1>9, <1>10, QuietStep, Zenon DEF Inv

(* A stop loses the call and the deliveries seen, and nothing durable.     *)
LEMMA CrashStep ==
    ASSUME ConstantsOK, Inv, Crash
    PROVE  Inv' /\ Refines
    <1>0. /\ UNCHANGED <<clock, hosted, J, S, inflight, asked>>
          /\ UNCHANGED <<main, pr, hold, admission>>
        BY Zenon DEF Crash, hosted
    <1>1. WorldTypeOK'
        BY <1>0, Zenon DEF Crash, Inv, WorldTypeOK, hosted
    <1>2. CallInv' /\ pc' \notin Recorded
        BY Zenon DEF Crash, CallInv, AtStage, Recorded, TimedStages
    <1>3. StagesTyped' /\ StageInv'
        BY <1>0, Zenon DEF Inv, StagesTyped, StageInv
    <1>4. JournalInv'
        BY <1>0, JournalKept DEF Inv, WorldTypeOK
    <1>5. HostedInv'
        BY <1>0, Zenon DEF Inv, HostedInv
    <1>6. EffectInv'
        BY <1>0, <1>2, Zenon DEF Inv, EffectInv, EffectiveOutcome, Shows, Recorded
    <1> QED
        BY <1>0, <1>1, <1>2, <1>3, <1>4, <1>5, <1>6, QuietStep, Zenon DEF Inv

-----------------------------------------------------------------------------
(* The theorems.                                                           *)

(* The invariant holds initially, and the promise begins with it.          *)
LEMMA InitInv ==
    ASSUME ConstantsOK, Init
    PROVE  Inv /\ Promise!Init
    <1>1. WorldTypeOK
        BY DEF Init, WorldInit, WorldTypeOK, ConstantsOK
    <1>2. DOMAIN J = {} /\ DOMAIN S = {} /\ S \in [DOMAIN S -> StageRecord]
        BY DEF Init
    <1>3. StagesTyped
        BY <1>2, Zenon DEF Init, StagesTyped
    <1>4. CallInv
        BY Zenon DEF Init, CallInv, AtStage, Recorded, TimedStages
    <1>5. StageInv
        BY <1>2 DEF Init, StageInv, StageNames
    <1>6. JournalInv
        BY <1>2, Zenon DEF JournalInv, PlanInv, QueueInv, AdmissionInv, HoldInv, AuthorizationInv,
                    ClaimInv, ClosureInv
    <1>7. HostedInv
        BY <1>2, Zenon DEF Init, WorldInit, HostedInv
    <1>8. EffectInv
        BY <1>2, Zenon DEF Init, EffectInv
    <1>9. Promise!Init
        BY <1>2, Zenon DEF Init, WorldInit, Promise!Init, Durable, StageNames
    <1> QED
        BY <1>1, <1>3, <1>4, <1>5, <1>6, <1>7, <1>8, <1>9, Zenon DEF Inv

(* Every step of a graduation keeps the invariant and is a step of the     *)
(* promise or none.                                                        *)
LEMMA NextInv ==
    ASSUME ConstantsOK, Inv, [Next]_vars
    PROVE  Inv' /\ Refines
    <1>1. CASE Operator
        BY <1>1, OperatorRecordsStep, PrepareStep, CompleteStep, Zenon DEF Operator
    <1>2. CASE Coordinator
        BY <1>2, PreflightStep, DurableQueuedStep, ResolvePrStep, AdmitStep,
           ObserveQueuedStep, RunStageStep, OwnStep, SendStep, ReceiptStep, RecoverStep,
           ObserveStep, SettledStep, GroupObservationStep, WebhookStep, GroupChecksStep,
           HoldStep, AuthorizationStep, ClaimStep, TransitionStep, ClaimedStep,
           PostStateReadStep, ReconciliationStep, PostStateStep, CompletionStep, Zenon
           DEF Coordinator
    <1>3. CASE Hosted
        BY <1>3, TickStep, ChangeProtectionStep, AdvanceMainStep, RebuildEntryStep,
           ValidateGroupStep, MergeGroupStep, Zenon DEF Hosted, Service
    <1>4. CASE Crash
        BY <1>4, CrashStep, Zenon
    <1>5. CASE \E s \in StageNames : ArrivesLate(s)
        BY <1>5, ArrivesStep, Zenon
    <1>6. CASE UNCHANGED vars
        <2>1. OnlyJournal /\ J' = J /\ UNCHANGED <<pc, stage, work>>
            BY <1>6, Zenon DEF vars, callVars, OnlyJournal
        <2>2. UNCHANGED <<worldVars, main, pr, hold, admission, S, inflight, asked, clock>>
            BY <2>1, Zenon DEF OnlyJournal, worldVars, hosted
        <2>3. WorldTypeOK'
            BY <2>2, Zenon DEF Inv, WorldTypeOK, worldVars, hosted
        <2>4. StagesTyped'
            BY <2>2, Zenon DEF Inv, StagesTyped
        <2>5. CallInv'
            BY <2>1, <2>2, Zenon DEF Inv, CallInv
        <2>6. StageInv'
            BY <2>1, <2>2, Zenon DEF Inv, StageInv
        <2>7. HostedInv'
            BY <2>1, <2>2, Zenon DEF Inv, HostedInv
        <2>8. JournalInv'
            BY <2>1, <2>2, JournalKept DEF Inv, WorldTypeOK
        <2>9. EffectInv'
            BY <2>1, <2>2, Zenon DEF Inv, EffectInv, EffectiveOutcome, Shows
        <2> QED
            BY <2>1, <2>2, <2>3, <2>4, <2>5, <2>6, <2>7, <2>8, <2>9, QuietStep, Zenon DEF Inv
    <1> QED
        BY <1>1, <1>2, <1>3, <1>4, <1>5, <1>6, Zenon DEF Next

(* The invariant, of every graduation: journal, stages, call and hosted    *)
(* repository agree at every step of the coordinators.                     *)
THEOREM Invariance ==
    ASSUME ConstantsOK
    PROVE  Spec => []Inv
    <1>1. Init => Inv
        BY InitInv, Zenon
    <1>2. Inv /\ [Next]_vars => Inv'
        BY NextInv, Zenon
    <1> QED
        BY <1>1, <1>2, PTL DEF Spec

(* The graduation implements the guarded merge: the candidate reaches main *)
(* at most once, as the group its one durable claim names and after one    *)
(* release request made under that claim, and the operation is closed only *)
(* after that (both coordinators over the journal).                        *)
THEOREM ImplementsGuardedMerge ==
    ASSUME ConstantsOK
    PROVE  Spec => GuardedMergeHolds
    <1>1. Init => Promise!Init
        BY InitInv, Zenon
    <1>2. Inv /\ [Next]_vars => [Promise!Next]_(Promise!vars)
        BY NextInv, Zenon DEF Refines
    <1> QED
        BY <1>1, <1>2, Invariance, PTL DEF Spec, GuardedMergeHolds, Promise!Spec

(* No stage crosses the mutation boundary twice, across stops, lost        *)
(* answers and late arrivals (_claim_dispatch_owner, _recover_locked).     *)
THEOREM SentOnce ==
    ASSUME ConstantsOK
    PROVE  Spec => []OneRequestPerStage
    <1>1. Inv => OneRequestPerStage
        BY DEF Inv, StagesTyped, OneRequestPerStage
    <1> QED
        BY <1>1, Invariance, PTL

(* Nothing is enqueued without the admission check, and no group released  *)
(* that was not held (_intent_values, _parent_proof).                      *)
THEOREM SentInOrder ==
    ASSUME ConstantsOK
    PROVE  Spec => []StagesInOrder
    <1>1. Inv => StagesInOrder
        <2> SUFFICES ASSUME Inv PROVE StagesInOrder
            BY Zenon
        <2>1. asked["queue_enqueue"] > 0 => admission # NoRecord /\ pr # "absent"
            BY SMTT(30) DEF Inv, StagesTyped, StageInv, EffectInv, StageNames
        <2>2. asked["release_transition"] > 0 =>
                 hold # NoRecord /\ hold.gen = J["hold"].gen
            BY SMTT(30) DEF Inv, StagesTyped, StageInv, EffectInv, HostedInv, StageNames,
                   TimedStages, JournalInv, ClaimInv, AuthorizationInv, HoldInv
        <2> QED
            BY <2>1, <2>2, Zenon DEF StagesInOrder
    <1> QED
        BY <1>1, Invariance, PTL

(* A merge is the merge of the group that the durable hold, authorization  *)
(* and claim name, decided inside the authorization and the lease          *)
(* (_issue_claim, _last_moment_authority).                                 *)
THEOREM MergeWasClaimed ==
    ASSUME ConstantsOK
    PROVE  Spec => []MergedUnderClaim
    <1>1. Inv => MergedUnderClaim
        <2> SUFFICES ASSUME Inv, pr = "merged" PROVE MergedUnderClaim
            BY Zenon DEF MergedUnderClaim
        <2>1. "release_transition" \in DOMAIN S /\ "merge_group_hold" \in DOMAIN S
              /\ hold # NoRecord
            BY Zenon DEF Inv, HostedInv, StageInv, StageNames
        <2>2. {"admission", "hold", "authorization", "claim", "queue"} \subseteq DOMAIN J
            BY <2>1, Zenon DEF Inv, StageInv, JournalInv, ClaimInv, AuthorizationInv, HoldInv
        <2>3. hold.gen = J["hold"].gen
            BY <2>1, <2>2, Zenon DEF Inv, HostedInv, StageInv, TimedStages, JournalInv, HoldInv
        <2>4. /\ J["preparation"].at <= J["admission"].at
              /\ J["admission"].at <= J["hold"].at
              /\ J["hold"].at <= J["authorization"].at
              /\ J["authorization"].at <= J["claim"].at
              /\ J["authorization"].until <= J["lease"].until
            BY <2>2, Zenon DEF Inv, JournalInv, AdmissionInv, HoldInv, AuthorizationInv, ClaimInv
        <2>5. /\ J["claim"].at <= S["release_transition"].intentAt
              /\ S["release_transition"].intentAt < J["authorization"].until
            BY <2>1, Zenon DEF Inv, StageInv
        <2> QED
            BY <2>2, <2>3, <2>4, <2>5, Zenon DEF MergedUnderClaim, Durable
    <1> QED
        BY <1>1, Invariance, PTL

(* An operation is closed only over its own merge, with the candidate as   *)
(* the recorded post-state (record_completion after _post_state).          *)
THEOREM ClosedIsTrue ==
    ASSUME ConstantsOK
    PROVE  Spec => []CompletionIsTrue
    <1>1. Inv => CompletionIsTrue
        BY Zenon DEF Inv, JournalInv, ClosureInv, HostedInv, CompletionIsTrue, Durable
    <1> QED
        BY <1>1, Invariance, PTL
=============================================================================
