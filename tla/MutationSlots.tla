--------------------------- MODULE MutationSlots ---------------------------
(***************************************************************************)
(* External mutations of protected main: C4StageExecutor and the part of    *)
(* MainGraduationJournal that it stands on.  The journal is a directory of  *)
(* files that are created once.  Every target branch has one slot, a        *)
(* directory that holds the reservation of a mutation intent, the fence of  *)
(* an unresolved mutation, or both, and that is moved to the closed history *)
(* when the fence is resolved.                                              *)
(*                                                                          *)
(* Runners are controller processes that execute or recover a stage of an   *)
(* operation; any of them may stop at any step.  One action is one access   *)
(* to the slot, to a create-once index, or to the provider.  A request that *)
(* left a runner reaches the provider at any later time, or never.          *)
(***************************************************************************)
EXTENDS Naturals, FiniteSets

CONSTANTS
  Runners,      \* controller processes
  Operations,   \* operations on the one target
  NoLease,
  NoRecord,
  MaxClock,     \* bound on the clock, for model checking only
  LeaseEnds,    \* expires_at of every lease and release authorization
  MaxCrashes    \* bound on the number of stops, for model checking only

ASSUME ConstantsAssumption ==
  /\ MaxClock \in Nat
  /\ LeaseEnds \in Nat
  /\ MaxCrashes \in Nat

VARIABLES
  clock,
  crashes,
  targetLease,         \* the target-lease file: the operation it names, or NoLease
  slot,                \* target-unresolved-fence-active/<scope>
  closed,              \* target-unresolved-fence-closed: fences moved there
  identity,            \* the three identity indexes of an operation's stage
  intents,             \* mutation-intent records
  owners,              \* intents that have a mutation-dispatch-owner marker
  receiptIdentity,     \* mutation-receipt-identity, keyed by intent
  receipts,            \* mutation-receipt records
  fences,              \* unresolved-mutation-fence records
  resolutionIdentity,  \* mutation-fence-resolution-identity, keyed by fence
  resolutions,         \* mutation-fence-resolution records
  effects,             \* provider objects that exist
  inflight,            \* requests that may still reach the provider
  sent,                \* number of requests sent for each operation and stage
  pc,                  \* the step each runner is about to take
  work                 \* the runner's call: stage, intent, receipt, fence

vars == <<clock, crashes, targetLease, slot, closed, identity, intents, owners,
          receiptIdentity, receipts, fences, resolutionIdentity, resolutions,
          effects, inflight, sent, pc, work>>

target == <<targetLease, slot, closed>>
indexes == <<identity, intents, owners, receiptIdentity, receipts, fences,
             resolutionIdentity, resolutions>>
provider == <<effects, inflight, sent>>
time == <<clock, crashes>>

\* The last stage of prepare and the release stage of complete.
Stage == {"queue_enqueue", "release_transition"}

StageOf == Operations \X Stage

Index == {"stage", "operation_stage", "external_object"}

Clock == 0 .. MaxClock

\* An intent, receipt, fence or resolution is told from others by its timestamp.
Intent == [op : Operations, stage : Stage, at : Clock]

\* applied stands for already_applied too, ambiguous for reconciliation_required.
Receipt == [intent : Intent, outcome : {"applied", "rejected", "ambiguous"}, at : Clock]

Fence == [intent : Intent, at : Clock]

Resolution == [fence : Fence, outcome : {"observed", "not_applied"}, at : Clock]

Step == {"idle", "lookup", "reserve", "stage", "operation_stage",
         "external_object", "intent", "claim", "dispatch", "answer", "receipt",
         "receipt_local", "unlink", "rmdir", "recover", "open_fence", "fence",
         "fence_local", "observe", "resolution", "resolution_local", "close",
         "effective"}

\* recovering: inside recover; again: recover was called on an ambiguous result.
Work == [of : StageOf, intent : Intent \cup {NoRecord}, receipt : Receipt \cup {NoRecord},
         fence : Fence \cup {NoRecord}, resolution : Resolution \cup {NoRecord},
         recovering : BOOLEAN, again : BOOLEAN]

\* A record that is missing is not one of the records.
ASSUME NoRecordAssumption == NoRecord \notin Intent \cup Fence

FreeSlot == [dir |-> FALSE, reservation |-> NoRecord, fence |-> NoRecord]

\* Every row, file and call in flight has its type (MainGraduationJournal, the stage executor).
TypeOK ==
  /\ clock \in Clock
  /\ crashes \in 0 .. MaxCrashes
  /\ targetLease \in Operations \cup {NoLease}
  /\ slot \in [dir : BOOLEAN, reservation : Intent \cup {NoRecord},
               fence : Fence \cup {NoRecord}]
  /\ slot.dir \/ slot = FreeSlot
  /\ closed \subseteq fences
  /\ identity \in [Index -> [StageOf -> Intent \cup {NoRecord}]]
  /\ intents \subseteq Intent
  /\ owners \subseteq intents
  /\ receiptIdentity \subseteq Receipt
  /\ receipts \subseteq receiptIdentity
  /\ fences \subseteq Fence
  /\ resolutionIdentity \subseteq Resolution
  /\ resolutions \subseteq resolutionIdentity
  /\ effects \subseteq StageOf
  /\ inflight \subseteq Intent
  /\ sent \in [StageOf -> Nat]
  /\ pc \in [Runners -> Step]
  /\ DOMAIN work = Runners
  /\ \A r \in Runners : pc[r] # "idle" => work[r] \in Work

Init ==
  /\ clock = 0
  /\ crashes = 0
  /\ targetLease = NoLease
  /\ slot = FreeSlot
  /\ closed = {}
  /\ identity = [k \in Index |-> [x \in StageOf |-> NoRecord]]
  /\ intents = {}
  /\ owners = {}
  /\ receiptIdentity = {}
  /\ receipts = {}
  /\ fences = {}
  /\ resolutionIdentity = {}
  /\ resolutions = {}
  /\ effects = {}
  /\ inflight = {}
  /\ sent = [x \in StageOf |-> 0]
  /\ pc = [r \in Runners |-> "idle"]
  /\ work = [r \in Runners |-> NoRecord]
-----------------------------------------------------------------------------
Goes(r, step) ==
  /\ pc' = [pc EXCEPT ![r] = step]
  /\ UNCHANGED work

Carries(r, step, new) ==
  /\ pc' = [pc EXCEPT ![r] = step]
  /\ work' = [work EXCEPT ![r] = new]

\* The call returns, or an exception ends it as quarantined.
Returns(r) ==
  /\ pc' = [pc EXCEPT ![r] = "idle"]
  /\ work' = [work EXCEPT ![r] = NoRecord]

Op(r) == work[r].of[1]

\* _cas_global_envelope: the file is created, or must hold the same record.
CasGlobalEnvelope(old, new) == old \in {NoRecord, new}

\* _read_receipt_for_intent: at most one receipt exists for an intent.
ReadReceiptForIntent(i) == {x \in receiptIdentity : x.intent = i}

Terminal(i) == \E x \in ReadReceiptForIntent(i) : x.outcome # "ambiguous"

\* _read_fence_resolution_by_fence: read from the index, with no further checks.
ReadFenceResolutionByFence(f) == {x \in resolutionIdentity : x.fence = f}

\* _assert_target_lease: a record is readable only while the lease file names
\* its operation.
AssertTargetLease(o) == targetLease = o

\* _assert_stage_identity.
AssertStageIdentity(i) == \A k \in Index : identity[k][<<i.op, i.stage>>] = i

\* _read_phase_a of a mutation-intent raises unless this holds.
IntentReadable(i) == AssertTargetLease(i.op) /\ AssertStageIdentity(i)

\* _assert_target_fence.
AssertTargetFence(f) ==
  IF slot.dir
  THEN IF slot.fence # NoRecord THEN slot.fence = f ELSE slot.reservation # NoRecord
  ELSE f \in closed

\* _read_phase_a of an unresolved-mutation-fence raises unless this holds.
FenceReadable(f) ==
  /\ f \in fences
  /\ \E x \in receipts : x.intent = f.intent /\ x.outcome = "ambiguous"
  /\ IntentReadable(f.intent)
  /\ AssertTargetFence(f)

\* read_mutation_fence_resolution_by_intent reads the resolutions of every
\* operation on the way, and raises on the first that is not readable.
ResolutionsReadable == \A x \in resolutionIdentity : FenceReadable(x.fence)

ReadFenceResolutionByIntent(i) == {x \in resolutionIdentity : x.fence.intent = i}

\* effective_result: the receipt, or the resolution of its fence.
EffectiveOutcome(i) ==
  IF ReadFenceResolutionByIntent(i) # {}
  THEN (CHOOSE x \in ReadFenceResolutionByIntent(i) : TRUE).outcome
  ELSE (CHOOSE x \in ReadReceiptForIntent(i) : TRUE).outcome

Applied(i) ==
  /\ ReadReceiptForIntent(i) # {}
  /\ EffectiveOutcome(i) \in {"applied", "observed"}
-----------------------------------------------------------------------------
Tick ==
  /\ clock < MaxClock
  /\ clock' = clock + 1
  /\ UNCHANGED <<crashes, target, indexes, provider, pc, work>>

\* record_lease_evidence: one lease file per target, created exclusively.
RecordLease(o) ==
  /\ targetLease = NoLease
  /\ clock < LeaseEnds
  /\ targetLease' = o
  /\ UNCHANGED <<time, slot, closed, indexes, provider, pc, work>>

\* release_target_lease, called by the operator at any time.
ReleaseTargetLease(o) ==
  /\ targetLease = o
  /\ targetLease' = NoLease
  /\ UNCHANGED <<time, slot, closed, indexes, provider, pc, work>>

\* prepare and complete: complete is called on an operation that was queued.
Begin(r, o, s) ==
  /\ pc[r] = "idle"
  /\ s = "release_transition" =>
       \E i \in intents : i.op = o /\ i.stage = "queue_enqueue" /\ Applied(i)
  /\ Carries(r, "lookup",
       [of |-> <<o, s>>, intent |-> NoRecord, receipt |-> NoRecord, fence |-> NoRecord,
        resolution |-> NoRecord, recovering |-> FALSE, again |-> FALSE])
  /\ UNCHANGED <<time, target, indexes, provider>>

\* _preflight: prepare asserts the lease evidence before every stage, complete
\* only while no release intent exists.
Preflight(o, s, prior) ==
  /\ AssertTargetLease(o)
  /\ s = "queue_enqueue" \/ prior = NoRecord => clock < LeaseEnds

\* _execute_locked, up to the first write, with _check_pre_intent_expiry.  The
\* effective result of a settled stage is returned without a further write.
ExecuteLocked(i) ==
  IF ReadReceiptForIntent(i) # {} THEN "effective"
  ELSE IF i \in intents
       THEN IF i \in owners THEN "idle" ELSE "claim"
       ELSE IF clock < LeaseEnds THEN "reserve" ELSE "idle"

\* _run_stage: the durable intent of the stage is taken up again; otherwise a
\* new one is dated now.
RunStage(r) ==
  LET x     == work[r].of
      prior == identity["operation_stage"][x]
      i     == IF prior = NoRecord THEN [op |-> x[1], stage |-> x[2], at |-> clock] ELSE prior
      step  == IF i \notin intents \/ (ReadReceiptForIntent(i) = {} /\ i \notin owners)
               THEN ExecuteLocked(i)
               ELSE IF Terminal(i) THEN "idle" ELSE "recover"
  IN  /\ pc[r] = "lookup"
      /\ IF \/ ~Preflight(x[1], x[2], prior)
            \/ prior # NoRecord /\ ~AssertStageIdentity(i)
            \/ step = "idle"
         THEN Returns(r)
         ELSE Carries(r, step, [work[r] EXCEPT !.intent = i])
      /\ UNCHANGED <<time, target, indexes, provider>>

\* A failed record_mutation_intent is forgiven when a receipt exists.
RecordIntentFails(r) ==
  IF ReadReceiptForIntent(work[r].intent) # {} THEN Goes(r, "effective") ELSE Returns(r)
-----------------------------------------------------------------------------
Names(i) == slot.reservation = i \/ (slot.fence # NoRecord /\ slot.fence.intent = i)

\* _cas_target_mutation_reservation publishes into a slot that is absent or an
\* empty directory; a slot that names this intent is taken as it is.
ReserveFree(i) == slot.fence = NoRecord /\ slot.reservation = NoRecord

ReservePermitted(i) == ReserveFree(i) \/ Names(i)

Reserve(r) ==
  LET i == work[r].intent
  IN  /\ pc[r] = "reserve"
      /\ ReadReceiptForIntent(i) = {}
      /\ IF ReservePermitted(i)
         THEN /\ slot' = IF Names(i) THEN slot
                         ELSE [dir |-> TRUE, reservation |-> i, fence |-> NoRecord]
              /\ Goes(r, "stage")
         ELSE RecordIntentFails(r) /\ UNCHANGED slot
      /\ UNCHANGED <<time, targetLease, closed, indexes, provider>>

\* The intent got a receipt meanwhile.  A terminal one makes this an exact
\* replay; for an ambiguous one _repair_target_mutation_reservation demands the
\* intent's own fence, closes it when it is resolved, and otherwise puts the
\* reservation back.
RepairTargetMutationReservation(r) ==
  LET i    == work[r].intent
      Own  == /\ slot.fence # NoRecord
              /\ slot.fence.intent = i
              /\ slot.reservation \in {NoRecord, i}
              /\ FenceReadable(slot.fence)
      Past == ~slot.dir /\ \E f \in closed : f.intent = i /\ FenceReadable(f)
  IN  /\ pc[r] = "reserve"
      /\ ReadReceiptForIntent(i) # {}
      /\ IF ~Terminal(i) /\ Own
         THEN IF ReadFenceResolutionByFence(slot.fence) # {}
              THEN /\ slot' = FreeSlot
                   /\ closed' = closed \cup {slot.fence}
                   /\ Goes(r, "stage")
              ELSE /\ slot' = [slot EXCEPT !.reservation = i]
                   /\ Goes(r, "stage")
                   /\ UNCHANGED closed
         ELSE /\ IF (IF Terminal(i) THEN i \in intents ELSE Past)
                 THEN Goes(r, "stage") ELSE RecordIntentFails(r)
              /\ UNCHANGED <<slot, closed>>
      /\ UNCHANGED <<time, targetLease, indexes, provider>>

\* _cas_stage_identity, _cas_operation_stage_identity and
\* _cas_external_object_identity, in this order.
CasIdentity(r, k, next) ==
  LET i == work[r].intent
  IN  /\ pc[r] = k
      /\ IF CasGlobalEnvelope(identity[k][work[r].of], i)
         THEN identity' = [identity EXCEPT ![k][work[r].of] = i] /\ Goes(r, next)
         ELSE RecordIntentFails(r) /\ UNCHANGED identity
      /\ UNCHANGED <<time, target, intents, owners, receiptIdentity, receipts, fences,
                     resolutionIdentity, resolutions, provider>>

CasStageIdentity(r) == CasIdentity(r, "stage", "operation_stage")

CasOperationStageIdentity(r) == CasIdentity(r, "operation_stage", "external_object")

CasExternalObjectIdentity(r) == CasIdentity(r, "external_object", "intent")

\* _cas_phase_local of the intent.
RecordMutationIntent(r) ==
  /\ pc[r] = "intent"
  /\ intents' = intents \cup {work[r].intent}
  /\ Goes(r, "claim")
  /\ UNCHANGED <<time, target, identity, owners, receiptIdentity, receipts, fences,
                 resolutionIdentity, resolutions, provider>>

\* _last_moment_authority.
LastMomentAuthority(o) == AssertTargetLease(o) /\ clock < LeaseEnds

ClaimedByAnyone(i) == FALSE

\* claim_mutation_dispatch: only the creator of the marker may dispatch.
ClaimMutationDispatch(i) == i \in owners

ClaimDispatchOwner(r) ==
  LET i == work[r].intent
  IN  /\ pc[r] = "claim"
      /\ IF ~LastMomentAuthority(i.op) \/ ~IntentReadable(i) \/ ClaimMutationDispatch(i)
         THEN Returns(r) /\ UNCHANGED owners
         ELSE owners' = owners \cup {i} /\ Goes(r, "dispatch")
      /\ UNCHANGED <<time, target, identity, intents, receiptIdentity, receipts, fences,
                     resolutionIdentity, resolutions, provider>>

\* _dispatch, after the second authority check; a refusal keeps the marker.
Dispatch(r) ==
  LET i == work[r].intent
  IN  /\ pc[r] = "dispatch"
      /\ IF LastMomentAuthority(i.op)
         THEN /\ inflight' = inflight \cup {i}
              /\ sent' = [sent EXCEPT ![work[r].of] = @ + 1]
              /\ Goes(r, "answer")
         ELSE Returns(r) /\ UNCHANGED <<inflight, sent>>
      /\ UNCHANGED <<time, target, indexes, effects>>

\* A request takes effect, whether or not anyone still waits; a request that is
\* lost is one that never does.
Land(i) ==
  /\ i \in inflight
  /\ inflight' = inflight \ {i}
  /\ effects' = effects \cup {<<i.op, i.stage>>}
  /\ UNCHANGED <<time, target, indexes, sent, pc, work>>

\* _verify_result, _receipt_from_result and _receipt_from_exception.
Answer(r) ==
  LET i == work[r].intent
  IN  /\ pc[r] = "answer"
      /\ \E outcome \in {"applied", "rejected", "ambiguous"} :
           /\ outcome = "applied" => <<i.op, i.stage>> \in effects
           /\ outcome = "rejected" => i \in inflight
           /\ inflight' = IF outcome = "rejected" THEN inflight \ {i} ELSE inflight
           /\ Carries(r, "receipt",
                [work[r] EXCEPT !.receipt =
                   [intent |-> i, outcome |-> outcome, at |-> clock]])
      /\ UNCHANGED <<time, target, indexes, effects, sent>>

\* record_mutation_receipt: one receipt per intent, by the identity index.
RecordMutationReceipt(r) ==
  LET x == work[r].receipt
  IN  /\ pc[r] = "receipt"
      /\ IF IntentReadable(x.intent) /\ ReadReceiptForIntent(x.intent) \subseteq {x}
         THEN receiptIdentity' = receiptIdentity \cup {x} /\ Goes(r, "receipt_local")
         ELSE Returns(r) /\ UNCHANGED receiptIdentity
      /\ UNCHANGED <<time, target, identity, intents, owners, receipts, fences,
                     resolutionIdentity, resolutions, provider>>

ReleaseOnAnyReceipt(r) ==
  LET x == work[r].receipt
  IN  /\ pc[r] = "receipt_local"
      /\ receipts' = receipts \cup {x}
      /\ Goes(r, "unlink")
      /\ UNCHANGED <<time, target, identity, intents, owners, receiptIdentity, fences,
                     resolutionIdentity, resolutions, provider>>

\* _cas_phase_local of the receipt.
IndexMutationReceipt(r) ==
  LET x == work[r].receipt
  IN  /\ pc[r] = "receipt_local"
      /\ receipts' = receipts \cup {x}
      /\ Goes(r, IF x.outcome = "ambiguous" THEN "open_fence" ELSE "unlink")
      /\ UNCHANGED <<time, target, identity, intents, owners, receiptIdentity, fences,
                     resolutionIdentity, resolutions, provider>>

\* _close_target_reservation_if_terminal unlinks the reservation file ...
CloseTargetReservation(r) ==
  /\ pc[r] = "unlink"
  /\ IF slot.reservation = work[r].intent
     THEN slot' = [slot EXCEPT !.reservation = NoRecord] /\ Goes(r, "rmdir")
     ELSE Returns(r) /\ UNCHANGED slot
  /\ UNCHANGED <<time, targetLease, closed, indexes, provider>>

\* ... and then the directory, which another reservation may have replaced.
RemoveSlotDirectory(r) ==
  /\ pc[r] = "rmdir"
  /\ slot' = IF slot.fence = NoRecord /\ slot.reservation = NoRecord THEN FreeSlot ELSE slot
  /\ Returns(r)
  /\ UNCHANGED <<time, targetLease, closed, indexes, provider>>
-----------------------------------------------------------------------------
\* _recover_locked, up to the first write.
RecoverLocked(r) ==
  LET i    == work[r].intent
      here == [work[r] EXCEPT !.recovering = TRUE]
  IN  /\ pc[r] = "recover"
      /\ IF ~IntentReadable(i) \/ ~ResolutionsReadable THEN Returns(r)
         ELSE IF ReadFenceResolutionByIntent(i) # {} \/ Terminal(i)
              THEN Returns(r)
              ELSE IF ReadReceiptForIntent(i) = {}
                   THEN Carries(r, "receipt",
                          [here EXCEPT !.receipt =
                             [intent |-> i, outcome |-> "ambiguous", at |-> clock]])
                   ELSE Carries(r, "open_fence", here)
      /\ UNCHANGED <<time, target, indexes, provider>>

\* _open_fence and _read_active_fence: only recovery checks whose fence it is.
OpenFence(r) ==
  LET i      == work[r].intent
      active == slot.fence
  IN  /\ pc[r] = "open_fence"
      /\ IF active \in fences
         THEN IF ~FenceReadable(active) \/ (work[r].recovering /\ active.intent # i)
              THEN Returns(r)
              ELSE IF work[r].recovering
                   THEN Carries(r, "observe", [work[r] EXCEPT !.fence = active])
                   ELSE Goes(r, "effective")
         ELSE Carries(r, "fence", [work[r] EXCEPT !.fence = [intent |-> i, at |-> clock]])
      /\ UNCHANGED <<time, target, indexes, provider>>

\* _validate_phase_chain of a fence: the receipt is durable and ambiguous.
FenceChain(f) ==
  /\ IntentReadable(f.intent)
  /\ \E x \in receipts : x.intent = f.intent /\ x.outcome = "ambiguous"

\* _cas_target_fence refuses a fence of the closed history, a slot whose fence
\* is another one still unresolved, an empty slot directory, and a reservation
\* of another intent.
FenceRefused(f) ==
  \/ f \in closed
  \/ /\ slot.fence \notin {NoRecord, f}
     /\ \/ ReadFenceResolutionByFence(slot.fence) = {}
        \/ ~FenceReadable(slot.fence)
  \/ slot.dir /\ slot.fence = NoRecord /\ slot.reservation \notin {f.intent}

CasTargetFence(r) ==
  LET f == work[r].fence
  IN  /\ pc[r] = "fence"
      /\ \/ /\ ~FenceChain(f) \/ FenceRefused(f)
            /\ Returns(r)
            /\ UNCHANGED <<slot, closed>>
         \/ /\ FenceChain(f)
            /\ ~FenceRefused(f)
            /\ slot.fence \notin {NoRecord, f}
            /\ closed' = closed \cup {slot.fence}
            /\ slot' = FreeSlot
            /\ UNCHANGED <<pc, work>>
         \/ /\ FenceChain(f)
            /\ ~FenceRefused(f)
            /\ slot.fence \in {NoRecord, f}
            /\ slot' = [dir |-> TRUE, reservation |-> slot.reservation, fence |-> f]
            /\ Goes(r, "fence_local")
            /\ UNCHANGED closed
      /\ UNCHANGED <<time, targetLease, indexes, provider>>

\* _cas_phase_local of the fence.
RecordUnresolvedMutationFence(r) ==
  /\ pc[r] = "fence_local"
  /\ fences' = fences \cup {work[r].fence}
  /\ Goes(r, IF work[r].recovering THEN "observe" ELSE "effective")
  /\ UNCHANGED <<time, target, identity, intents, owners, receiptIdentity, receipts,
                 resolutionIdentity, resolutions, provider>>

\* What an authoritative observation may report of the stage's object.
Observed(x) == x \in effects

\* _observe, _verify_observation and _resolution_from_observation; any other
\* observation leaves the fence open.
Observe(r) ==
  LET f == work[r].fence
      Resolves(outcome) ==
        Carries(r, "resolution",
          [work[r] EXCEPT !.resolution = [fence |-> f, outcome |-> outcome, at |-> clock]])
  IN  /\ pc[r] = "observe"
      /\ \/ ReadFenceResolutionByFence(f) # {} /\ Returns(r)
         \/ /\ ReadFenceResolutionByFence(f) = {}
            /\ \/ Observed(work[r].of) /\ Resolves("observed")
               \/ work[r].of \notin effects /\ Resolves("not_applied")
               \/ Goes(r, "effective")
      /\ UNCHANGED <<time, target, indexes, provider>>

\* record_mutation_fence_resolution: one resolution per fence.
RecordFenceResolution(r) ==
  LET x == work[r].resolution
  IN  /\ pc[r] = "resolution"
      /\ IF FenceReadable(x.fence) /\ ReadFenceResolutionByFence(x.fence) \subseteq {x}
         THEN resolutionIdentity' = resolutionIdentity \cup {x} /\ Goes(r, "resolution_local")
         ELSE Returns(r) /\ UNCHANGED resolutionIdentity
      /\ UNCHANGED <<time, target, identity, intents, owners, receiptIdentity, receipts,
                     fences, resolutions, provider>>

\* _cas_phase_local of the resolution.
IndexFenceResolution(r) ==
  /\ pc[r] = "resolution_local"
  /\ resolutions' = resolutions \cup {work[r].resolution}
  /\ Goes(r, "close")
  /\ UNCHANGED <<time, target, identity, intents, owners, receiptIdentity, receipts,
                 fences, resolutionIdentity, provider>>

\* _close_target_fence_if_resolved: the slot's own fence is moved to history.
CloseTargetFence(r) ==
  LET f == work[r].fence
  IN  /\ pc[r] = "close"
      /\ IF f \notin closed /\ FenceReadable(f) /\ slot.fence = f
         THEN slot' = FreeSlot /\ closed' = closed \cup {f}
         ELSE UNCHANGED <<slot, closed>>
      /\ Returns(r)
      /\ UNCHANGED <<time, targetLease, indexes, provider>>

\* effective_result, and the one recovery _run_stage tries on an ambiguous one.
EffectiveResult(r) ==
  LET i == work[r].intent
  IN  /\ pc[r] = "effective"
      /\ IF /\ IntentReadable(i)
            /\ ResolutionsReadable
            /\ ReadReceiptForIntent(i) # {}
            /\ EffectiveOutcome(i) = "ambiguous"
            /\ ~work[r].again
         THEN Carries(r, "recover", [work[r] EXCEPT !.again = TRUE])
         ELSE Returns(r)
      /\ UNCHANGED <<time, target, indexes, provider>>

Crash(r) ==
  /\ pc[r] # "idle"
  /\ crashes < MaxCrashes
  /\ crashes' = crashes + 1
  /\ Returns(r)
  /\ UNCHANGED <<clock, target, indexes, provider>>
-----------------------------------------------------------------------------
RunnerStep(r) ==
  \/ RunStage(r)
  \/ Reserve(r)
  \/ RepairTargetMutationReservation(r)
  \/ CasStageIdentity(r)
  \/ CasOperationStageIdentity(r)
  \/ CasExternalObjectIdentity(r)
  \/ RecordMutationIntent(r)
  \/ ClaimDispatchOwner(r)
  \/ Dispatch(r)
  \/ Answer(r)
  \/ RecordMutationReceipt(r)
  \/ IndexMutationReceipt(r)
  \/ CloseTargetReservation(r)
  \/ RemoveSlotDirectory(r)
  \/ RecoverLocked(r)
  \/ OpenFence(r)
  \/ CasTargetFence(r)
  \/ RecordUnresolvedMutationFence(r)
  \/ Observe(r)
  \/ RecordFenceResolution(r)
  \/ IndexFenceResolution(r)
  \/ CloseTargetFence(r)
  \/ EffectiveResult(r)

Next ==
  \/ Tick
  \/ \E o \in Operations : RecordLease(o) \/ ReleaseTargetLease(o)
  \/ \E r \in Runners :
       \/ \E o \in Operations, s \in Stage : Begin(r, o, s)
       \/ RunnerStep(r)
       \/ Crash(r)
  \/ \E i \in inflight : Land(i)

Spec == Init /\ [][Next]_vars
-----------------------------------------------------------------------------
Settled(i) == Terminal(i) \/ ReadFenceResolutionByIntent(i) # {}

(* However many runners race, replay or restart, the provider receives at   *)
(* most one request for a stage of an operation: the dispatch-owner marker  *)
(* of claim_mutation_dispatch together with the create-once stage indexes.  *)
(* A release is sent only when the enqueue it follows did happen at the     *)
(* provider, also when that was only learnt by recovering an ambiguous one. *)
OneDispatch ==
  /\ \A x \in StageOf : sent[x] <= 1
  /\ \A o \in Operations :
       sent[<<o, "release_transition">>] > 0 => <<o, "queue_enqueue">> \in effects

(* An operation's request that was sent and is not yet settled by a terminal*)
(* receipt or a fence resolution keeps the target slot, so no other         *)
(* mutation of the branch can be reserved beside it.                        *)
UnsettledHoldsSlot ==
  \A i \in intents :
    sent[<<i.op, i.stage>>] > 0 /\ AssertStageIdentity(i) /\ ~Settled(i) => Names(i)
=============================================================================
