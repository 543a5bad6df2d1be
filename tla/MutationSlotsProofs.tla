------------------------ MODULE MutationSlotsProofs ------------------------
(***************************************************************************)
(* The stage executor over its create-once files, for any number of        *)
(* runners, operations, stops and ticks of the clock: a stage of an        *)
(* operation is sent at most once and a release only after its enqueue     *)
(* happened (OneDispatch), and an intent that was recorded keeps the       *)
(* target slot until it is settled (UnsettledHoldsSlot).                   *)
(***************************************************************************)
EXTENDS MutationSlots, TLAPS

KeyOf(i) == <<i.op, i.stage>>

(* An index entry is an intent of the stage it is the entry of.             *)
IdentityInv ==
  \A k \in Index, x \in StageOf : identity[k][x] # NoRecord => KeyOf(identity[k][x]) = x

FenceSteps == {"fence", "fence_local", "observe", "resolution", "resolution_local", "close"}

(* What a call at step p carries: the intent of its stage, and whatever it  *)
(* has already made durable.                                                *)
CallShape(p, w) ==
  /\ p # "lookup" => w.intent \in Intent /\ KeyOf(w.intent) = w.of
  /\ p = "claim" => w.intent \in intents
  /\ p \in {"receipt", "receipt_local"} =>
       w.receipt \in Receipt /\ w.receipt.intent = w.intent
  /\ p = "receipt_local" => w.receipt \in receiptIdentity
  /\ p = "unlink" => Terminal(w.intent)
  /\ p \in FenceSteps => w.fence \in Fence /\ w.fence.intent = w.intent
  /\ p \in {"resolution", "resolution_local", "close"} =>
       w.resolution \in Resolution /\ w.resolution.fence = w.fence
  /\ p \in {"resolution_local", "close"} => w.resolution \in resolutionIdentity

CallsShaped == \A r \in Runners : pc[r] # "idle" => CallShape(pc[r], work[r])

(* Only the intent that all three indexes name has a marker, so a stage has *)
(* one marker, and its creator is the only runner that may still send.      *)
DispatchInv ==
  /\ \A i \in owners : AssertStageIdentity(i)
  /\ \A x \in StageOf : sent[x] \in {0, 1}
  /\ \A x \in StageOf : sent[x] = 1 => \E i \in owners : KeyOf(i) = x
  /\ \A r \in Runners : pc[r] = "dispatch" => work[r].intent \in owners /\ sent[work[r].of] = 0
  /\ \A r, q \in Runners :
       pc[r] = "dispatch" /\ pc[q] = "dispatch" /\ work[r].of = work[q].of => r = q

TrueReceipt(x) == x.outcome = "applied" => KeyOf(x.intent) \in effects
TrueResolution(x) == x.outcome = "observed" => KeyOf(x.fence.intent) \in effects

(* What is recorded, or about to be, as having happened did happen; a       *)
(* release is only worked on after its enqueue happened.                    *)
EffectInv ==
  /\ \A x \in receiptIdentity : TrueReceipt(x)
  /\ \A x \in resolutionIdentity : TrueResolution(x)
  /\ \A r \in Runners : pc[r] = "receipt" => TrueReceipt(work[r].receipt)
  /\ \A r \in Runners : pc[r] = "resolution" => TrueResolution(work[r].resolution)
  /\ \A r \in Runners : pc[r] # "idle" /\ work[r].of[2] = "release_transition" =>
       <<work[r].of[1], "queue_enqueue">> \in effects
  /\ \A o \in Operations :
       sent[<<o, "release_transition">>] > 0 => <<o, "queue_enqueue">> \in effects

Held(i) == Names(i) \/ Settled(i)

(* The slot names one intent.  It is given up only for an intent that is    *)
(* settled, so every recorded intent, and every one on its way there, still *)
(* has it or no longer needs it.                                            *)
SlotInv ==
  /\ slot.fence # NoRecord /\ slot.reservation # NoRecord =>
       slot.reservation = slot.fence.intent
  /\ \A f \in closed : ReadFenceResolutionByFence(f) # {}
  /\ \A i \in intents : Held(i)
  /\ \A r \in Runners :
       pc[r] \in {"stage", "operation_stage", "external_object", "intent"} =>
         Held(work[r].intent)

Inv == TypeOK /\ IdentityInv /\ CallsShaped /\ DispatchInv /\ EffectInv /\ SlotInv

-----------------------------------------------------------------------------
(* Types, and what every call carries.                                      *)

CallTypes ==
  /\ pc \in [Runners -> Step]
  /\ DOMAIN work = Runners
  /\ \A r \in Runners : pc[r] # "idle" => work[r] \in Work
  /\ CallsShaped

Tables ==
  /\ clock \in Clock
  /\ crashes \in 0 .. MaxCrashes
  /\ targetLease \in Operations \cup {NoLease}
  /\ slot \in [dir : BOOLEAN, reservation : Intent \cup {NoRecord},
               fence : Fence \cup {NoRecord}]
  /\ slot.dir \/ slot = FreeSlot
  /\ closed \subseteq fences
  /\ identity \in [Index -> [StageOf -> Intent \cup {NoRecord}]]
  /\ intents \subseteq Intent
  /\ owners \subseteq intents
  /\ receiptIdentity \subseteq Receipt
  /\ receipts \subseteq receiptIdentity
  /\ fences \subseteq Fence
  /\ resolutionIdentity \subseteq Resolution
  /\ resolutions \subseteq resolutionIdentity
  /\ effects \subseteq StageOf
  /\ inflight \subseteq Intent
  /\ sent \in [StageOf -> Nat]
  /\ IdentityInv

Grow ==
  /\ intents \subseteq intents'
  /\ receiptIdentity \subseteq receiptIdentity'
  /\ resolutionIdentity \subseteq resolutionIdentity'

(* Records once written stay, so what a call knows of them stays true.      *)
LEMMA ShapeKept ==
  ASSUME Grow, NEW p, NEW w, CallShape(p, w)
  PROVE  CallShape(p, w)'
BY Zenon DEF Grow, CallShape, Terminal, ReadReceiptForIntent

(* A call that returns, goes on or carries something new disturbs no other. *)
LEMMA ReturnsKeeps ==
  ASSUME CallTypes, Grow, NEW r \in Runners, Returns(r)
  PROVE  CallTypes'
<1>1. /\ pc' \in [Runners -> Step]
      /\ DOMAIN work' = Runners
      /\ \A q \in Runners : pc'[q] # "idle" => pc'[q] = pc[q] /\ work'[q] = work[q]
  BY Zenon DEF CallTypes, Returns, Step
<1>2. ASSUME NEW q \in Runners, pc'[q] # "idle"
      PROVE  work'[q] \in Work /\ CallShape(pc[q], work[q])'
  <2>1. PICK p, w : p = pc[q] /\ w = work[q]
    BY Zenon
  <2>2. w \in Work /\ CallShape(p, w) /\ p = pc'[q] /\ w = work'[q]
    BY <1>1, <1>2, <2>1, Zenon DEF CallTypes, CallsShaped
  <2>3. CallShape(p, w)'
    BY <2>2, ShapeKept, Zenon
  <2>. QED
    BY <2>2, <2>3, Zenon DEF CallShape
<1>. QED
  BY <1>1, <1>2, Zenon DEF CallTypes, CallsShaped

(* One runner moves to a step p and carries a call w of that step.          *)
LEMMA MovesKeeps ==
  ASSUME CallTypes, Grow, NEW r \in Runners, NEW p \in Step, NEW w \in Work,
         pc' = [pc EXCEPT ![r] = p], DOMAIN work' = Runners, work'[r] = w,
         \A q \in Runners \ {r} : work'[q] = work[q],
         CallShape(p, w)'
  PROVE  CallTypes'
<1>1. /\ pc' \in [Runners -> Step]
      /\ pc'[r] = p /\ work'[r] = w
      /\ \A q \in Runners \ {r} : pc'[q] = pc[q] /\ work'[q] = work[q]
  BY Zenon DEF CallTypes
<1>2. ASSUME NEW q \in Runners, pc'[q] # "idle"
      PROVE  work'[q] \in Work /\ CallShape(pc[q], work[q])'
  <2>1. CASE q = r
    BY <1>1, <2>1, Zenon DEF CallShape
  <2>2. CASE q # r
    <3>1. PICK s, v : s = pc[q] /\ v = work[q]
      BY Zenon
    <3>2. v \in Work /\ CallShape(s, v) /\ s = pc'[q] /\ v = work'[q]
      BY <1>1, <1>2, <2>2, <3>1, Zenon DEF CallTypes, CallsShaped
    <3>3. CallShape(s, v)'
      BY <3>2, ShapeKept, Zenon
    <3>. QED
      BY <3>2, <3>3, Zenon DEF CallShape
  <2>. QED
    BY <2>1, <2>2, Zenon
<1>. QED
  BY <1>1, <1>2, Zenon DEF CallTypes, CallsShaped

(* The same, for a step that replaces the call (Carries).                   *)
LEMMA CarriesKeeps ==
  ASSUME CallTypes, Grow, NEW r \in Runners, NEW p \in Step, NEW w \in Work,
         Carries(r, p, w), CallShape(p, w)'
  PROVE  CallTypes'
<1>1. /\ pc' = [pc EXCEPT ![r] = p] /\ DOMAIN work' = Runners /\ work'[r] = w
      /\ \A q \in Runners \ {r} : work'[q] = work[q]
  BY Zenon DEF CallTypes, Carries
<1>. QED
  BY <1>1, MovesKeeps, Zenon

(* The same, for a step that keeps the call (Goes).                         *)
LEMMA GoesKeeps ==
  ASSUME CallTypes, Grow, NEW r \in Runners, NEW p \in Step, NEW w, pc[r] # "idle",
         w = work[r], Goes(r, p), CallShape(p, w)'
  PROVE  CallTypes'
<1>1. /\ pc' = [pc EXCEPT ![r] = p] /\ DOMAIN work' = Runners /\ work'[r] = w
      /\ \A q \in Runners \ {r} : work'[q] = work[q]
      /\ w \in Work
  BY Zenon DEF CallTypes, Goes
<1>. QED
  BY <1>1, MovesKeeps, Zenon

(* A step of no runner leaves every call as it is.                          *)
LEMMA StaysKeeps ==
  ASSUME CallTypes, Grow, UNCHANGED <<pc, work>>
  PROVE  CallTypes'
<1>1. ASSUME NEW q \in Runners, pc'[q] # "idle"
      PROVE  work'[q] \in Work /\ CallShape(pc[q], work[q])'
  <2>1. PICK p, w : p = pc[q] /\ w = work[q]
    BY Zenon
  <2>2. w \in Work /\ CallShape(p, w) /\ p = pc'[q] /\ w = work'[q]
    BY <1>1, <2>1, Zenon DEF CallTypes, CallsShaped
  <2>3. CallShape(p, w)'
    BY <2>2, ShapeKept, Zenon
  <2>. QED
    BY <2>2, <2>3, Zenon DEF CallShape
<1>. QED
  BY <1>1, Zenon DEF CallTypes, CallsShaped

(* The fields of a call's work after one of them is set.                    *)
LEMMA SetIntent ==
  ASSUME NEW w \in Work, NEW i \in Intent, NEW v, v = [w EXCEPT !.intent = i]
  PROVE  v \in Work /\ v.of = w.of /\ v.intent = i
BY Zenon DEF Work

(* The same for a receipt.                                                  *)
LEMMA SetReceipt ==
  ASSUME NEW w \in Work, NEW x \in Receipt, NEW v, v = [w EXCEPT !.receipt = x]
  PROVE  v \in Work /\ v.of = w.of /\ v.intent = w.intent /\ v.receipt = x
BY Zenon DEF Work

(* The same for a fence.                                                    *)
LEMMA SetFence ==
  ASSUME NEW w \in Work, NEW f \in Fence, NEW v, v = [w EXCEPT !.fence = f]
  PROVE  v \in Work /\ v.of = w.of /\ v.intent = w.intent /\ v.fence = f
BY Zenon DEF Work

(* The same for a resolution.                                               *)
LEMMA SetResolution ==
  ASSUME NEW w \in Work, NEW x \in Resolution, NEW v, v = [w EXCEPT !.resolution = x]
  PROVE  /\ v \in Work /\ v.of = w.of /\ v.intent = w.intent /\ v.fence = w.fence
         /\ v.resolution = x
BY Zenon DEF Work

(* The same for the flag of recover.                                        *)
LEMMA SetRecovering ==
  ASSUME NEW w \in Work, NEW v, v = [w EXCEPT !.recovering = TRUE]
  PROVE  v \in Work /\ v.of = w.of /\ v.intent = w.intent
BY Zenon DEF Work

(* The same for the flag of the second recovery.                            *)
LEMMA SetAgain ==
  ASSUME NEW w \in Work, NEW v, v = [w EXCEPT !.again = TRUE]
  PROVE  v \in Work /\ v.of = w.of /\ v.intent = w.intent
BY Zenon DEF Work

TypeInv == Tables /\ CallTypes

(* The executor answers with one of four steps, and with claim for a        *)
(* recorded intent only (_execute_locked).                                  *)
LEMMA ExecuteLockedSteps ==
  \A i : /\ ExecuteLocked(i) \in {"effective", "claim", "reserve", "idle"}
         /\ ExecuteLocked(i) = "claim" => i \in intents
BY Zenon DEF ExecuteLocked

(* What RunStage does: it returns, or goes on with the stage's own intent.  *)
LEMMA RunStageShape ==
  ASSUME TypeInv, NEW r \in Runners, RunStage(r)
  PROVE  \/ Returns(r)
         \/ \E i \in Intent, p \in {"effective", "claim", "reserve", "recover"} :
              /\ KeyOf(i) = work[r].of
              /\ p = "claim" => i \in intents
              /\ Carries(r, p, [work[r] EXCEPT !.intent = i])
<1> DEFINE x == work[r].of
           prior == identity["operation_stage"][x]
           i == IF prior = NoRecord THEN [op |-> x[1], stage |-> x[2], at |-> clock] ELSE prior
           step == IF i \notin intents \/ (ReadReceiptForIntent(i) = {} /\ i \notin owners)
                   THEN ExecuteLocked(i)
                   ELSE IF Terminal(i) THEN "idle" ELSE "recover"
<1>1. x \in StageOf
  BY Zenon DEF TypeInv, CallTypes, RunStage, Work
<1>2. i \in Intent /\ KeyOf(i) = x
  <2>1. CASE prior = NoRecord
    BY <1>1, <2>1 DEF TypeInv, Tables, StageOf, Intent, KeyOf
  <2>2. CASE prior # NoRecord
    <3>1. "operation_stage" \in Index
      BY Zenon DEF Index
    <3>2. prior \in Intent
      BY <1>1, <2>2, <3>1 DEF TypeInv, Tables
    <3>3. KeyOf(prior) = x
      BY <1>1, <2>2, <3>1, Zenon DEF TypeInv, Tables, IdentityInv
    <3>. QED
      BY <2>2, <3>2, <3>3, Zenon
  <2>. QED
    BY <2>1, <2>2, Zenon
<1>3. step # "idle" => step \in {"effective", "claim", "reserve", "recover"}
  <2>. HIDE DEF i
  <2>1. ExecuteLocked(i) \in {"effective", "claim", "reserve", "idle"}
    BY ExecuteLockedSteps, Zenon
  <2>. QED
    BY <2>1, Zenon
<1>4. step = "claim" => i \in intents
  <2>. HIDE DEF i
  <2>1. ExecuteLocked(i) = "claim" => i \in intents
    BY ExecuteLockedSteps, Zenon
  <2>. QED
    BY <2>1, Zenon
<1>5. Returns(r) \/ (step # "idle" /\ Carries(r, step, [work[r] EXCEPT !.intent = i]))
  BY Zenon DEF RunStage
<1>6. CASE Returns(r)
  BY <1>6, Zenon
<1>7. CASE step # "idle" /\ Carries(r, step, [work[r] EXCEPT !.intent = i])
  <2> HIDE DEF i, step
  <2>. QED
    BY <1>2, <1>3, <1>4, <1>7, Zenon
<1>. QED
  BY <1>5, <1>6, <1>7, Zenon

(* Every step keeps the shape of every call.                                *)
LEMMA CallsStep ==
  ASSUME TypeInv, NEW r \in Runners, RunnerStep(r), Grow
  PROVE  CallTypes'
<1>1. PICK w : w = work[r]
  BY Zenon
<1>2. pc[r] # "idle" => w \in Work /\ CallShape(pc[r], w)
  BY <1>1, Zenon DEF TypeInv, CallTypes, CallsShaped
<1>3. CallTypes
  BY Zenon DEF TypeInv
<1>4. CASE Returns(r)
  BY <1>3, <1>4, ReturnsKeeps, Zenon
<1> SUFFICES ASSUME ~Returns(r) PROVE CallTypes'
  BY <1>4, Zenon
<1>5. \A p \in Step : pc[r] # "idle" /\ Goes(r, p) /\ CallShape(p, w)' => CallTypes'
  BY <1>1, <1>3, GoesKeeps, Zenon
<1>6. \A p \in Step, v \in Work : Carries(r, p, v) /\ CallShape(p, v)' => CallTypes'
  BY <1>3, CarriesKeeps, Zenon
<1>10. CASE RunStage(r)
  <2>1. PICK i \in Intent, p \in {"effective", "claim", "reserve", "recover"} :
          /\ KeyOf(i) = work[r].of
          /\ p = "claim" => i \in intents
          /\ Carries(r, p, [work[r] EXCEPT !.intent = i])
    BY <1>10, RunStageShape, Zenon
  <2>2. PICK v : v = [w EXCEPT !.intent = i]
    BY ZenonT(40)
  <2>3. pc[r] # "idle"
    BY <1>10, Zenon DEF RunStage
  <2>4. v \in Work /\ v.of = w.of /\ v.intent = i
    BY <1>2, <2>2, <2>3, SetIntent
  <2>5. CallShape(p, v)'
    BY <1>1, <2>1, <2>4, Zenon DEF CallShape, FenceSteps, Grow
  <2>6. p \in Step /\ Carries(r, p, v)
    BY <1>1, <2>1, <2>2, Zenon DEF Step
  <2>. QED
    BY <1>6, <2>4, <2>5, <2>6, Zenon
<1>11. CASE Reserve(r)
  <2>1. pc[r] = "reserve"
    BY <1>11, Zenon DEF Reserve
  <2>2. Goes(r, "stage") \/ Goes(r, "effective")
    BY <1>11, Zenon DEF Reserve, RecordIntentFails
  <2>3. CallShape("stage", w)' /\ CallShape("effective", w)'
    BY <1>2, <2>1, Zenon DEF CallShape, FenceSteps
  <2>. QED
    BY <1>5, <2>1, <2>2, <2>3, Zenon DEF Step
<1>12. CASE RepairTargetMutationReservation(r)
  <2>1. pc[r] = "reserve"
    BY <1>12, Zenon DEF RepairTargetMutationReservation
  <2>2. Goes(r, "stage") \/ Goes(r, "effective")
    BY <1>12, Zenon DEF RepairTargetMutationReservation, RecordIntentFails
  <2>3. CallShape("stage", w)' /\ CallShape("effective", w)'
    BY <1>2, <2>1, Zenon DEF CallShape, FenceSteps
  <2>. QED
    BY <1>5, <2>1, <2>2, <2>3, Zenon DEF Step
<1>13. ASSUME NEW k \in Index, NEW n \in {"operation_stage", "external_object", "intent"},
              CasIdentity(r, k, n)
       PROVE  CallTypes'
  <2>1. pc[r] = k
    BY <1>13, Zenon DEF CasIdentity
  <2>2. Goes(r, n) \/ Goes(r, "effective")
    BY <1>13, Zenon DEF CasIdentity, RecordIntentFails
  <2>3. CallShape(n, w)' /\ CallShape("effective", w)'
    BY <1>2, <2>1, Zenon DEF CallShape, FenceSteps, Index
  <2>. QED
    BY <1>5, <2>1, <2>2, <2>3, Zenon DEF Step, Index
<1>14. CASE CasStageIdentity(r) \/ CasOperationStageIdentity(r) \/ CasExternalObjectIdentity(r)
  BY <1>13, <1>14, Zenon DEF CasStageIdentity, CasOperationStageIdentity,
     CasExternalObjectIdentity, Index
<1>15. CASE RecordMutationIntent(r)
  <2>1. pc[r] = "intent" /\ Goes(r, "claim") /\ w.intent \in intents'
    BY <1>1, <1>15, Zenon DEF RecordMutationIntent
  <2>2. CallShape("claim", w)'
    BY <1>2, <2>1, Zenon DEF CallShape, FenceSteps
  <2>. QED
    BY <1>5, <2>1, <2>2, Zenon DEF Step
<1>16. CASE ClaimDispatchOwner(r)
  <2>1. pc[r] = "claim" /\ Goes(r, "dispatch")
    BY <1>16, Zenon DEF ClaimDispatchOwner
  <2>2. CallShape("dispatch", w)'
    BY <1>2, <2>1, Zenon DEF CallShape, FenceSteps
  <2>. QED
    BY <1>5, <2>1, <2>2, Zenon DEF Step
<1>17. CASE Dispatch(r)
  <2>1. pc[r] = "dispatch" /\ Goes(r, "answer")
    BY <1>17, Zenon DEF Dispatch
  <2>2. CallShape("answer", w)'
    BY <1>2, <2>1, Zenon DEF CallShape, FenceSteps
  <2>. QED
    BY <1>5, <2>1, <2>2, Zenon DEF Step
<1>18. CASE Answer(r)
  <2>1. pc[r] = "answer" /\ w \in Work /\ w.intent \in Intent /\ KeyOf(w.intent) = w.of
    BY <1>2, <1>18, Zenon DEF Answer, CallShape
  <2>2. PICK x : /\ Carries(r, "receipt", [work[r] EXCEPT !.receipt = x])
                 /\ x \in Receipt /\ x.intent = w.intent
    <3>1. PICK outcome \in {"applied", "rejected", "ambiguous"} :
            Carries(r, "receipt",
              [work[r] EXCEPT !.receipt =
                 [intent |-> work[r].intent, outcome |-> outcome, at |-> clock]])
      BY <1>18, Zenon DEF Answer
    <3>2. PICK x : x = [intent |-> work[r].intent, outcome |-> outcome, at |-> clock]
      BY Zenon
    <3>3. x \in Receipt /\ x.intent = w.intent
      BY <1>1, <2>1, <3>2, Zenon DEF Receipt, TypeInv, Tables
    <3>4. Carries(r, "receipt", [work[r] EXCEPT !.receipt = x])
      BY <3>1, <3>2, Zenon
    <3>. QED
      BY <3>3, <3>4, Zenon
  <2>3. PICK v : v = [w EXCEPT !.receipt = x]
    BY Zenon
  <2>4. v \in Work /\ v.of = w.of /\ v.intent = w.intent /\ v.receipt = x
    BY <2>1, <2>2, <2>3, SetReceipt
  <2>5. CallShape("receipt", v)'
    BY <2>1, <2>2, <2>4, Zenon DEF CallShape, FenceSteps
  <2>. QED
    BY <1>1, <1>6, <2>2, <2>3, <2>4, <2>5, Zenon DEF Step
<1>19. CASE RecordMutationReceipt(r)
  <2>1. pc[r] = "receipt" /\ Goes(r, "receipt_local") /\ w.receipt \in receiptIdentity'
    BY <1>1, <1>19, Zenon DEF RecordMutationReceipt
  <2>2. CallShape("receipt_local", w)'
    BY <1>2, <2>1, Zenon DEF CallShape, FenceSteps
  <2>. QED
    BY <1>5, <2>1, <2>2, Zenon DEF Step
<1>20. CASE IndexMutationReceipt(r)
  <2>1. /\ pc[r] = "receipt_local"
        /\ \/ Goes(r, "open_fence")
           \/ Goes(r, "unlink") /\ w.receipt.outcome # "ambiguous"
    BY <1>1, <1>20, Zenon DEF IndexMutationReceipt
  <2>2. w.receipt \in receiptIdentity' /\ w.receipt.intent = w.intent
    BY <1>2, <2>1, Zenon DEF CallShape, Grow
  <2>3. w.receipt.outcome # "ambiguous" => Terminal(w.intent)'
    BY <2>2, Zenon DEF Terminal, ReadReceiptForIntent
  <2>4. CallShape("open_fence", w)'
    BY <1>2, <2>1, Zenon DEF CallShape, FenceSteps
  <2>5. w.receipt.outcome # "ambiguous" => CallShape("unlink", w)'
    BY <1>2, <2>1, <2>3, Zenon DEF CallShape, FenceSteps
  <2>. QED
    BY <1>5, <2>1, <2>4, <2>5, Zenon DEF Step
<1>21. CASE CloseTargetReservation(r)
  <2>1. pc[r] = "unlink" /\ Goes(r, "rmdir")
    BY <1>21, Zenon DEF CloseTargetReservation
  <2>2. CallShape("rmdir", w)'
    BY <1>2, <2>1, Zenon DEF CallShape, FenceSteps
  <2>. QED
    BY <1>5, <2>1, <2>2, Zenon DEF Step
<1>22. CASE RemoveSlotDirectory(r) \/ CloseTargetFence(r)
  BY <1>22, Zenon DEF RemoveSlotDirectory, CloseTargetFence
<1>23. CASE RecoverLocked(r)
  <2>1. /\ pc[r] = "recover" /\ w \in Work
        /\ w.intent \in Intent /\ KeyOf(w.intent) = w.of
    BY <1>2, <1>23, Zenon DEF RecoverLocked, CallShape
  <2>2. PICK u : u = [w EXCEPT !.recovering = TRUE]
    BY Zenon
  <2>3. u \in Work /\ u.of = w.of /\ u.intent = w.intent
    BY <2>1, <2>2, SetRecovering, Zenon
  <2>4. PICK x : x = [intent |-> w.intent, outcome |-> "ambiguous", at |-> clock]
    BY Zenon
  <2>5. x \in Receipt /\ x.intent = w.intent
    BY <2>1, <2>4, Zenon DEF Receipt, TypeInv, Tables
  <2>6. PICK v : v = [u EXCEPT !.receipt = x]
    BY Zenon
  <2>7. v \in Work /\ v.of = u.of /\ v.intent = u.intent /\ v.receipt = x
    BY <2>3, <2>5, <2>6, SetReceipt
  <2>8. Carries(r, "receipt", v) \/ Carries(r, "open_fence", u)
    BY <1>1, <1>23, <2>2, <2>4, <2>6, Zenon DEF RecoverLocked
  <2>9. CallShape("receipt", v)' /\ CallShape("open_fence", u)'
    BY <2>1, <2>3, <2>5, <2>7, Zenon DEF CallShape, FenceSteps
  <2>. QED
    BY <1>6, <2>3, <2>7, <2>8, <2>9, Zenon DEF Step
<1>24. CASE OpenFence(r)
  <2>1. /\ pc[r] = "open_fence" /\ w \in Work
        /\ w.intent \in Intent /\ KeyOf(w.intent) = w.of
    BY <1>2, <1>24, Zenon DEF OpenFence, CallShape
  <2>2. \/ Goes(r, "effective")
        \/ \E f \in Fence, p \in {"observe", "fence"} :
             f.intent = w.intent /\ Carries(r, p, [w EXCEPT !.fence = f])
    <3>1. [intent |-> w.intent, at |-> clock] \in Fence
      BY <2>1, Zenon DEF Fence, TypeInv, Tables
    <3>2. slot.fence \in fences => slot.fence \in Fence
      BY Zenon DEF TypeInv, Tables
    <3>. QED
      BY <1>1, <1>24, <3>1, <3>2, Zenon DEF OpenFence
  <2>3. CASE Goes(r, "effective")
    <3>1. CallShape("effective", w)'
      BY <2>1, Zenon DEF CallShape, FenceSteps
    <3>. QED
      BY <1>5, <2>1, <2>3, <3>1, Zenon DEF Step
  <2>4. ASSUME NEW f \in Fence, NEW p \in {"observe", "fence"},
               f.intent = w.intent, Carries(r, p, [w EXCEPT !.fence = f])
        PROVE  CallTypes'
    <3>1. PICK v : v = [w EXCEPT !.fence = f]
      BY Zenon
    <3>2. v \in Work /\ v.of = w.of /\ v.intent = w.intent /\ v.fence = f
      BY <2>1, <3>1, SetFence
    <3>3. CallShape(p, v)'
      BY <2>1, <2>4, <3>2, Zenon DEF CallShape, FenceSteps
    <3>. QED
      BY <1>6, <2>4, <3>1, <3>2, <3>3, Zenon DEF Step
  <2>. QED
    BY <2>2, <2>3, <2>4, Zenon
<1>25. CASE CasTargetFence(r)
  <2>1. pc[r] = "fence" /\ (Goes(r, "fence_local") \/ UNCHANGED <<pc, work>>)
    BY <1>25, Zenon DEF CasTargetFence
  <2>2. CallShape("fence_local", w)'
    BY <1>2, <2>1, Zenon DEF CallShape, FenceSteps
  <2>. QED
    BY <1>3, <1>5, <2>1, <2>2, StaysKeeps, Zenon DEF Step
<1>26. CASE RecordUnresolvedMutationFence(r)
  <2>1. pc[r] = "fence_local" /\ (Goes(r, "observe") \/ Goes(r, "effective"))
    BY <1>26, Zenon DEF RecordUnresolvedMutationFence
  <2>2. CallShape("observe", w)' /\ CallShape("effective", w)'
    BY <1>2, <2>1, Zenon DEF CallShape, FenceSteps
  <2>. QED
    BY <1>5, <2>1, <2>2, Zenon DEF Step
<1>27. CASE Observe(r)
  <2>1. /\ pc[r] = "observe" /\ w \in Work
        /\ w.intent \in Intent /\ KeyOf(w.intent) = w.of
        /\ w.fence \in Fence /\ w.fence.intent = w.intent
    BY <1>2, <1>27, Zenon DEF Observe, CallShape, FenceSteps
  <2>2. \/ Goes(r, "effective")
        \/ \E x \in Resolution :
             x.fence = w.fence /\ Carries(r, "resolution", [w EXCEPT !.resolution = x])
    <3>1. \A out \in {"observed", "not_applied"} :
            [fence |-> w.fence, outcome |-> out, at |-> clock] \in Resolution
      BY <2>1, Zenon DEF Resolution, TypeInv, Tables
    <3>. QED
      BY <1>1, <1>27, <3>1, Zenon DEF Observe
  <2>3. CASE Goes(r, "effective")
    <3>1. CallShape("effective", w)'
      BY <2>1, Zenon DEF CallShape, FenceSteps
    <3>. QED
      BY <1>5, <2>1, <2>3, <3>1, Zenon DEF Step
  <2>4. ASSUME NEW x \in Resolution, x.fence = w.fence,
               Carries(r, "resolution", [w EXCEPT !.resolution = x])
        PROVE  CallTypes'
    <3>1. PICK v : v = [w EXCEPT !.resolution = x]
      BY Zenon
    <3>2. /\ v \in Work /\ v.of = w.of /\ v.intent = w.intent /\ v.fence = w.fence
          /\ v.resolution = x
      BY <2>1, <3>1, SetResolution
    <3>3. CallShape("resolution", v)'
      BY <2>1, <2>4, <3>2, Zenon DEF CallShape, FenceSteps
    <3>. QED
      BY <1>6, <2>4, <3>1, <3>2, <3>3, Zenon DEF Step
  <2>. QED
    BY <2>2, <2>3, <2>4, Zenon
<1>28. CASE RecordFenceResolution(r)
  <2>1. /\ pc[r] = "resolution" /\ Goes(r, "resolution_local")
        /\ w.resolution \in resolutionIdentity'
    BY <1>1, <1>28, Zenon DEF RecordFenceResolution
  <2>2. CallShape("resolution_local", w)'
    BY <1>2, <2>1, Zenon DEF CallShape, FenceSteps
  <2>. QED
    BY <1>5, <2>1, <2>2, Zenon DEF Step
<1>29. CASE IndexFenceResolution(r)
  <2>1. pc[r] = "resolution_local" /\ Goes(r, "close")
    BY <1>29, Zenon DEF IndexFenceResolution
  <2>2. CallShape("close", w)'
    BY <1>2, <2>1, Zenon DEF CallShape, FenceSteps, Grow
  <2>. QED
    BY <1>5, <2>1, <2>2, Zenon DEF Step
<1>30. CASE EffectiveResult(r)
  <2>1. /\ pc[r] = "effective" /\ w \in Work
        /\ w.intent \in Intent /\ KeyOf(w.intent) = w.of
    BY <1>2, <1>30, Zenon DEF EffectiveResult, CallShape
  <2>2. PICK v : v = [w EXCEPT !.again = TRUE]
    BY Zenon
  <2>3. v \in Work /\ v.of = w.of /\ v.intent = w.intent
    BY <2>1, <2>2, SetAgain, Zenon
  <2>4. Carries(r, "recover", v)
    BY <1>1, <1>30, <2>2, Zenon DEF EffectiveResult
  <2>5. CallShape("recover", v)'
    BY <2>1, <2>3, Zenon DEF CallShape, FenceSteps
  <2>. QED
    BY <1>6, <2>3, <2>4, <2>5, Zenon DEF Step
<1>. QED
  BY <1>10, <1>11, <1>12, <1>14, <1>15, <1>16, <1>17, <1>18, <1>19, <1>20, <1>21, <1>22,
     <1>23, <1>24, <1>25, <1>26, <1>27, <1>28, <1>29, <1>30, Zenon DEF RunnerStep

(* Records are created once and never change.                               *)
Kept ==
  /\ owners \subseteq owners'
  /\ effects \subseteq effects'
  /\ \A k \in Index, x \in StageOf : identity[k][x] # NoRecord => identity'[k][x] = identity[k][x]

SlotTypes ==
  /\ slot \in [dir : BOOLEAN, reservation : Intent \cup {NoRecord},
               fence : Fence \cup {NoRecord}]
  /\ slot.dir \/ slot = FreeSlot
  /\ closed \subseteq fences

(* An empty slot is a slot.                                                 *)
LEMMA FreeSlotType ==
  /\ FreeSlot \in [dir : BOOLEAN, reservation : Intent \cup {NoRecord},
                   fence : Fence \cup {NoRecord}]
  /\ FreeSlot.dir = FALSE /\ FreeSlot.reservation = NoRecord /\ FreeSlot.fence = NoRecord
BY Zenon DEF FreeSlot

(* Every step on the slot leaves a slot, and closes recorded fences.        *)
LEMMA SlotTypesStep ==
  ASSUME TypeInv, NEW r \in Runners,
         \/ Reserve(r) \/ RepairTargetMutationReservation(r) \/ CloseTargetReservation(r)
         \/ RemoveSlotDirectory(r) \/ CasTargetFence(r) \/ CloseTargetFence(r)
  PROVE  SlotTypes'
<1>1. SlotTypes /\ UNCHANGED fences
  BY Zenon DEF TypeInv, Tables, SlotTypes, Reserve, RepairTargetMutationReservation,
     CloseTargetReservation, RemoveSlotDirectory, CasTargetFence, CloseTargetFence, indexes
<1>2. PICK w : w = work[r]
  BY Zenon
<1>3. pc[r] # "idle" => w \in Work /\ CallShape(pc[r], w)
  BY <1>2, Zenon DEF TypeInv, CallTypes, CallsShaped
<1>4. PICK s : s = slot
  BY Zenon
<1>5. /\ s \in [dir : BOOLEAN, reservation : Intent \cup {NoRecord},
                fence : Fence \cup {NoRecord}]
      /\ s.dir \/ s = FreeSlot
      /\ s.fence # NoRecord \/ s.reservation # NoRecord => s.dir
  BY <1>1, <1>4, FreeSlotType, Zenon DEF SlotTypes
<1>6. CASE slot' = slot /\ closed' = closed
  BY <1>1, <1>6, Zenon DEF SlotTypes
<1>7. CASE slot' = FreeSlot /\ closed' \subseteq fences
  BY <1>1, <1>7, FreeSlotType, Zenon DEF SlotTypes
<1>8. \A f : FenceReadable(f) => f \in fences
  BY Zenon DEF FenceReadable
<1>10. CASE Reserve(r)
  <2>1. w.intent \in Intent /\ closed' = closed
    BY <1>3, <1>10, Zenon DEF Reserve, CallShape
  <2>2. slot' = slot \/ slot' = [dir |-> TRUE, reservation |-> w.intent, fence |-> NoRecord]
    BY <1>2, <1>10, Zenon DEF Reserve
  <2>3. CASE slot' = slot
    BY <1>6, <2>1, <2>3, Zenon
  <2>4. CASE slot' = [dir |-> TRUE, reservation |-> w.intent, fence |-> NoRecord]
    <3>1. /\ slot' \in [dir : BOOLEAN, reservation : Intent \cup {NoRecord},
                         fence : Fence \cup {NoRecord}]
          /\ slot'.dir
      BY <2>1, <2>4, Zenon
    <3>. QED
      BY <1>1, <2>1, <3>1, Zenon DEF SlotTypes
  <2>. QED
    BY <2>2, <2>3, <2>4, ZenonT(40)
<1>11. CASE RepairTargetMutationReservation(r)
  <2>1. w.intent \in Intent
    BY <1>3, <1>11, Zenon DEF RepairTargetMutationReservation, CallShape
  <2>2. \/ slot' = slot /\ closed' = closed
        \/ slot' = FreeSlot /\ closed' = closed \cup {slot.fence} /\ FenceReadable(slot.fence)
        \/ /\ slot' = [s EXCEPT !.reservation = w.intent] /\ closed' = closed
           /\ s.fence # NoRecord
    BY <1>2, <1>4, <1>11, Zenon DEF RepairTargetMutationReservation
  <2>3. CASE /\ slot' = [s EXCEPT !.reservation = w.intent] /\ closed' = closed
             /\ s.fence # NoRecord
    BY <1>1, <1>5, <2>1, <2>3, Zenon DEF SlotTypes
  <2>. QED
    BY <1>1, <1>6, <1>7, <1>8, <2>2, <2>3, Zenon DEF SlotTypes
<1>12. CASE CloseTargetReservation(r)
  <2>1. w.intent \in Intent /\ closed' = closed
    BY <1>3, <1>12, Zenon DEF CloseTargetReservation, CallShape
  <2>2. \/ slot' = slot
        \/ slot' = [s EXCEPT !.reservation = NoRecord] /\ s.reservation = w.intent
    BY <1>2, <1>4, <1>12, Zenon DEF CloseTargetReservation
  <2>3. CASE slot' = [s EXCEPT !.reservation = NoRecord] /\ s.reservation = w.intent
    BY <1>1, <1>5, <2>1, <2>3, NoRecordAssumption, Zenon DEF SlotTypes
  <2>. QED
    BY <1>6, <2>1, <2>2, <2>3, Zenon
<1>13. CASE RemoveSlotDirectory(r)
  BY <1>1, <1>6, <1>7, <1>13, Zenon DEF RemoveSlotDirectory, SlotTypes
<1>14. CASE CasTargetFence(r)
  <2>1. w.fence \in Fence
    BY <1>3, <1>14, ZenonT(40) DEF CasTargetFence, CallShape, FenceSteps
  <2>2. \/ slot' = slot /\ closed' = closed
        \/ slot' = FreeSlot /\ closed' = closed \cup {slot.fence} /\ FenceReadable(slot.fence)
        \/ /\ slot' = [dir |-> TRUE, reservation |-> s.reservation, fence |-> w.fence]
           /\ closed' = closed
    BY <1>2, <1>4, <1>14, Zenon DEF CasTargetFence, FenceRefused
  <2>3. CASE /\ slot' = [dir |-> TRUE, reservation |-> s.reservation, fence |-> w.fence]
             /\ closed' = closed
    BY <1>1, <1>5, <2>1, <2>3, Zenon DEF SlotTypes
  <2>. QED
    BY <1>1, <1>6, <1>7, <1>8, <2>2, <2>3, Zenon DEF SlotTypes
<1>15. CASE CloseTargetFence(r)
  <2>1. \/ slot' = slot /\ closed' = closed
        \/ slot' = FreeSlot /\ closed' = closed \cup {w.fence} /\ FenceReadable(w.fence)
    BY <1>2, <1>15, Zenon DEF CloseTargetFence
  <2>. QED
    BY <1>1, <1>6, <1>7, <1>8, <2>1, Zenon DEF SlotTypes
<1>. QED
  BY <1>10, <1>11, <1>12, <1>13, <1>14, <1>15, Zenon

(* Every step of a runner keeps the types of the files, only adds records   *)
(* to them and never changes an index entry.                                *)
LEMMA TablesStep ==
  ASSUME TypeInv, NEW r \in Runners, RunnerStep(r)
  PROVE  Tables' /\ Grow /\ Kept
<1>1. CASE RunStage(r) \/ RecoverLocked(r) \/ OpenFence(r) \/ Observe(r) \/ EffectiveResult(r)
  <2>1. UNCHANGED <<time, target, indexes, provider>>
    BY <1>1, Zenon DEF RunStage, RecoverLocked, OpenFence, Observe, EffectiveResult
  <2>. QED
    BY <2>1, Zenon DEF TypeInv, Tables, Grow, Kept, IdentityInv, time, target, indexes, provider
<1>2. CASE \/ Reserve(r) \/ RepairTargetMutationReservation(r) \/ CloseTargetReservation(r)
           \/ RemoveSlotDirectory(r) \/ CasTargetFence(r) \/ CloseTargetFence(r)
  <2>1. UNCHANGED <<time, targetLease, indexes, provider>>
    BY <1>2, Zenon DEF Reserve, RepairTargetMutationReservation, CloseTargetReservation,
       RemoveSlotDirectory, CasTargetFence, CloseTargetFence
  <2>2. SlotTypes'
    BY <1>2, SlotTypesStep, Zenon
  <2>. QED
    BY <2>1, <2>2, Zenon DEF TypeInv, Tables, SlotTypes, Grow, Kept, IdentityInv, time, indexes,
       provider
<1>3. PICK w : w = work[r]
  BY Zenon
<1>4. pc[r] # "idle" => w \in Work /\ CallShape(pc[r], w)
  BY <1>3, Zenon DEF TypeInv, CallTypes, CallsShaped
<1>5. ASSUME NEW k \in Index, NEW n, CasIdentity(r, k, n)
      PROVE  Tables' /\ Grow /\ Kept
  <2>1. /\ w \in Work /\ w.intent \in Intent /\ KeyOf(w.intent) = w.of
        /\ UNCHANGED <<time, target, intents, owners, receiptIdentity, receipts, fences,
                       resolutionIdentity, resolutions, provider>>
    BY <1>4, <1>5, Zenon DEF CasIdentity, CallShape, Index
  <2>2. w.of \in StageOf
    BY <2>1, Zenon DEF Work
  <2>3. \/ identity' = identity
        \/ /\ identity' = [identity EXCEPT ![k][w.of] = w.intent]
           /\ identity[k][w.of] \in {NoRecord, w.intent}
    BY <1>3, <1>5, Zenon DEF CasIdentity, CasGlobalEnvelope
  <2>4. identity \in [Index -> [StageOf -> Intent \cup {NoRecord}]] /\ IdentityInv
    BY Zenon DEF TypeInv, Tables
  <2>5. identity' \in [Index -> [StageOf -> Intent \cup {NoRecord}]]
    BY <2>1, <2>2, <2>3, <2>4
  <2>6. \A j \in Index, x \in StageOf :
          \/ identity'[j][x] = identity[j][x]
          \/ j = k /\ x = w.of /\ identity'[j][x] = w.intent
             /\ identity[j][x] \in {NoRecord, w.intent}
    BY <2>1, <2>2, <2>3, <2>4
  <2>7. IdentityInv'
    <3> SUFFICES ASSUME NEW j \in Index, NEW x \in StageOf, identity'[j][x] # NoRecord
                 PROVE  KeyOf(identity'[j][x]) = x
      BY Zenon DEF IdentityInv, KeyOf
    <3>1. CASE identity'[j][x] = identity[j][x]
      BY <2>4, <3>1, Zenon DEF IdentityInv
    <3>2. CASE x = w.of /\ identity'[j][x] = w.intent
      BY <2>1, <3>2, Zenon
    <3>. QED
      BY <2>6, <3>1, <3>2, Zenon
  <2>. QED
    BY <2>1, <2>5, <2>6, <2>7 DEF TypeInv, Tables, Grow, Kept, time, target, provider
<1>6. CASE CasStageIdentity(r) \/ CasOperationStageIdentity(r) \/ CasExternalObjectIdentity(r)
  BY <1>5, <1>6, Zenon DEF CasStageIdentity, CasOperationStageIdentity,
     CasExternalObjectIdentity, Index
<1>7. CASE RecordMutationIntent(r)
  <2>1. w.intent \in Intent
    BY <1>4, <1>7, Zenon DEF RecordMutationIntent, CallShape
  <2>. QED
    BY <1>3, <1>7, <2>1, Zenon DEF RecordMutationIntent, TypeInv, Tables, Grow, Kept,
       IdentityInv,
       time, target, provider
<1>8. CASE ClaimDispatchOwner(r)
  <2>1. w.intent \in intents
    BY <1>4, <1>8, ZenonT(40) DEF ClaimDispatchOwner, CallShape
  <2>. QED
    BY <1>3, <1>8, <2>1, Zenon DEF ClaimDispatchOwner, TypeInv, Tables, Grow, Kept,
       IdentityInv,
       time, target, provider
<1>9. CASE Dispatch(r)
  <2>1. w.intent \in Intent /\ w.of \in StageOf
    BY <1>4, <1>9, Zenon DEF Dispatch, CallShape, Work
  <2>. QED
    BY <1>3, <1>9, <2>1 DEF Dispatch, TypeInv, Tables, Grow, Kept,
       IdentityInv,
       time, target, indexes
<1>10. CASE Answer(r)
  BY <1>10, Zenon DEF Answer, TypeInv, Tables, Grow, Kept, IdentityInv, time, target, indexes
<1>11. CASE RecordMutationReceipt(r)
  <2>1. w.receipt \in Receipt
    BY <1>4, <1>11, ZenonT(40) DEF RecordMutationReceipt, CallShape
  <2>. QED
    BY <1>3, <1>11, <2>1, ZenonT(40) DEF RecordMutationReceipt, TypeInv, Tables, Grow, Kept,
       IdentityInv,
       time, target, provider
<1>12. CASE IndexMutationReceipt(r)
  <2>1. w.receipt \in receiptIdentity
    BY <1>4, <1>12, Zenon DEF IndexMutationReceipt, CallShape
  <2>. QED
    BY <1>3, <1>12, <2>1, Zenon DEF IndexMutationReceipt, TypeInv, Tables, Grow, Kept,
       IdentityInv,
       time, target, provider
<1>13. CASE RecordUnresolvedMutationFence(r)
  <2>1. w.fence \in Fence
    BY <1>4, <1>13, ZenonT(40) DEF RecordUnresolvedMutationFence, CallShape, FenceSteps
  <2>. QED
    BY <1>3, <1>13, <2>1, Zenon DEF RecordUnresolvedMutationFence, TypeInv, Tables, Grow, Kept,
       IdentityInv, time, target, provider
<1>14. CASE RecordFenceResolution(r)
  <2>1. w.resolution \in Resolution
    BY <1>4, <1>14, ZenonT(40) DEF RecordFenceResolution, CallShape
  <2>. QED
    BY <1>3, <1>14, <2>1, Zenon DEF RecordFenceResolution, TypeInv, Tables, Grow, Kept,
       IdentityInv,
       time, target, provider
<1>15. CASE IndexFenceResolution(r)
  <2>1. w.resolution \in resolutionIdentity
    BY <1>4, <1>15, Zenon DEF IndexFenceResolution, CallShape
  <2>. QED
    BY <1>3, <1>15, <2>1, ZenonT(40) DEF IndexFenceResolution, TypeInv, Tables, Grow, Kept,
       IdentityInv,
       time, target, provider
<1>. QED
  BY <1>1, <1>2, <1>6, <1>7, <1>8, <1>9, <1>10, <1>11, <1>12, <1>13, <1>14, <1>15, Zenon
     DEF RunnerStep

-----------------------------------------------------------------------------
(* Which action takes a runner where.                                       *)
ReservedSteps == {"stage", "operation_stage", "external_object", "intent"}

Arrives(r) ==
  /\ \A q \in Runners \ {r} : pc'[q] = pc[q] /\ work'[q] = work[q]
  /\ pc[r] # "idle"
  /\ pc'[r] # "idle" => work'[r].of = work[r].of
  /\ pc'[r] = "dispatch" => ClaimDispatchOwner(r)
  /\ pc'[r] = "receipt" => Answer(r) \/ RecoverLocked(r)
  /\ pc'[r] = "resolution" => Observe(r)
  /\ pc'[r] = "stage" => Reserve(r) \/ RepairTargetMutationReservation(r)
  /\ pc'[r] \in ReservedSteps => work'[r] = work[r]
  /\ pc'[r] \in ReservedSteps \ {"stage"} => pc[r] \in ReservedSteps

(* A step moves its own runner only, and each of the steps that matter      *)
(* below is reached by the actions that the code reaches it by.             *)
LEMMA StepArrives ==
  ASSUME TypeInv, NEW r \in Runners, RunnerStep(r)
  PROVE  Arrives(r)
<1>1. PICK w : w = work[r]
  BY Zenon
<1>2. /\ pc \in [Runners -> Step] /\ DOMAIN work = Runners
      /\ pc[r] # "idle" => w \in Work
  BY <1>1, Zenon DEF TypeInv, CallTypes
<1>3. ASSUME NEW p \in Step, NEW v, Carries(r, p, v)
      PROVE  /\ pc'[r] = p /\ work'[r] = v
             /\ \A q \in Runners \ {r} : pc'[q] = pc[q] /\ work'[q] = work[q]
  BY <1>2, <1>3, Zenon DEF Carries
<1>4. ASSUME NEW p \in Step, Goes(r, p)
      PROVE  /\ pc'[r] = p /\ work' = work
             /\ \A q \in Runners \ {r} : pc'[q] = pc[q] /\ work'[q] = work[q]
  BY <1>2, <1>4, Zenon DEF Goes
<1>5. ASSUME Returns(r)
      PROVE  /\ pc'[r] = "idle"
             /\ \A q \in Runners \ {r} : pc'[q] = pc[q] /\ work'[q] = work[q]
  BY <1>2, <1>5, Zenon DEF Returns
<1>6. pc[r] # "idle"
  BY Zenon DEF RunnerStep, RunStage, Reserve, RepairTargetMutationReservation,
     CasStageIdentity, CasOperationStageIdentity, CasExternalObjectIdentity,
     RecordMutationIntent, ClaimDispatchOwner, Dispatch, Answer, RecordMutationReceipt,
     IndexMutationReceipt, CloseTargetReservation, RemoveSlotDirectory, RecoverLocked, OpenFence,
     CasTargetFence, RecordUnresolvedMutationFence, Observe, RecordFenceResolution,
     IndexFenceResolution, CloseTargetFence, EffectiveResult, CasIdentity
<1>7. CASE Returns(r)
  BY <1>5, <1>6, <1>7, Zenon DEF Arrives, ReservedSteps
<1> SUFFICES ASSUME ~Returns(r) PROVE Arrives(r)
  BY <1>7, Zenon
<1>10. CASE RunStage(r)
  <2>1. PICK i \in Intent, p \in {"effective", "claim", "reserve", "recover"} :
          Carries(r, p, [work[r] EXCEPT !.intent = i])
    BY <1>10, RunStageShape, Zenon
  <2>2. PICK v : v = [w EXCEPT !.intent = i]
    BY Zenon
  <2>3. v.of = w.of
    BY <1>2, <1>6, <2>2, SetIntent, Zenon
  <2>. QED
    BY <1>1, <1>3, <1>6, <2>1, <2>2, <2>3, ZenonT(40) DEF Arrives, ReservedSteps, Step
<1>11. CASE Reserve(r)
  <2>1. Goes(r, "stage") \/ Goes(r, "effective")
    BY <1>11, Zenon DEF Reserve, RecordIntentFails
  <2>. QED
    BY <1>11, <1>4, <1>6, <2>1, Zenon DEF Arrives, ReservedSteps, Step
<1>12. CASE RepairTargetMutationReservation(r)
  <2>1. Goes(r, "stage") \/ Goes(r, "effective")
    BY <1>12, Zenon DEF RepairTargetMutationReservation, RecordIntentFails
  <2>. QED
    BY <1>12, <1>4, <1>6, <2>1, Zenon DEF Arrives, ReservedSteps, Step
<1>13. CASE CasStageIdentity(r)
  <2>1. Goes(r, "operation_stage") \/ Goes(r, "effective")
    BY <1>13, Zenon DEF CasStageIdentity, CasIdentity, RecordIntentFails
  <2>. QED
    BY <1>13, <1>4, <1>6, <2>1, Zenon DEF Arrives, ReservedSteps, Step, CasStageIdentity,
       CasIdentity
<1>14. CASE CasOperationStageIdentity(r)
  <2>1. Goes(r, "external_object") \/ Goes(r, "effective")
    BY <1>14, Zenon DEF CasOperationStageIdentity, CasIdentity, RecordIntentFails
  <2>. QED
    BY <1>14, <1>4, <1>6, <2>1, Zenon DEF Arrives, ReservedSteps, Step, CasOperationStageIdentity,
       CasIdentity
<1>15. CASE CasExternalObjectIdentity(r)
  <2>1. Goes(r, "intent") \/ Goes(r, "effective")
    BY <1>15, ZenonT(40) DEF CasExternalObjectIdentity, CasIdentity, RecordIntentFails
  <2>. QED
    BY <1>15, <1>4, <1>6, <2>1, Zenon DEF Arrives, ReservedSteps, Step, CasExternalObjectIdentity,
       CasIdentity
<1>16. CASE RecordMutationIntent(r)
  <2>1. Goes(r, "claim")
    BY <1>16, Zenon DEF RecordMutationIntent
  <2>. QED
    BY <1>16, <1>4, <1>6, <2>1, Zenon DEF Arrives, ReservedSteps, Step
<1>17. CASE ClaimDispatchOwner(r)
  <2>1. Goes(r, "dispatch")
    BY <1>17, Zenon DEF ClaimDispatchOwner
  <2>. QED
    BY <1>17, <1>4, <1>6, <2>1, ZenonT(40) DEF Arrives, ReservedSteps, Step
<1>18. CASE Dispatch(r)
  <2>1. Goes(r, "answer")
    BY <1>18, Zenon DEF Dispatch
  <2>. QED
    BY <1>18, <1>4, <1>6, <2>1, ZenonT(40) DEF Arrives, ReservedSteps, Step
<1>19. CASE RecordMutationReceipt(r)
  <2>1. Goes(r, "receipt_local")
    BY <1>19, Zenon DEF RecordMutationReceipt
  <2>. QED
    BY <1>19, <1>4, <1>6, <2>1, Zenon DEF Arrives, ReservedSteps, Step
<1>20. CASE IndexMutationReceipt(r)
  <2>1. Goes(r, "open_fence") \/ Goes(r, "unlink")
    BY <1>20, Zenon DEF IndexMutationReceipt
  <2>. QED
    BY <1>20, <1>4, <1>6, <2>1, Zenon DEF Arrives, ReservedSteps, Step
<1>21. CASE CloseTargetReservation(r)
  <2>1. Goes(r, "rmdir")
    BY <1>21, ZenonT(40) DEF CloseTargetReservation
  <2>. QED
    BY <1>21, <1>4, <1>6, <2>1, Zenon DEF Arrives, ReservedSteps, Step
<1>22. CASE RecordUnresolvedMutationFence(r)
  <2>1. Goes(r, "observe") \/ Goes(r, "effective")
    BY <1>22, Zenon DEF RecordUnresolvedMutationFence
  <2>. QED
    BY <1>22, <1>4, <1>6, <2>1, Zenon DEF Arrives, ReservedSteps, Step
<1>23. CASE RecordFenceResolution(r)
  <2>1. Goes(r, "resolution_local")
    BY <1>23, ZenonT(40) DEF RecordFenceResolution
  <2>. QED
    BY <1>23, <1>4, <1>6, <2>1, Zenon DEF Arrives, ReservedSteps, Step
<1>24. CASE IndexFenceResolution(r)
  <2>1. Goes(r, "close")
    BY <1>24, Zenon DEF IndexFenceResolution
  <2>. QED
    BY <1>24, <1>4, <1>6, <2>1, Zenon DEF Arrives, ReservedSteps, Step
<1>25. CASE RemoveSlotDirectory(r) \/ CloseTargetFence(r)
  BY <1>25, ZenonT(40) DEF RemoveSlotDirectory, CloseTargetFence
<1>26. CASE CasTargetFence(r)
  <2>1. Goes(r, "fence_local") \/ UNCHANGED <<pc, work>>
    BY <1>26, Zenon DEF CasTargetFence
  <2>2. pc[r] = "fence"
    BY <1>26, Zenon DEF CasTargetFence
  <2>. QED
    BY <1>4, <1>6, <2>1, <2>2, Zenon DEF Arrives, ReservedSteps, Step
<1>27. CASE Answer(r)
  <2>1. PICK x \in Receipt : Carries(r, "receipt", [work[r] EXCEPT !.receipt = x])
    <3>1. work[r].intent \in Intent
      BY <1>27, Zenon DEF Answer, TypeInv, CallTypes, CallsShaped, CallShape
    <3>. QED
      BY <1>27, <3>1, Zenon DEF Answer, Receipt, TypeInv, Tables
  <2>2. PICK v : v = [w EXCEPT !.receipt = x]
    BY Zenon
  <2>3. v.of = w.of
    BY <1>2, <1>6, <2>2, SetReceipt, SMTT(30)
  <2>. QED
    BY <1>27, <1>1, <1>3, <1>6, <2>1, <2>2, <2>3, Zenon DEF Arrives, ReservedSteps, Step
<1>28. CASE RecoverLocked(r)
  <2>1. PICK u : u = [w EXCEPT !.recovering = TRUE]
    BY Zenon
  <2>2. u \in Work /\ u.of = w.of
    BY <1>2, <1>6, <2>1, SetRecovering, Zenon
  <2>3. PICK x : x = [intent |-> w.intent, outcome |-> "ambiguous", at |-> clock]
    BY Zenon
  <2>4. x \in Receipt
    <3>1. w.intent \in Intent
      BY <1>1, <1>28, Zenon DEF RecoverLocked, TypeInv, CallTypes, CallsShaped, CallShape
    <3>. QED
      BY <2>3, <3>1, Zenon DEF Receipt, TypeInv, Tables
  <2>5. PICK v : v = [u EXCEPT !.receipt = x]
    BY Zenon
  <2>6. v.of = w.of
    BY <2>2, <2>4, <2>5, SetReceipt
  <2>7. Carries(r, "receipt", v) \/ Carries(r, "open_fence", u)
    BY <1>1, <1>28, <2>1, <2>3, <2>5, Zenon DEF RecoverLocked
  <2>. QED
    BY <1>28, <1>1, <1>3, <1>6, <2>2, <2>6, <2>7, Zenon DEF Arrives, ReservedSteps, Step
<1>29. CASE OpenFence(r)
  <2>1. \/ Goes(r, "effective")
        \/ \E f \in Fence, p \in {"observe", "fence"} : Carries(r, p, [w EXCEPT !.fence = f])
    <3>1. w.intent \in Intent
      BY <1>1, <1>29, Zenon DEF OpenFence, TypeInv, CallTypes, CallsShaped, CallShape
    <3>2. [intent |-> w.intent, at |-> clock] \in Fence
      BY <3>1, Zenon DEF Fence, TypeInv, Tables
    <3>3. slot.fence \in fences => slot.fence \in Fence
      BY ZenonT(40) DEF TypeInv, Tables
    <3>. QED
      BY <1>1, <1>29, <3>2, <3>3, Zenon DEF OpenFence
  <2>2. CASE Goes(r, "effective")
    BY <1>4, <1>6, <2>2, Zenon DEF Arrives, ReservedSteps, Step
  <2>3. ASSUME NEW f \in Fence, NEW p \in {"observe", "fence"},
               Carries(r, p, [w EXCEPT !.fence = f])
        PROVE  Arrives(r)
    <3>1. PICK v : v = [w EXCEPT !.fence = f]
      BY Zenon
    <3>2. v.of = w.of
      BY <1>2, <1>6, <3>1, SetFence
    <3>. QED
      BY <1>1, <1>3, <1>6, <2>3, <3>1, <3>2, Zenon DEF Arrives, ReservedSteps, Step
  <2>. QED
    BY <2>1, <2>2, <2>3, Zenon
<1>30. CASE Observe(r)
  <2>1. \/ Goes(r, "effective")
        \/ \E x \in Resolution : Carries(r, "resolution", [w EXCEPT !.resolution = x])
    <3>1. w.fence \in Fence
      BY <1>1, <1>30, Zenon DEF Observe, TypeInv, CallTypes, CallsShaped, CallShape, FenceSteps
    <3>2. \A out \in {"observed", "not_applied"} :
            [fence |-> w.fence, outcome |-> out, at |-> clock] \in Resolution
      BY <3>1, Zenon DEF Resolution, TypeInv, Tables
    <3>. QED
      BY <1>1, <1>30, <3>2, Zenon DEF Observe
  <2>2. CASE Goes(r, "effective")
    BY <1>4, <1>6, <2>2, Zenon DEF Arrives, ReservedSteps, Step
  <2>3. ASSUME NEW x \in Resolution, Carries(r, "resolution", [w EXCEPT !.resolution = x])
        PROVE  Arrives(r)
    <3>1. PICK v : v = [w EXCEPT !.resolution = x]
      BY Zenon
    <3>2. v.of = w.of
      BY <1>2, <1>6, <3>1, SetResolution
    <3>. QED
      BY <1>30, <1>1, <1>3, <1>6, <2>3, <3>1, <3>2, ZenonT(40) DEF Arrives, ReservedSteps, Step
  <2>. QED
    BY <2>1, <2>2, <2>3, Zenon
<1>31. CASE EffectiveResult(r)
  <2>1. PICK v : v = [w EXCEPT !.again = TRUE]
    BY Zenon
  <2>2. v.of = w.of
    BY <1>2, <1>6, <2>1, SetAgain, Zenon
  <2>3. Carries(r, "recover", v)
    BY <1>1, <1>31, <2>1, Zenon DEF EffectiveResult
  <2>. QED
    BY <1>1, <1>3, <1>6, <2>2, <2>3, Zenon DEF Arrives, ReservedSteps, Step
<1>. QED
  BY <1>10, <1>11, <1>12, <1>13, <1>14, <1>15, <1>16, <1>17, <1>18, <1>19, <1>20, <1>21,
     <1>22, <1>23, <1>24, <1>25, <1>26, <1>27, <1>28, <1>29, <1>30, <1>31, Zenon DEF RunnerStep

-----------------------------------------------------------------------------
(* One request for a stage.                                                 *)

(* The stage of an intent is one of the stages.                             *)
LEMMA KeyInStageOf ==
  ASSUME NEW i \in Intent
  PROVE  KeyOf(i) \in StageOf
BY Zenon DEF Intent, StageOf, KeyOf

(* An intent the three indexes name keeps them.                             *)
LEMMA IdentityKept ==
  ASSUME Kept, NEW i \in Intent, AssertStageIdentity(i)
  PROVE  AssertStageIdentity(i)'
BY KeyInStageOf, NoRecordAssumption, Zenon DEF Kept, AssertStageIdentity, KeyOf

(* As long as nothing is claimed or sent, and nobody else gets to send.     *)
LEMMA DispatchFrame ==
  ASSUME DispatchInv, Tables, Kept, UNCHANGED <<owners, sent>>,
         \A q \in Runners : pc'[q] = "dispatch" => pc[q] = "dispatch" /\ work'[q] = work[q]
  PROVE  DispatchInv'
<1>1. \A i \in owners : AssertStageIdentity(i)'
  BY IdentityKept, Zenon DEF DispatchInv, Tables
<1>. QED
  BY <1>1, Zenon DEF DispatchInv

(* No step of a runner sends a stage again (claim_mutation_dispatch).       *)
LEMMA DispatchStep ==
  ASSUME TypeInv, DispatchInv, NEW r \in Runners, RunnerStep(r), Kept
  PROVE  DispatchInv'
<1>1. PICK w : w = work[r]
  BY Zenon
<1>2. pc[r] # "idle" => w \in Work /\ CallShape(pc[r], w)
  BY <1>1, Zenon DEF TypeInv, CallTypes, CallsShaped
<1>3. Arrives(r)
  BY StepArrives, Zenon
<1>4. Tables
  BY Zenon DEF TypeInv
<1>5. \A q \in Runners \ {r} : pc'[q] = pc[q] /\ work'[q] = work[q]
  BY <1>3, ZenonT(40) DEF Arrives
<1>6. \A i \in owners : i \in Intent /\ AssertStageIdentity(i) /\ AssertStageIdentity(i)'
  BY <1>4, IdentityKept, Zenon DEF DispatchInv, Tables
<1>7. CASE UNCHANGED <<owners, sent>> /\ pc'[r] # "dispatch"
  BY <1>4, <1>5, <1>7, DispatchFrame, Zenon
<1>8. CASE ClaimDispatchOwner(r) /\ ~Returns(r)
  <2>1. /\ pc[r] = "claim" /\ w.intent \in Intent /\ KeyOf(w.intent) = w.of
        /\ w \in Work /\ w.of \in StageOf
    BY <1>2, <1>8, Zenon DEF ClaimDispatchOwner, CallShape, Work
  <2>2. /\ AssertStageIdentity(w.intent) /\ w.intent \notin owners
        /\ owners' = owners \cup {w.intent} /\ Goes(r, "dispatch")
        /\ UNCHANGED sent
    BY <1>1, <1>8, Zenon DEF ClaimDispatchOwner, IntentReadable, ClaimMutationDispatch, provider
  <2>3. pc'[r] = "dispatch" /\ work'[r] = w
    BY <1>1, <2>2, Zenon DEF Goes, TypeInv, CallTypes
  <2>4. \A j \in owners : KeyOf(j) # w.of
    BY <1>6, <2>1, <2>2, Zenon DEF AssertStageIdentity, KeyOf, Index
  <2>5. sent[w.of] = 0
    BY <2>1, <2>4, Zenon DEF DispatchInv
  <2>6. \A q \in Runners : pc[q] = "dispatch" => KeyOf(work[q].intent) = work[q].of
    BY Zenon DEF TypeInv, CallTypes, CallsShaped, CallShape
  <2>7. \A q \in Runners : pc[q] = "dispatch" => work[q].of # w.of
    BY <2>4, <2>6, Zenon DEF DispatchInv
  <2>8. AssertStageIdentity(w.intent)'
    BY <2>1, <2>2, IdentityKept, Zenon
  <2>9. \A i \in owners' : AssertStageIdentity(i)'
    BY <1>6, <2>2, <2>8, Zenon
  <2>10. \A q \in Runners : pc'[q] = "dispatch" =>
           work'[q].intent \in owners' /\ sent'[work'[q].of] = 0
    <3>1. TAKE q \in Runners
    <3>2. CASE q = r
      BY <2>2, <2>3, <2>5, <3>2, Zenon
    <3>3. CASE q # r
      <4>1. pc[q] = "dispatch" => work[q].intent \in owners /\ sent[work[q].of] = 0
        BY Zenon DEF DispatchInv
      <4>. QED
        BY <1>5, <2>2, <3>3, <4>1, Zenon
    <3>. QED
      BY <3>2, <3>3, Zenon
  <2>11. \A p, q \in Runners :
           pc'[p] = "dispatch" /\ pc'[q] = "dispatch" /\ work'[p].of = work'[q].of => p = q
    <3>1. TAKE p, q \in Runners
    <3>2. pc[p] = "dispatch" /\ pc[q] = "dispatch" /\ work[p].of = work[q].of => p = q
      BY ZenonT(40) DEF DispatchInv
    <3>. QED
      BY <1>5, <2>3, <2>7, <3>2, Zenon
  <2>. QED
    BY <2>2, <2>9, <2>10, <2>11, Zenon DEF DispatchInv
<1>9. CASE Dispatch(r) /\ ~Returns(r)
  <2>1. /\ pc[r] = "dispatch" /\ KeyOf(w.intent) = w.of /\ w \in Work /\ w.of \in StageOf
    BY <1>2, <1>9, Zenon DEF Dispatch, CallShape, Work
  <2>2. /\ sent' = [sent EXCEPT ![w.of] = @ + 1] /\ Goes(r, "answer")
        /\ UNCHANGED owners
    BY <1>1, <1>9, Zenon DEF Dispatch, indexes
  <2>3. pc'[r] = "answer"
    BY <2>2, Zenon DEF Goes, TypeInv, CallTypes
  <2>4. w.intent \in owners /\ sent[w.of] = 0
    BY <1>1, <2>1, Zenon DEF DispatchInv
  <2>5. /\ sent'[w.of] = 1
        /\ \A x \in StageOf \ {w.of} : sent'[x] = sent[x]
    BY <1>4, <2>1, <2>2, <2>4 DEF Tables
  <2>6. \A q \in Runners \ {r} : pc[q] = "dispatch" => work[q].of # w.of
    BY <1>1, <2>1, Zenon DEF DispatchInv
  <2>7. \A q \in Runners \ {r} : pc[q] = "dispatch" => work[q].of \in StageOf
    BY ZenonT(40) DEF TypeInv, CallTypes, Work
  <2>8. \A q \in Runners : pc'[q] = "dispatch" =>
           work'[q].intent \in owners' /\ sent'[work'[q].of] = 0
    <3>1. TAKE q \in Runners
    <3>2. CASE q # r /\ pc[q] = "dispatch"
      <4>1. work[q].intent \in owners /\ sent[work[q].of] = 0
        BY <3>2, Zenon DEF DispatchInv
      <4>2. work[q].of \in StageOf \ {w.of}
        BY <2>6, <2>7, <3>2, Zenon
      <4>. QED
        BY <1>5, <2>2, <2>5, <3>2, <4>1, <4>2, Zenon
    <3>. QED
      BY <1>5, <2>3, <3>2, Zenon
  <2>9. \A x \in StageOf : sent'[x] \in {0, 1} /\ (sent'[x] = 1 => \E i \in owners' : KeyOf(i) = x)
    BY <2>1, <2>2, <2>4, <2>5, Zenon DEF DispatchInv
  <2>10. \A p, q \in Runners :
           pc'[p] = "dispatch" /\ pc'[q] = "dispatch" /\ work'[p].of = work'[q].of => p = q
    BY <1>5, <2>3 DEF DispatchInv
  <2>. QED
    BY <1>6, <2>2, <2>8, <2>9, <2>10, Zenon DEF DispatchInv
<1>10. CASE Returns(r)
  <2>1. pc'[r] = "idle"
    BY <1>10, Zenon DEF Returns, TypeInv, CallTypes
  <2>2. UNCHANGED <<owners, sent>>
    BY <1>10, <2>1, ZenonT(40) DEF RunnerStep, RunStage, Reserve, RepairTargetMutationReservation,
       CasStageIdentity, CasOperationStageIdentity, CasExternalObjectIdentity, CasIdentity,
       RecordMutationIntent, ClaimDispatchOwner, Dispatch, Answer, RecordMutationReceipt,
       IndexMutationReceipt, CloseTargetReservation, RemoveSlotDirectory, RecoverLocked,
       OpenFence, CasTargetFence, RecordUnresolvedMutationFence, Observe,
       RecordFenceResolution, IndexFenceResolution, CloseTargetFence, EffectiveResult,
       Goes, indexes, provider, TypeInv, CallTypes
  <2>. QED
    BY <1>7, <2>1, <2>2, Zenon
<1>11. CASE ~ClaimDispatchOwner(r) /\ ~Dispatch(r)
  <2>1. UNCHANGED <<owners, sent>>
    BY <1>11, ZenonT(40) DEF RunnerStep, RunStage, Reserve, RepairTargetMutationReservation,
       CasStageIdentity, CasOperationStageIdentity, CasExternalObjectIdentity, CasIdentity,
       RecordMutationIntent, Answer, RecordMutationReceipt,
       IndexMutationReceipt, CloseTargetReservation, RemoveSlotDirectory, RecoverLocked,
       OpenFence, CasTargetFence, RecordUnresolvedMutationFence, Observe,
       RecordFenceResolution, IndexFenceResolution, CloseTargetFence, EffectiveResult,
       indexes, provider
  <2>. QED
    BY <1>3, <1>7, <1>11, <2>1, Zenon DEF Arrives
<1>. QED
  BY <1>8, <1>9, <1>10, <1>11, Zenon

-----------------------------------------------------------------------------
(* Recorded effects are real.                                               *)

(* No step of a runner records what did not happen (_verify_result).        *)
LEMMA EffectStep ==
  ASSUME TypeInv, EffectInv, NEW r \in Runners, RunnerStep(r)
  PROVE  EffectInv'
<1>1. PICK w : w = work[r]
  BY Zenon
<1>2. pc[r] # "idle" => w \in Work /\ CallShape(pc[r], w)
  BY <1>1, Zenon DEF TypeInv, CallTypes, CallsShaped
<1>3. Arrives(r)
  BY StepArrives, Zenon
<1>4. UNCHANGED effects
  BY Zenon DEF RunnerStep, RunStage, Reserve, RepairTargetMutationReservation,
     CasStageIdentity, CasOperationStageIdentity, CasExternalObjectIdentity, CasIdentity,
     RecordMutationIntent, ClaimDispatchOwner, Dispatch, Answer, RecordMutationReceipt,
     IndexMutationReceipt, CloseTargetReservation, RemoveSlotDirectory, RecoverLocked,
     OpenFence, CasTargetFence, RecordUnresolvedMutationFence, Observe,
     RecordFenceResolution, IndexFenceResolution, CloseTargetFence, EffectiveResult, provider
<1>5. \A x : (TrueReceipt(x) => TrueReceipt(x)') /\ (TrueResolution(x) => TrueResolution(x)')
  BY <1>4, ZenonT(40) DEF TrueReceipt, TrueResolution
<1>6. \A x \in receiptIdentity' : TrueReceipt(x)'
  <2>1. receiptIdentity' = receiptIdentity
        \/ (pc[r] = "receipt" /\ receiptIdentity' = receiptIdentity \cup {w.receipt})
    BY <1>1, Zenon DEF RunnerStep, RunStage, Reserve, RepairTargetMutationReservation,
       CasStageIdentity, CasOperationStageIdentity, CasExternalObjectIdentity, CasIdentity,
       RecordMutationIntent, ClaimDispatchOwner, Dispatch, Answer, RecordMutationReceipt,
       IndexMutationReceipt, CloseTargetReservation, RemoveSlotDirectory, RecoverLocked,
       OpenFence, CasTargetFence, RecordUnresolvedMutationFence, Observe,
       RecordFenceResolution, IndexFenceResolution, CloseTargetFence, EffectiveResult, indexes
  <2>2. pc[r] = "receipt" => TrueReceipt(w.receipt)
    BY <1>1, Zenon DEF EffectInv
  <2>. QED
    BY <1>5, <2>1, <2>2, Zenon DEF EffectInv
<1>7. \A x \in resolutionIdentity' : TrueResolution(x)'
  <2>1. resolutionIdentity' = resolutionIdentity
        \/ (pc[r] = "resolution" /\ resolutionIdentity' = resolutionIdentity \cup {w.resolution})
    BY <1>1, Zenon DEF RunnerStep, RunStage, Reserve, RepairTargetMutationReservation,
       CasStageIdentity, CasOperationStageIdentity, CasExternalObjectIdentity, CasIdentity,
       RecordMutationIntent, ClaimDispatchOwner, Dispatch, Answer, RecordMutationReceipt,
       IndexMutationReceipt, CloseTargetReservation, RemoveSlotDirectory, RecoverLocked,
       OpenFence, CasTargetFence, RecordUnresolvedMutationFence, Observe,
       RecordFenceResolution, IndexFenceResolution, CloseTargetFence, EffectiveResult, indexes
  <2>2. pc[r] = "resolution" => TrueResolution(w.resolution)
    BY <1>1, Zenon DEF EffectInv
  <2>. QED
    BY <1>5, <2>1, <2>2, Zenon DEF EffectInv
<1>8. pc'[r] = "receipt" => \E x : work'[r].receipt = x /\ TrueReceipt(x)
  <2>1. CASE Answer(r)
    <3>1. pc[r] = "answer" /\ w \in Work /\ w.intent \in Intent
      BY <1>2, <2>1, Zenon DEF Answer, CallShape
    <3>2. PICK out \in {"applied", "rejected", "ambiguous"} :
            /\ out = "applied" => KeyOf(w.intent) \in effects
            /\ Carries(r, "receipt", [work[r] EXCEPT !.receipt =
                 [intent |-> w.intent, outcome |-> out, at |-> clock]])
      BY <1>1, <2>1, Zenon DEF Answer, KeyOf
    <3>3. PICK x : x = [intent |-> w.intent, outcome |-> out, at |-> clock]
      BY Zenon
    <3>4. x \in Receipt /\ x.intent = w.intent /\ x.outcome = out
      BY <3>1, <3>3, Zenon DEF Receipt, TypeInv, Tables
    <3>5. PICK v : v = [w EXCEPT !.receipt = x]
      BY Zenon
    <3>6. v.receipt = x
      BY <3>1, <3>4, <3>5, SetReceipt
    <3>7. work'[r] = v
      BY <1>1, <3>2, <3>3, <3>5, Zenon DEF Carries, TypeInv, CallTypes
    <3>8. TrueReceipt(x)
      BY <3>2, <3>4, Zenon DEF TrueReceipt
    <3>. QED
      BY <3>6, <3>7, <3>8, Zenon
  <2>2. CASE RecoverLocked(r) /\ pc'[r] = "receipt"
    <3>1. pc[r] = "recover" /\ w \in Work /\ w.intent \in Intent
      BY <1>2, <2>2, Zenon DEF RecoverLocked, CallShape
    <3>2. PICK x : x = [intent |-> w.intent, outcome |-> "ambiguous", at |-> clock]
      BY Zenon
    <3>3. x \in Receipt /\ x.outcome = "ambiguous"
      BY <3>1, <3>2, Zenon DEF Receipt, TypeInv, Tables
    <3>4. PICK u : u = [w EXCEPT !.recovering = TRUE]
      BY Zenon
    <3>5. PICK v : v = [u EXCEPT !.receipt = x]
      BY Zenon
    <3>6. v.receipt = x
      BY <3>1, <3>3, <3>4, <3>5, SetRecovering, SetReceipt
    <3>7. \/ Carries(r, "receipt", v) \/ Carries(r, "open_fence", u) \/ Returns(r)
      BY <1>1, <2>2, <3>2, <3>4, <3>5, Zenon DEF RecoverLocked
    <3>8. Carries(r, "receipt", v)
      BY <2>2, <3>7, Zenon DEF Carries, Returns, TypeInv, CallTypes
    <3>9. work'[r] = v
      BY <3>8, Zenon DEF Carries, TypeInv, CallTypes
    <3>10. TrueReceipt(x)
      BY <3>3, Zenon DEF TrueReceipt
    <3>. QED
      BY <3>6, <3>9, <3>10, Zenon
  <2>. QED
    BY <1>3, <2>1, <2>2, Zenon DEF Arrives
<1>9. pc'[r] = "resolution" => \E x : work'[r].resolution = x /\ TrueResolution(x)
  <2> SUFFICES ASSUME pc'[r] = "resolution", Observe(r)
               PROVE  \E x : work'[r].resolution = x /\ TrueResolution(x)
    BY <1>3, Zenon DEF Arrives
  <2>1. /\ pc[r] = "observe" /\ w \in Work /\ w.fence \in Fence
        /\ w.fence.intent = w.intent /\ KeyOf(w.intent) = w.of
    BY <1>2, Zenon DEF Observe, CallShape, FenceSteps
  <2>2. PICK out \in {"observed", "not_applied"} :
          /\ out = "observed" => w.of \in effects
          /\ Carries(r, "resolution", [work[r] EXCEPT !.resolution =
               [fence |-> w.fence, outcome |-> out, at |-> clock]])
    <3>1. ~Returns(r) /\ ~Goes(r, "effective")
      BY Zenon DEF Returns, Goes, TypeInv, CallTypes
    <3>. QED
      BY <1>1, <3>1, Zenon DEF Observe, Observed
  <2>3. PICK x : x = [fence |-> w.fence, outcome |-> out, at |-> clock]
    BY ZenonT(40)
  <2>4. x \in Resolution /\ x.fence = w.fence /\ x.outcome = out
    BY <2>1, <2>3, Zenon DEF Resolution, TypeInv, Tables
  <2>5. PICK v : v = [w EXCEPT !.resolution = x]
    BY Zenon
  <2>6. v.resolution = x
    BY <2>1, <2>4, <2>5, SetResolution, Zenon
  <2>7. work'[r] = v
    BY <1>1, <2>2, <2>3, <2>5, Zenon DEF Carries, TypeInv, CallTypes
  <2>8. TrueResolution(x)
    BY <2>1, <2>2, <2>4, Zenon DEF TrueResolution
  <2>. QED
    BY <2>6, <2>7, <2>8, ZenonT(40)
<1>10. \A q \in Runners : pc'[q] = "receipt" => TrueReceipt(work[q].receipt)'
  <2> SUFFICES ASSUME NEW q \in Runners, pc'[q] = "receipt"
               PROVE  TrueReceipt(work[q].receipt)'
    BY Zenon
  <2>1. PICK x : x = work'[q].receipt /\ TrueReceipt(x)
    BY <1>3, <1>8, Zenon DEF Arrives, EffectInv
  <2>. QED
    BY <1>5, <2>1, Zenon DEF TrueReceipt
<1>11. \A q \in Runners : pc'[q] = "resolution" => TrueResolution(work[q].resolution)'
  <2> SUFFICES ASSUME NEW q \in Runners, pc'[q] = "resolution"
               PROVE  TrueResolution(work[q].resolution)'
    BY Zenon
  <2>1. PICK x : x = work'[q].resolution /\ TrueResolution(x)
    BY <1>3, <1>9, Zenon DEF Arrives, EffectInv
  <2>. QED
    BY <1>5, <2>1, Zenon DEF TrueResolution
<1>12. \A q \in Runners : pc'[q] # "idle" /\ work'[q].of[2] = "release_transition" =>
         <<work'[q].of[1], "queue_enqueue">> \in effects'
  BY <1>3, <1>4, Zenon DEF Arrives, EffectInv
<1>13. \A o \in Operations :
         sent'[<<o, "release_transition">>] > 0 => <<o, "queue_enqueue">> \in effects'
  <2>1. sent' = sent
        \/ (pc[r] = "dispatch" /\ sent' = [sent EXCEPT ![w.of] = @ + 1])
    BY <1>1, ZenonT(40) DEF RunnerStep, RunStage, Reserve, RepairTargetMutationReservation,
       CasStageIdentity, CasOperationStageIdentity, CasExternalObjectIdentity, CasIdentity,
       RecordMutationIntent, ClaimDispatchOwner, Dispatch, Answer, RecordMutationReceipt,
       IndexMutationReceipt, CloseTargetReservation, RemoveSlotDirectory, RecoverLocked,
       OpenFence, CasTargetFence, RecordUnresolvedMutationFence, Observe,
       RecordFenceResolution, IndexFenceResolution, CloseTargetFence, EffectiveResult, provider
  <2>2. CASE sent' = sent
    BY <1>4, <2>2, Zenon DEF EffectInv
  <2>3. CASE pc[r] = "dispatch" /\ sent' = [sent EXCEPT ![w.of] = @ + 1]
    <3> SUFFICES ASSUME NEW o \in Operations, sent'[<<o, "release_transition">>] > 0
                 PROVE  <<o, "queue_enqueue">> \in effects
      BY <1>4, Zenon
    <3>1. <<o, "release_transition">> \in StageOf
      BY Zenon DEF StageOf, Stage
    <3>2. CASE w.of = <<o, "release_transition">>
      BY <1>1, <2>3, <3>2 DEF EffectInv
    <3>3. CASE w.of # <<o, "release_transition">>
      <4>1. sent'[<<o, "release_transition">>] = sent[<<o, "release_transition">>]
        BY <2>3, <3>1, <3>3, Zenon DEF TypeInv, Tables
      <4>. QED
        BY <4>1, Zenon DEF EffectInv
    <3>. QED
      BY <3>2, <3>3, Zenon
  <2>. QED
    BY <2>1, <2>2, <2>3, Zenon
<1>. QED
  BY <1>6, <1>7, <1>10, <1>11, <1>12, <1>13, Zenon DEF EffectInv

-----------------------------------------------------------------------------
(* The slot is kept until the intent is settled.                            *)

(* What is settled stays settled.                                           *)
LEMMA SettledKept ==
  ASSUME Grow, NEW i, Settled(i)
  PROVE  Settled(i)'
BY Zenon DEF Grow, Settled, Terminal, ReadReceiptForIntent, ReadFenceResolutionByIntent

(* The slot names at most one intent.                                       *)
LEMMA NamesOne ==
  ASSUME SlotInv, NEW i \in Intent, NEW j \in Intent, Names(i), Names(j)
  PROVE  i = j
BY NoRecordAssumption DEF SlotInv, Names

(* The parts of SlotInv that speak of the slot and its history.             *)
SlotShape ==
  /\ slot.fence # NoRecord /\ slot.reservation # NoRecord =>
       slot.reservation = slot.fence.intent
  /\ \A f \in closed : ReadFenceResolutionByFence(f) # {}

(* An action on the slot gives it up for settled intents only.              *)
LEMMA SlotActionKeeps ==
  ASSUME TypeInv, SlotInv, Grow, NEW r \in Runners,
         \/ Reserve(r) \/ RepairTargetMutationReservation(r) \/ CloseTargetReservation(r)
         \/ RemoveSlotDirectory(r) \/ CasTargetFence(r) \/ CloseTargetFence(r)
  PROVE  SlotShape' /\ \A i \in Intent : Held(i) => Held(i)'
<1>1. PICK w : w = work[r]
  BY Zenon
<1>2. pc[r] # "idle" => w \in Work /\ CallShape(pc[r], w)
  BY <1>1, Zenon DEF TypeInv, CallTypes, CallsShaped
<1>3. PICK s : s = slot
  BY Zenon
<1>4. /\ s \in [dir : BOOLEAN, reservation : Intent \cup {NoRecord},
                fence : Fence \cup {NoRecord}]
      /\ s.dir \/ s = FreeSlot
      /\ s.fence # NoRecord /\ s.reservation # NoRecord => s.reservation = s.fence.intent
      /\ \A i : Names(i) <=> (s.reservation = i \/ (s.fence # NoRecord /\ s.fence.intent = i))
  BY <1>3, Zenon DEF TypeInv, Tables, SlotInv, Names
<1>5. UNCHANGED <<receiptIdentity, resolutionIdentity>>
  BY Zenon DEF Reserve, RepairTargetMutationReservation, CloseTargetReservation,
     RemoveSlotDirectory, CasTargetFence, CloseTargetFence, indexes
<1>6. \A i : Settled(i) => Settled(i)'
  BY SettledKept, Zenon
<1>7. \A f : ReadFenceResolutionByFence(f) # {} =>
               ReadFenceResolutionByFence(f)' # {} /\ Settled(f.intent)
  BY <1>5, Zenon DEF ReadFenceResolutionByFence, Settled, ReadFenceResolutionByIntent
<1>8. CASE slot' = slot /\ closed' = closed
  BY <1>6, <1>7, <1>8, Zenon DEF SlotInv, SlotShape, Held, Names
<1>9. CASE /\ slot' = FreeSlot
           /\ s.fence # NoRecord /\ ReadFenceResolutionByFence(s.fence) # {}
           /\ closed' = closed \cup {s.fence}
  <2>1. \A i \in Intent : Names(i) => i = s.fence.intent
    BY <1>4, <1>9, NoRecordAssumption, Zenon
  <2>2. \A i \in Intent : Held(i) => Settled(i)'
    BY <1>6, <1>7, <1>9, <2>1, ZenonT(40) DEF Held
  <2>3. \A f \in closed' : ReadFenceResolutionByFence(f)' # {}
    BY <1>7, <1>9, Zenon DEF SlotInv
  <2>. QED
    BY <1>9, <2>2, <2>3, FreeSlotType, Zenon DEF SlotShape, Held
<1>10. CASE Reserve(r)
  <2>1. w.intent \in Intent /\ closed' = closed
    BY <1>2, <1>10, Zenon DEF Reserve, CallShape
  <2>2. \/ slot' = slot
        \/ /\ slot' = [dir |-> TRUE, reservation |-> w.intent, fence |-> NoRecord]
           /\ s.fence = NoRecord /\ s.reservation = NoRecord
    BY <1>1, <1>3, <1>10, Zenon DEF Reserve, ReservePermitted, ReserveFree
  <2>3. CASE /\ slot' = [dir |-> TRUE, reservation |-> w.intent, fence |-> NoRecord]
             /\ s.fence = NoRecord /\ s.reservation = NoRecord
    <3>1. \A i \in Intent : ~Names(i)
      BY <1>4, <2>3, NoRecordAssumption, Zenon
    <3>2. \A i \in Intent : Held(i) => Held(i)'
      BY <1>6, <3>1, Zenon DEF Held
    <3>3. \A f \in closed' : ReadFenceResolutionByFence(f)' # {}
      BY <1>7, <2>1, Zenon DEF SlotInv
    <3>. QED
      BY <2>3, <3>2, <3>3, Zenon DEF SlotShape
  <2>. QED
    BY <1>8, <2>1, <2>2, <2>3, Zenon
<1>11. CASE RepairTargetMutationReservation(r)
  <2>1. \/ slot' = slot /\ closed' = closed
        \/ /\ slot' = FreeSlot /\ closed' = closed \cup {s.fence}
           /\ s.fence # NoRecord /\ ReadFenceResolutionByFence(s.fence) # {}
        \/ /\ slot' = [s EXCEPT !.reservation = w.intent] /\ closed' = closed
           /\ s.fence # NoRecord /\ s.fence.intent = w.intent
           /\ s.reservation \in {NoRecord, w.intent}
    BY <1>1, <1>3, <1>11, Zenon DEF RepairTargetMutationReservation
  <2>2. CASE /\ slot' = [s EXCEPT !.reservation = w.intent] /\ closed' = closed
             /\ s.fence # NoRecord /\ s.fence.intent = w.intent
             /\ s.reservation \in {NoRecord, w.intent}
    <3>1. slot'.reservation = w.intent /\ slot'.fence = s.fence
      BY <1>4, <2>2, Zenon
    <3>2. \A i \in Intent : Names(i) => Names(i)'
      BY <1>4, <2>2, <3>1, NoRecordAssumption, Zenon DEF Names
    <3>3. \A i \in Intent : Held(i) => Held(i)'
      BY <1>6, <3>2, Zenon DEF Held
    <3>4. \A f \in closed' : ReadFenceResolutionByFence(f)' # {}
      BY <1>7, <2>2, Zenon DEF SlotInv
    <3>. QED
      BY <2>2, <3>1, <3>3, <3>4, Zenon DEF SlotShape
  <2>. QED
    BY <1>8, <1>9, <2>1, <2>2, Zenon
<1>12. CASE CloseTargetReservation(r)
  <2>1. pc[r] = "unlink" /\ w.intent \in Intent /\ Terminal(w.intent) /\ closed' = closed
    BY <1>2, <1>12, Zenon DEF CloseTargetReservation, CallShape
  <2>2. \/ slot' = slot
        \/ slot' = [s EXCEPT !.reservation = NoRecord] /\ s.reservation = w.intent
    BY <1>1, <1>3, <1>12, Zenon DEF CloseTargetReservation
  <2>3. CASE slot' = [s EXCEPT !.reservation = NoRecord] /\ s.reservation = w.intent
    <3>1. slot'.reservation = NoRecord /\ slot'.fence = s.fence
      BY <1>4, <2>3, Zenon
    <3>2. \A i \in Intent : Names(i) => Names(i)' \/ i = w.intent
      BY <1>4, <2>3, <3>1, Zenon DEF Names
    <3>3. Settled(w.intent)
      BY <2>1, Zenon DEF Settled
    <3>4. \A i \in Intent : Held(i) => Held(i)'
      BY <1>6, <3>2, <3>3, Zenon DEF Held
    <3>5. \A f \in closed' : ReadFenceResolutionByFence(f)' # {}
      BY <1>7, <2>1, Zenon DEF SlotInv
    <3>. QED
      BY <3>1, <3>4, <3>5, Zenon DEF SlotShape
  <2>. QED
    BY <1>8, <2>1, <2>2, <2>3, Zenon
<1>13. CASE RemoveSlotDirectory(r)
  <2>1. closed' = closed
    BY <1>13, Zenon DEF RemoveSlotDirectory
  <2>2. \/ slot' = slot
        \/ slot' = FreeSlot /\ s.fence = NoRecord /\ s.reservation = NoRecord
    BY <1>3, <1>13, Zenon DEF RemoveSlotDirectory
  <2>3. CASE slot' = FreeSlot /\ s.fence = NoRecord /\ s.reservation = NoRecord
    <3>1. \A i \in Intent : ~Names(i)
      BY <1>4, <2>3, NoRecordAssumption, Zenon
    <3>2. \A i \in Intent : Held(i) => Held(i)'
      BY <1>6, <3>1, Zenon DEF Held
    <3>3. \A f \in closed' : ReadFenceResolutionByFence(f)' # {}
      BY <1>7, <2>1, Zenon DEF SlotInv
    <3>. QED
      BY <2>3, <3>2, <3>3, FreeSlotType, Zenon DEF SlotShape
  <2>. QED
    BY <1>8, <2>1, <2>2, <2>3, Zenon
<1>14. CASE CasTargetFence(r)
  <2>1. w.fence \in Fence
    BY <1>2, <1>14, Zenon DEF CasTargetFence, CallShape, FenceSteps
  <2>2. \/ slot' = slot /\ closed' = closed
        \/ /\ slot' = FreeSlot /\ closed' = closed \cup {s.fence}
           /\ s.fence # NoRecord /\ ReadFenceResolutionByFence(s.fence) # {}
        \/ /\ slot' = [dir |-> TRUE, reservation |-> s.reservation, fence |-> w.fence]
           /\ closed' = closed
           /\ s.fence \in {NoRecord, w.fence}
           /\ s.dir /\ s.fence = NoRecord => s.reservation = w.fence.intent
    BY <1>1, <1>3, <1>14, Zenon DEF CasTargetFence, FenceRefused
  <2>3. CASE /\ slot' = [dir |-> TRUE, reservation |-> s.reservation, fence |-> w.fence]
             /\ closed' = closed
             /\ s.fence \in {NoRecord, w.fence}
             /\ s.dir /\ s.fence = NoRecord => s.reservation = w.fence.intent
    <3>1. slot'.reservation = s.reservation /\ slot'.fence = w.fence
      BY <2>3, Zenon
    <3>2. \A i \in Intent : Names(i) => Names(i)'
      BY <1>4, <2>1, <2>3, <3>1, NoRecordAssumption, Zenon DEF Names
    <3>3. \A i \in Intent : Held(i) => Held(i)'
      BY <1>6, <3>2, Zenon DEF Held
    <3>4. s.reservation # NoRecord => s.reservation = w.fence.intent
      BY <1>4, <2>1, <2>3, FreeSlotType, NoRecordAssumption, Zenon
    <3>5. \A f \in closed' : ReadFenceResolutionByFence(f)' # {}
      BY <1>7, <2>3, Zenon DEF SlotInv
    <3>. QED
      BY <3>1, <3>3, <3>4, <3>5, Zenon DEF SlotShape
  <2>. QED
    BY <1>8, <1>9, <2>2, <2>3, Zenon
<1>15. CASE CloseTargetFence(r)
  <2>1. /\ w.fence \in Fence /\ w.resolution \in resolutionIdentity
        /\ w.resolution.fence = w.fence
    BY <1>2, <1>15, Zenon DEF CloseTargetFence, CallShape, FenceSteps
  <2>2. ReadFenceResolutionByFence(w.fence) # {} /\ w.fence # NoRecord
    BY <2>1, NoRecordAssumption, Zenon DEF ReadFenceResolutionByFence
  <2>3. \/ slot' = slot /\ closed' = closed
        \/ slot' = FreeSlot /\ closed' = closed \cup {w.fence} /\ s.fence = w.fence
    BY <1>1, <1>3, <1>15, Zenon DEF CloseTargetFence
  <2>. QED
    BY <1>8, <1>9, <2>2, <2>3, Zenon
<1>. QED
  BY <1>10, <1>11, <1>12, <1>13, <1>14, <1>15, Zenon

(* No step of a runner takes the slot from an unsettled intent.             *)
LEMMA SlotStep ==
  ASSUME TypeInv, TypeInv', SlotInv, Grow, NEW r \in Runners, RunnerStep(r)
  PROVE  SlotInv'
<1>1. PICK w : w = work[r]
  BY Zenon
<1>2. pc[r] # "idle" => w \in Work /\ CallShape(pc[r], w)
  BY <1>1, Zenon DEF TypeInv, CallTypes, CallsShaped
<1>3. Arrives(r)
  BY StepArrives, Zenon
<1>4. \A i : Settled(i) => Settled(i)'
  BY SettledKept, Zenon
<1> DEFINE OnSlot == \/ Reserve(r) \/ RepairTargetMutationReservation(r)
                     \/ CloseTargetReservation(r) \/ RemoveSlotDirectory(r)
                     \/ CasTargetFence(r) \/ CloseTargetFence(r)
<1>5. SlotShape' /\ \A i \in Intent : Held(i) => Held(i)'
  <2>1. CASE OnSlot
    BY <2>1, SlotActionKeeps, Zenon
  <2>2. CASE ~OnSlot
    <3>1. UNCHANGED <<slot, closed>>
      BY <2>2, Zenon DEF RunnerStep, RunStage, CasStageIdentity, CasOperationStageIdentity,
         CasExternalObjectIdentity, CasIdentity, RecordMutationIntent, ClaimDispatchOwner,
         Dispatch, Answer, RecordMutationReceipt, IndexMutationReceipt, RecoverLocked,
         OpenFence, RecordUnresolvedMutationFence, Observe, RecordFenceResolution,
         IndexFenceResolution, EffectiveResult, target
    <3>2. \A f : ReadFenceResolutionByFence(f) # {} => ReadFenceResolutionByFence(f)' # {}
      BY Zenon DEF Grow, ReadFenceResolutionByFence
    <3>. QED
      BY <1>4, <3>1, <3>2, Zenon DEF SlotInv, SlotShape, Held, Names
  <2>. QED
    BY <2>1, <2>2, Zenon
<1>6. \A i \in intents' : Held(i)'
  <2>1. \/ intents' = intents
        \/ pc[r] = "intent" /\ intents' = intents \cup {w.intent}
    BY <1>1, Zenon DEF RunnerStep, RunStage, Reserve, RepairTargetMutationReservation,
       CasStageIdentity, CasOperationStageIdentity, CasExternalObjectIdentity, CasIdentity,
       RecordMutationIntent, ClaimDispatchOwner, Dispatch, Answer, RecordMutationReceipt,
       IndexMutationReceipt, CloseTargetReservation, RemoveSlotDirectory, RecoverLocked,
       OpenFence, CasTargetFence, RecordUnresolvedMutationFence, Observe,
       RecordFenceResolution, IndexFenceResolution, CloseTargetFence, EffectiveResult, indexes
  <2>2. \A i \in intents : i \in Intent /\ Held(i)
    BY ZenonT(40) DEF TypeInv, Tables, SlotInv
  <2>3. pc[r] = "intent" => w.intent \in Intent /\ Held(w.intent)
    BY <1>1, <1>2, ZenonT(40) DEF SlotInv, CallShape
  <2>. QED
    BY <1>5, <2>1, <2>2, <2>3, Zenon
<1>7. ASSUME NEW q \in Runners, pc'[q] \in ReservedSteps
      PROVE  \E i \in Intent : i = work'[q].intent /\ Held(i)'
  <2>1. work'[q] = work[q]
    BY <1>3, <1>7, Zenon DEF Arrives
  <2>2. work'[q].intent \in Intent
    BY <1>7, Zenon DEF TypeInv, CallTypes, CallsShaped, CallShape, ReservedSteps
  <2>3. PICK i \in Intent : i = work[q].intent /\ i = work'[q].intent
    BY <2>1, <2>2, Zenon
  <2>4. CASE pc[q] \in ReservedSteps
    <3>1. Held(i)
      BY <2>3, <2>4, ZenonT(40) DEF SlotInv, ReservedSteps
    <3>. QED
      BY <1>5, <2>3, <3>1, Zenon
  <2>5. CASE pc[q] \notin ReservedSteps
    <3>1. q = r /\ pc'[r] = "stage"
      BY <1>3, <1>7, <2>5, Zenon DEF Arrives
    <3>2. w.intent = i
      BY <1>1, <2>3, <3>1, ZenonT(40)
    <3>3. CASE Reserve(r)
      <4>1. ~Returns(r) /\ ~Goes(r, "effective")
        BY <3>1, Zenon DEF Returns, Goes, TypeInv, CallTypes
      <4>2. \/ Names(i) /\ slot' = slot
            \/ slot' = [dir |-> TRUE, reservation |-> i, fence |-> NoRecord]
        BY <1>1, <3>2, <3>3, <4>1, Zenon DEF Reserve, RecordIntentFails
      <4>3. Names(i)'
        BY <4>2 DEF Names
      <4>. QED
        BY <2>3, <4>3, Zenon DEF Held
    <3>4. CASE RepairTargetMutationReservation(r)
      <4>1. ~Returns(r) /\ ~Goes(r, "effective")
        BY <3>1, Zenon DEF Returns, Goes, TypeInv, CallTypes
      <4>2. \/ Terminal(i)
            \/ \E f \in closed : f.intent = i
            \/ slot.fence # NoRecord /\ slot.fence.intent = i
        BY <1>1, <3>2, <3>4, <4>1, ZenonT(40) DEF RepairTargetMutationReservation, RecordIntentFails
      <4>3. (\E f \in closed : f.intent = i) => Settled(i)
        BY Zenon DEF SlotInv, Settled, ReadFenceResolutionByFence, ReadFenceResolutionByIntent
      <4>4. Held(i)
        BY <4>2, <4>3, Zenon DEF Held, Settled, Names
      <4>. QED
        BY <1>5, <2>3, <4>4, Zenon
    <3>. QED
      BY <1>3, <3>1, <3>3, <3>4, Zenon DEF Arrives
  <2>. QED
    BY <2>4, <2>5, Zenon
<1>8. \A q \in Runners : pc'[q] \in ReservedSteps => Held(work[q].intent)'
  <2> SUFFICES ASSUME NEW q \in Runners, pc'[q] \in ReservedSteps
               PROVE  Held(work[q].intent)'
    BY Zenon
  <2>1. PICK i \in Intent : i = work'[q].intent /\ Held(i)'
    BY <1>7, Zenon
  <2>. QED
    BY <2>1, Zenon DEF Held, Names, Settled, Terminal, ReadReceiptForIntent,
       ReadFenceResolutionByIntent
<1>. QED
  BY <1>5, <1>6, <1>8, Zenon DEF SlotInv, SlotShape, ReservedSteps

-----------------------------------------------------------------------------
(* The invariant holds at the start and is kept by every step.              *)

(* Tables and CallTypes together are the typing part of Inv.                *)
LEMMA InvIsTypeInv == TypeInv <=> TypeOK /\ IdentityInv /\ CallsShaped
BY Zenon DEF TypeInv, Tables, CallTypes, TypeOK

(* Every step of prepare, complete and recover keeps the invariant.         *)
LEMMA RunnerStepKeeps ==
  ASSUME Inv, NEW r \in Runners, RunnerStep(r)
  PROVE  Inv'
<1>1. TypeInv
  BY InvIsTypeInv, Zenon DEF Inv
<1>2. Tables' /\ Grow /\ Kept
  BY <1>1, TablesStep, Zenon
<1>3. CallTypes'
  BY <1>1, <1>2, CallsStep, Zenon
<1>4. TypeInv'
  BY <1>2, <1>3, Zenon DEF TypeInv
<1>5. DispatchInv' /\ EffectInv' /\ SlotInv'
  BY <1>1, <1>2, <1>4, DispatchStep, EffectStep, SlotStep, Zenon DEF Inv
<1>. QED
  BY <1>4, <1>5, InvIsTypeInv, Zenon DEF Inv, TypeInv, Tables, CallTypes, TypeOK

(* A stage whose effective outcome is a success did happen at the provider, *)
(* whether its own receipt says so or the resolution of its fence.          *)
LEMMA AppliedIsEffect ==
  ASSUME TypeInv, EffectInv, NEW i \in Intent, Applied(i)
  PROVE  KeyOf(i) \in effects
<1>1. CASE ReadFenceResolutionByIntent(i) # {}
  <2>1. PICK x : x = CHOOSE y \in ReadFenceResolutionByIntent(i) : TRUE
    BY Zenon
  <2>2. x \in resolutionIdentity /\ x.fence.intent = i
    BY <1>1, <2>1, Zenon DEF ReadFenceResolutionByIntent
  <2>3. x.outcome \in {"applied", "observed"} /\ x \in Resolution
    BY <1>1, <2>1, <2>2, Zenon DEF Applied, EffectiveOutcome, TypeInv, Tables
  <2>4. x.outcome = "observed"
    BY <2>3, Zenon DEF Resolution
  <2>. QED
    BY <2>2, <2>4, Zenon DEF EffectInv, TrueResolution
<1>2. CASE ReadFenceResolutionByIntent(i) = {}
  <2>1. PICK x : x = CHOOSE y \in ReadReceiptForIntent(i) : TRUE
    BY Zenon
  <2>2. x \in receiptIdentity /\ x.intent = i
    BY <1>2, <2>1, Zenon DEF Applied, ReadReceiptForIntent
  <2>3. x.outcome \in {"applied", "observed"} /\ x \in Receipt
    BY <1>2, <2>1, <2>2, Zenon DEF Applied, EffectiveOutcome, TypeInv, Tables
  <2>4. x.outcome = "applied"
    BY <2>3, Zenon DEF Receipt
  <2>. QED
    BY <2>2, <2>4, Zenon DEF EffectInv, TrueReceipt
<1>. QED
  BY <1>1, <1>2, Zenon

(* A step that leaves the files alone and only ends or begins calls.        *)
LEMMA FilesUnchanged ==
  ASSUME Inv, UNCHANGED <<slot, closed, indexes, effects, sent>>, CallTypes', Tables',
         \A q \in Runners : \/ pc'[q] \in {"idle", "lookup"}
                            \/ pc'[q] = pc[q] /\ work'[q] = work[q],
         \A q \in Runners : pc'[q] = "lookup" /\ work'[q].of[2] = "release_transition" =>
           <<work'[q].of[1], "queue_enqueue">> \in effects
  PROVE  Inv'
<1>1. DispatchInv'
  <2>1. Kept /\ Tables
    BY InvIsTypeInv, Zenon DEF Kept, indexes, Inv, TypeInv
  <2>2. UNCHANGED <<owners, sent>>
    BY ZenonT(40) DEF indexes
  <2>3. \A q \in Runners : pc'[q] = "dispatch" => pc[q] = "dispatch" /\ work'[q] = work[q]
    BY Zenon
  <2>. QED
    BY <2>1, <2>2, <2>3, DispatchFrame, Zenon DEF Inv
<1>2. EffectInv'
  <2>1. UNCHANGED <<receiptIdentity, resolutionIdentity, effects, sent>>
    BY Zenon DEF indexes
  <2>. QED
    BY <2>1, ZenonT(40) DEF Inv, EffectInv, TrueReceipt, TrueResolution
<1>3. SlotInv'
  <2>1. UNCHANGED <<slot, closed, intents, receiptIdentity, resolutionIdentity>>
    BY Zenon DEF indexes
  <2>. QED
    BY <2>1, SMTT(30) DEF Inv, SlotInv, Held, Names, Settled, Terminal, ReadReceiptForIntent,
       ReadFenceResolutionByIntent, ReadFenceResolutionByFence
<1>. QED
  BY <1>1, <1>2, <1>3, Zenon DEF Inv, TypeOK, Tables, CallTypes

(* The step that shows an effect adds it, and no record speaks against it.  *)
LEMMA LandKeeps ==
  ASSUME Inv, NEW i \in inflight, Land(i)
  PROVE  Inv'
<1>1. TypeInv /\ Tables /\ CallTypes /\ i \in Intent
  BY InvIsTypeInv, Zenon DEF Inv, TypeInv, Tables
<1>2. /\ UNCHANGED <<time, target, indexes, sent, pc, work>>
      /\ effects' = effects \cup {KeyOf(i)} /\ inflight' \subseteq inflight
  BY Zenon DEF Land, KeyOf
<1>3. Grow /\ Kept
  BY <1>2, Zenon DEF Grow, Kept, indexes
<1>4. CallTypes'
  BY <1>1, <1>2, <1>3, StaysKeeps, ZenonT(40)
<1>5. Tables'
  BY <1>1, <1>2, KeyInStageOf, Zenon DEF Tables, IdentityInv, time, target, indexes
<1>6. DispatchInv'
  BY <1>1, <1>2, <1>3, DispatchFrame, Zenon DEF Inv, indexes
<1>7. EffectInv'
  BY <1>2, ZenonT(40) DEF Inv, EffectInv, TrueReceipt, TrueResolution, indexes
<1>8. SlotInv'
  BY <1>2, Zenon DEF Inv, SlotInv, Held, Names, Settled, Terminal, ReadReceiptForIntent,
     ReadFenceResolutionByIntent, ReadFenceResolutionByFence, indexes, target
<1>. QED
  BY <1>4, <1>5, <1>6, <1>7, <1>8, Zenon DEF Inv, TypeOK, Tables, CallTypes

(* prepare or complete is called: a release only after its enqueue.         *)
LEMMA BeginKeeps ==
  ASSUME Inv, NEW r \in Runners, NEW o \in Operations, NEW s \in Stage, Begin(r, o, s)
  PROVE  Inv'
<1>1. TypeInv /\ Tables /\ CallTypes /\ EffectInv
  BY InvIsTypeInv, Zenon DEF Inv, TypeInv
<1>2. PICK w : w = [of |-> <<o, s>>, intent |-> NoRecord, receipt |-> NoRecord,
                    fence |-> NoRecord, resolution |-> NoRecord, recovering |-> FALSE,
                    again |-> FALSE]
  BY Zenon
<1>3. w \in Work /\ w.of = <<o, s>>
  BY <1>2, Zenon DEF Work, StageOf
<1>4. Carries(r, "lookup", w) /\ UNCHANGED <<time, target, indexes, provider>>
  BY <1>2, Zenon DEF Begin
<1>5. Grow
  BY <1>4, Zenon DEF Grow, indexes
<1>6. CallShape("lookup", w)'
  BY Zenon DEF CallShape, FenceSteps
<1>7. CallTypes'
  BY <1>1, <1>3, <1>4, <1>5, <1>6, CarriesKeeps, ZenonT(40) DEF Step
<1>8. Tables'
  BY <1>1, <1>4, Zenon DEF Tables, IdentityInv, time, target, indexes, provider
<1>9. /\ pc'[r] = "lookup" /\ work'[r] = w
      /\ \A q \in Runners \ {r} : pc'[q] = pc[q] /\ work'[q] = work[q]
  BY <1>1, <1>4, Zenon DEF Carries, CallTypes
<1>10. s = "release_transition" => <<o, "queue_enqueue">> \in effects
  <2> SUFFICES ASSUME s = "release_transition"
               PROVE  <<o, "queue_enqueue">> \in effects
    BY Zenon
  <2>1. PICK i \in intents : i.op = o /\ i.stage = "queue_enqueue" /\ Applied(i)
    BY Zenon DEF Begin
  <2>2. i \in Intent
    BY <1>1, <2>1, Zenon DEF Tables
  <2>. QED
    BY <1>1, <2>1, <2>2, AppliedIsEffect, Zenon DEF KeyOf
<1>11. \A q \in Runners : pc'[q] = "lookup" /\ work'[q].of[2] = "release_transition" =>
         <<work'[q].of[1], "queue_enqueue">> \in effects
  <2> SUFFICES ASSUME NEW q \in Runners, pc'[q] = "lookup",
                      work'[q].of[2] = "release_transition"
               PROVE  <<work'[q].of[1], "queue_enqueue">> \in effects
    BY ZenonT(40)
  <2>1. CASE q = r
    <3>1. work'[q].of = <<o, s>>
      BY <1>3, <1>9, <2>1, Zenon
    <3>. QED
      BY <1>10, <3>1
  <2>2. CASE q # r
    <3>1. pc[q] = "lookup" /\ work'[q] = work[q]
      BY <1>9, <2>2, ZenonT(40)
    <3>. QED
      BY <1>1, <3>1, ZenonT(40) DEF EffectInv
  <2>. QED
    BY <2>1, <2>2, Zenon
<1>. QED
  BY <1>4, <1>7, <1>8, <1>9, <1>11, FilesUnchanged, Zenon DEF target, provider

(* A runner that stops leaves the files as they are.                        *)
LEMMA CrashKeeps ==
  ASSUME Inv, NEW r \in Runners, Crash(r)
  PROVE  Inv'
<1>1. TypeInv /\ Tables /\ CallTypes /\ EffectInv
  BY InvIsTypeInv, Zenon DEF Inv, TypeInv
<1>2. /\ Returns(r) /\ UNCHANGED <<clock, target, indexes, provider>>
      /\ crashes < MaxCrashes /\ crashes' = crashes + 1
  BY Zenon DEF Crash
<1>3. Grow
  BY <1>2, Zenon DEF Grow, indexes
<1>4. CallTypes'
  BY <1>1, <1>2, <1>3, ReturnsKeeps, Zenon
<1>5. crashes' \in 0 .. MaxCrashes
  BY <1>1, <1>2, ConstantsAssumption, SMTT(30) DEF Tables
<1>6. Tables'
  BY <1>1, <1>2, <1>5, Zenon DEF Tables, IdentityInv, target, indexes, provider
<1>7. \A q \in Runners : pc'[q] = "idle" \/ (pc'[q] = pc[q] /\ work'[q] = work[q])
  BY <1>1, <1>2, Zenon DEF Returns, CallTypes
<1>8. \A q \in Runners : pc'[q] = "lookup" /\ work'[q].of[2] = "release_transition" =>
         <<work'[q].of[1], "queue_enqueue">> \in effects
  BY <1>1, <1>7, Zenon DEF EffectInv
<1>. QED
  BY <1>2, <1>4, <1>6, <1>7, <1>8, FilesUnchanged, Zenon DEF target, provider

(* The clock and the operator's lease file touch no other file.             *)
LEMMA RestKeeps ==
  ASSUME Inv, \/ Tick \/ UNCHANGED vars
              \/ \E o \in Operations : RecordLease(o) \/ ReleaseTargetLease(o)
  PROVE  Inv'
<1>1. TypeInv /\ Tables /\ CallTypes /\ EffectInv
  BY InvIsTypeInv, Zenon DEF Inv, TypeInv
<1>2. UNCHANGED <<crashes, slot, closed, indexes, provider, pc, work>>
  BY Zenon DEF Tick, vars, RecordLease, ReleaseTargetLease, time, target, indexes, provider
<1>3. clock' \in Clock /\ targetLease' \in Operations \cup {NoLease}
  BY <1>1, ConstantsAssumption DEF Tick, vars, RecordLease, ReleaseTargetLease, time, target,
     Clock, Tables
<1>4. Grow
  BY <1>2, Zenon DEF Grow, indexes
<1>5. CallTypes'
  BY <1>1, <1>2, <1>4, StaysKeeps, ZenonT(40)
<1>6. Tables'
  BY <1>1, <1>2, <1>3, Zenon DEF Tables, IdentityInv, indexes, provider
<1>7. \A q \in Runners : pc'[q] = "lookup" /\ work'[q].of[2] = "release_transition" =>
         <<work'[q].of[1], "queue_enqueue">> \in effects
  BY <1>1, <1>2, Zenon DEF EffectInv
<1>. QED
  BY <1>2, <1>5, <1>6, <1>7, FilesUnchanged, Zenon DEF provider

(* Every step keeps the invariant.                                          *)
LEMMA NextKeeps == Inv /\ [Next]_vars => Inv'
BY RunnerStepKeeps, LandKeeps, BeginKeeps, CrashKeeps, RestKeeps, Zenon DEF Next

(* An empty journal satisfies the invariant.                                *)
LEMMA InitInv == Init => Inv
<1> SUFFICES ASSUME Init PROVE Inv
  BY Zenon
<1>1. TypeOK
  BY ConstantsAssumption, FreeSlotType DEF Init, TypeOK, Clock, Step
<1>2. IdentityInv /\ CallsShaped /\ DispatchInv /\ EffectInv
  BY DEF Init, IdentityInv, CallsShaped, DispatchInv, EffectInv, StageOf, Stage
<1>3. SlotInv
  BY FreeSlotType, Zenon DEF Init, SlotInv
<1>. QED
  BY <1>1, <1>2, <1>3, Zenon DEF Inv

-----------------------------------------------------------------------------
(* The files, the slot and every call keep their types and the strengthened *)
(* invariant, whatever runners do to each other (C4StageExecutor,           *)
(* MainGraduationJournal).                                                  *)
THEOREM Invariance == Spec => []Inv
BY InitInv, NextKeeps, PTL DEF Spec

(* However many runners race, replay, stop or restart, a stage is sent at   *)
(* most once, and a release only after its enqueue happened at the provider *)
(* (claim_mutation_dispatch, the create-once stage indexes, _recover).      *)
THEOREM DispatchedOnce == Spec => []OneDispatch
<1>1. Inv => OneDispatch
  <2> SUFFICES ASSUME Inv PROVE OneDispatch
    BY Zenon
  <2>1. \A x \in StageOf : sent[x] <= 1
    <3>1. \A x \in StageOf : sent[x] \in {0, 1}
      BY Zenon DEF Inv, DispatchInv
    <3>. QED
      BY <3>1, SMTT(30)
  <2>2. \A o \in Operations :
          sent[<<o, "release_transition">>] > 0 => <<o, "queue_enqueue">> \in effects
    BY ZenonT(40) DEF Inv, EffectInv
  <2>. QED
    BY <2>1, <2>2, Zenon DEF OneDispatch
<1>. QED
  BY <1>1, Invariance, PTL

(* A request that was sent and is not settled still has the target's slot   *)
(* (_cas_target_mutation_reservation, _cas_target_fence and the three places *)
(* that empty the slot).                                                    *)
THEOREM SlotKeptUntilSettled == Spec => []UnsettledHoldsSlot
<1>1. Inv => UnsettledHoldsSlot
  BY Zenon DEF Inv, UnsettledHoldsSlot, SlotInv, Held
<1>. QED
  BY <1>1, Invariance, PTL

(* At most one recorded mutation of the target is unsettled at a time, over *)
(* all operations and stages: the slot serializes them.                     *)
OneUnsettled ==
  \A i, j \in intents : ~Settled(i) /\ ~Settled(j) => i = j

(* The slot excludes a second unsettled mutation of the branch              *)
(* (_cas_target_mutation_reservation).                                      *)
THEOREM MutationsAreSerial == Spec => []OneUnsettled
<1>1. Inv => OneUnsettled
  <2> SUFFICES ASSUME Inv, NEW i \in intents, NEW j \in intents, ~Settled(i), ~Settled(j)
               PROVE  i = j
    BY Zenon DEF OneUnsettled
  <2>1. i \in Intent /\ j \in Intent /\ Names(i) /\ Names(j)
    BY Zenon DEF Inv, TypeOK, SlotInv, Held
  <2>. QED
    BY <2>1, NamesOne, Zenon DEF Inv
<1>. QED
  BY <1>1, Invariance, PTL
=============================================================================
