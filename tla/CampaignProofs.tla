--------------------------- MODULE CampaignProofs ---------------------------
(***************************************************************************)
(* The campaign handlers, for any number of workers that stop, restart and *)
(* take over from each other at any call, and for every budget: the ledger *)
(* balances (LedgerConserved), a completed invocation can be recovered     *)
(* (CompletedIsRecoverable), an exhausted budget is the end of everything  *)
(* (ExhaustionIsFinal), and a cancelled run admits no candidate            *)
(* (CancellationFence).  With one worker there is one turn (OneTurn).      *)
(***************************************************************************)
EXTENDS Campaign, TLAPS

(* The steps between the one attempt that is recorded and the completion of *)
(* its invocation.                                                          *)
FinalSteps == {"finish", "stage", "reserve", "enqueue", "over_budget", "envelope"}

(* The steps at which a handler has a thread.                               *)
ThreadSteps == FinalSteps \cup {"save_thread", "turn", "save_turn", "stream", "attempt"}

VariationSteps == ThreadSteps \cup {"execute", "invoke", "prepare", "settle", "mark"}

(* Which handler a step belongs to.                                         *)
HandlerShape(v) ==
  /\ v.pc \in VariationSteps => v.kind = "variation"
  /\ v.pc \in {"evaluate", "next_stage"} => v.kind = "evaluate"
  /\ v.pc \in {"decide", "commit", "finish_run"} => v.kind = "admit"
  /\ v.pc = "charge" => v.kind # "admit"
  /\ v.pc \in ThreadSteps => v.thread # 0

HandlersShaped == \A w \in Workers : HandlerShape(worker[w])

(* The ledger is the sum over the two reservations.                         *)
Reserves(k) == IF Settling(k) THEN reservation[k].estimated ELSE 0
Costs(k) == IF reservation[k].state \in {"completed", "exceeded"} THEN reservation[k].actual ELSE 0

LedgerInv ==
  /\ ledger.reserved = Reserves("variation") + Reserves("evaluate")
  /\ ledger.used = Costs("variation") + Costs("evaluate")
  /\ reservation["variation"].estimated = VariationEstimate

(* The session's result is final, and while it has none the variation's     *)
(* reservation is active, so that an operator's resolution finds it so.     *)
SessionInv ==
  /\ session.outcome = "none" \/ session.state = session.outcome
  /\ session.state \in {"queued", "running", "reconciliation_required"} => Settling("variation")

(* One worker gets past the attempt; until it completes the invocation      *)
(* nobody charges or settles the variation, and what it has made durable by *)
(* then is what recovery reads.                                             *)
FinalInv ==
  /\ invocation.state = "completed" => attempt /\ ~ResultMissing
  /\ \A w \in Workers : worker[w].pc \in FinalSteps =>
       /\ attempt /\ invocation.state # "completed"
       /\ worker[w].pc # "finish" => session.outcome # "none"
       /\ worker[w].pc = "stage" => session.outcome = "proposal_ready"
       /\ worker[w].pc \notin {"finish", "stage"} => ~ResultMissing
       /\ worker[w].pc \in {"reserve", "enqueue", "over_budget"} => candidate # "none"
  /\ \A w, q \in Workers :
       worker[w].pc \in FinalSteps /\ worker[q].pc \in FinalSteps => w = q
  /\ \A w \in Workers :
       worker[w].pc \in {"charge", "settle"} /\ worker[w].kind = "variation" =>
         invocation.state = "completed"

(* Nobody works on the evaluation or the admission of a candidate whose     *)
(* evaluation has not been claimed.                                         *)
StageInv ==
  /\ candidate = "none" =>
       activity["evaluate"].state = "none" /\ reservation["evaluate"].state = "none"
  /\ activity["evaluate"].state \in {"none", "queued", "running", "completed", "cancelled"}
  /\ activity["admit"].state # "none" => activity["evaluate"].state \in {"running", "completed"}
  /\ \A w \in Workers : worker[w].pc # "idle" /\ worker[w].kind # "variation" =>
       activity["evaluate"].state \in {"running", "completed"}

(* Everything is over once the budget was exceeded.                         *)
ExhaustionInv ==
  /\ ExhaustionIsFinal
  /\ reservation["variation"].state = "exceeded" => invocation.state = "completed"

Inv ==
  /\ TypeOK /\ HandlersShaped /\ LedgerInv /\ SessionInv /\ FinalInv /\ StageInv
  /\ ExhaustionInv
-----------------------------------------------------------------------------
(* The moves of a worker.                                                   *)

(* One worker moves to a legal state, the others stay where they are.       *)
Moves(w) ==
  /\ worker' \in [Workers -> WorkerState]
  /\ \A q \in Workers \ {w} : worker'[q] = worker[q]

(* The part of the type invariant about workers.                            *)
LEMMA WorkersTyped ==
  ASSUME TypeOK
  PROVE  worker \in [Workers -> WorkerState]
BY Zenon DEF TypeOK

(* A worker's step that replaces its state moves that worker only.          *)
LEMMA MovesTo ==
  ASSUME TypeOK, NEW w \in Workers, NEW n \in WorkerState, worker' = [worker EXCEPT ![w] = n]
  PROVE  Moves(w) /\ worker'[w] = n
BY WorkersTyped, Zenon DEF Moves

(* Goes keeps everything but the step.                                      *)
LEMMA GoesMoves ==
  ASSUME TypeOK, NEW w \in Workers, NEW p \in Steps, Goes(w, p)
  PROVE  /\ Moves(w) /\ worker'[w].pc = p /\ worker'[w].kind = worker[w].kind
         /\ worker'[w].thread = worker[w].thread
<1>1. PICK v : v = worker[w] /\ v \in WorkerState
  BY WorkersTyped, Zenon
<1>2. PICK n : n = [v EXCEPT !.pc = p]
  BY Zenon
<1>3. n \in WorkerState /\ n.pc = p /\ n.kind = v.kind /\ n.thread = v.thread
  BY <1>1, <1>2, WorkersTyped, Zenon DEF WorkerState
<1>4. worker' = [worker EXCEPT ![w] = n]
  BY <1>1, <1>2, WorkersTyped, Zenon DEF Goes
<1>. QED
  BY <1>1, <1>3, <1>4, MovesTo, Zenon

(* Leaves keeps the handler and its lease epoch.                            *)
LEMMA LeavesMoves ==
  ASSUME TypeOK, NEW w \in Workers, NEW p \in Steps, Leaves(w, p)
  PROVE  Moves(w) /\ worker'[w].pc = p /\ worker'[w].kind = worker[w].kind
<1>1. PICK v : v = worker[w] /\ v \in WorkerState
  BY WorkersTyped, Zenon
<1>2. PICK n : n = [Idle EXCEPT !.pc = p, !.kind = v.kind, !.epoch = v.epoch]
  BY Zenon
<1>3. n = [pc |-> p, kind |-> v.kind, epoch |-> v.epoch, thread |-> 0, operation |-> FALSE,
           usage |-> 0, recovering |-> FALSE, prior |-> "none"]
  BY <1>2, Zenon DEF Idle
<1>4. n \in WorkerState /\ n.pc = p /\ n.kind = v.kind
  BY <1>1, <1>3, CampaignAssumption DEF WorkerState
<1>5. worker' = [worker EXCEPT ![w] = n]
  BY <1>1, <1>2, WorkersTyped, Zenon DEF Leaves
<1>. QED
  BY <1>1, <1>4, <1>5, MovesTo, Zenon

(* GoesIdle forgets the call.                                               *)
LEMMA IdleMoves ==
  ASSUME TypeOK, NEW w \in Workers, GoesIdle(w)
  PROVE  Moves(w) /\ worker'[w].pc = "idle"
<1>1. Idle \in WorkerState /\ Idle.pc = "idle"
  BY CampaignAssumption DEF Idle, WorkerState, Steps, Kinds
<1>. QED
  BY <1>1, MovesTo, Zenon DEF GoesIdle

(* What recover decides for a variation, and what it found.                 *)
LEMMA RecoveryDecides ==
  ASSUME NEW w \in Workers, NEW r, r = VariationRecovery(w)
  PROVE  /\ r \in {"execute", "mark", "charge"}
         /\ r = "charge" => invocation.state = "completed"
<1>1. CASE invocation.state = "none"
  BY <1>1, Zenon DEF VariationRecovery
<1>2. CASE invocation.state = "completed"
  BY <1>2, Zenon DEF VariationRecovery
<1>3. CASE invocation.state = "reconciliation_required"
  BY <1>3, Zenon DEF VariationRecovery
<1>4. CASE invocation.state \notin {"none", "completed", "reconciliation_required"}
  BY <1>4, Zenon DEF VariationRecovery
<1>. QED
  BY <1>1, <1>2, <1>3, <1>4, Zenon

(* The worker moves of recover, for the three handlers.                     *)
LEMMA RecoverVariationMoves ==
  ASSUME TypeOK, NEW w \in Workers, RecoverVariation(w)
  PROVE  /\ Moves(w) /\ worker[w].pc = "recover" /\ worker[w].kind = "variation"
         /\ worker'[w].kind = "variation" /\ worker'[w].pc \in {"execute", "mark", "charge"}
         /\ worker'[w].pc = "charge" => invocation.state = "completed"
<1>1. PICK v : v = worker[w] /\ v \in WorkerState
  BY Zenon DEF TypeOK
<1>2. PICK r : r = VariationRecovery(w)
  BY Zenon
<1>3. /\ r \in {"execute", "mark", "charge"}
      /\ r = "charge" => invocation.state = "completed"
  BY <1>2, RecoveryDecides, Zenon
<1>4. PICK u : u = session.usage /\ u \in {0} \cup Usages
  BY Zenon DEF TypeOK
<1>5. PICK n : n = IF r = "charge"
                   THEN [v EXCEPT !.pc = "charge", !.usage = u, !.recovering = TRUE]
                   ELSE [v EXCEPT !.pc = r]
  BY Zenon
<1>6. worker' = [worker EXCEPT ![w] = n]
  BY <1>1, <1>2, <1>4, <1>5, Zenon DEF RecoverVariation
<1>7. CASE r = "charge"
  <2>1. n = [v EXCEPT !.pc = "charge", !.usage = u, !.recovering = TRUE]
    BY <1>5, <1>7, Zenon
  <2>2. n \in WorkerState /\ n.pc = "charge" /\ n.kind = v.kind
    BY <1>1, <1>4, <2>1, Zenon DEF WorkerState, Steps
  <2>. QED
    BY <1>1, <1>3, <1>6, <1>7, <2>2, MovesTo, Zenon DEF RecoverVariation, At
<1>8. CASE r # "charge"
  <2>1. n = [v EXCEPT !.pc = r]
    BY <1>5, <1>8, Zenon
  <2>2. n \in WorkerState /\ n.pc = r /\ n.kind = v.kind
    <3>1. r \in Steps
      BY <1>3, Zenon DEF Steps
    <3>. QED
      BY <1>1, <2>1, <3>1, Zenon DEF WorkerState
  <2>. QED
    BY <1>1, <1>3, <1>6, <1>8, <2>2, MovesTo, Zenon DEF RecoverVariation, At
<1>. QED
  BY <1>7, <1>8, Zenon

(* Recovery of an evaluation charges what is stored, or evaluates.           *)
LEMMA RecoverEvaluationMoves ==
  ASSUME TypeOK, NEW w \in Workers, RecoverEvaluation(w)
  PROVE  /\ Moves(w) /\ worker[w].pc = "recover" /\ worker[w].kind = "evaluate"
         /\ worker'[w].kind = "evaluate" /\ worker'[w].pc \in {"charge", "evaluate"}
<1>1. PICK v : v = worker[w] /\ v \in WorkerState
  BY Zenon DEF TypeOK
<1>4. PICK u : u = evaluated.usage /\ u \in {0} \cup Usages
  BY Zenon DEF TypeOK, Usages
<1>5. PICK n : n = IF evaluated.keys = EvaluatorKeys
                   THEN [v EXCEPT !.pc = "charge", !.usage = u, !.recovering = TRUE]
                   ELSE [v EXCEPT !.pc = "evaluate"]
  BY Zenon
<1>6. worker' = [worker EXCEPT ![w] = n]
  BY <1>1, <1>4, <1>5, Zenon DEF RecoverEvaluation
<1>7. CASE evaluated.keys = EvaluatorKeys
  <2>1. n = [v EXCEPT !.pc = "charge", !.usage = u, !.recovering = TRUE]
    BY <1>5, <1>7, Zenon
  <2>2. n \in WorkerState /\ n.pc = "charge" /\ n.kind = v.kind
    BY <1>1, <1>4, <2>1, Zenon DEF WorkerState, Steps
  <2>. QED
    BY <1>1, <1>6, <2>2, MovesTo, Zenon DEF RecoverEvaluation, At
<1>8. CASE evaluated.keys # EvaluatorKeys
  <2>1. n = [v EXCEPT !.pc = "evaluate"]
    BY <1>5, <1>8, Zenon
  <2>2. n \in WorkerState /\ n.pc = "evaluate" /\ n.kind = v.kind
    BY <1>1, <2>1, Zenon DEF WorkerState, Steps
  <2>. QED
    BY <1>1, <1>6, <2>2, MovesTo, Zenon DEF RecoverEvaluation, At
<1>. QED
  BY <1>7, <1>8, Zenon

(* A step that sets the worker's usage, thread or operation beside its pc.  *)
LEMMA UsageMoves ==
  ASSUME TypeOK, NEW w \in Workers, NEW p \in Steps,
         NEW u \in {0} \cup Usages, worker' = [worker EXCEPT ![w].pc = p, ![w].usage = u]
  PROVE  /\ Moves(w) /\ worker'[w].pc = p /\ worker'[w].kind = worker[w].kind
         /\ worker'[w].thread = worker[w].thread
<1>1. PICK v : v = worker[w] /\ v \in WorkerState
  BY WorkersTyped, Zenon
<1>2. PICK n : n = [v EXCEPT !.pc = p, !.usage = u]
  BY Zenon
<1>3. n \in WorkerState /\ n.pc = p /\ n.kind = v.kind /\ n.thread = v.thread
  BY <1>1, <1>2, Zenon DEF WorkerState
<1>4. worker' = [worker EXCEPT ![w] = n]
  BY <1>1, <1>2, WorkersTyped, Zenon
<1>. QED
  BY <1>1, <1>3, <1>4, MovesTo, Zenon

(* The worker takes thread and operation from the invocation it finds.       *)
LEMMA RecordInvocationMoves ==
  ASSUME TypeOK, NEW w \in Workers, RecordInvocation(w)
  PROVE  /\ Moves(w) /\ worker[w].pc = "invoke" /\ worker'[w].kind = worker[w].kind
         /\ worker'[w].thread = invocation.thread
         /\ worker'[w].pc = IF invocation.thread = 0 THEN "prepare" ELSE "turn"
<1>1. PICK v : v = worker[w] /\ v \in WorkerState
  BY Zenon DEF TypeOK
<1>2. PICK t, o : t = invocation.thread /\ o = invocation.operation
  BY Zenon
<1>3. t \in 0..MaxThreads /\ o \in BOOLEAN
  BY <1>2, Zenon DEF TypeOK, InvocationRow
<1>4. PICK p \in Steps : p = IF t = 0 THEN "prepare" ELSE "turn"
  BY Zenon DEF Steps
<1>5. PICK n : n = [v EXCEPT !.pc = p, !.thread = t, !.operation = o]
  BY Zenon
<1>6. n \in WorkerState /\ n.pc = p /\ n.kind = v.kind /\ n.thread = t
  BY <1>1, <1>3, <1>5, Zenon DEF WorkerState
<1>7. worker' = [worker EXCEPT ![w] = n]
  <2>1. worker' = [worker EXCEPT ![w].pc = p, ![w].thread = t, ![w].operation = o]
    BY <1>2, <1>4, Zenon DEF RecordInvocation
  <2>. QED
    BY <1>1, <1>5, <2>1, Zenon DEF TypeOK
<1>. QED
  BY <1>1, <1>2, <1>4, <1>6, <1>7, MovesTo, Zenon DEF RecordInvocation, At

(* The worker has the thread that runtime.prepare opened.                    *)
LEMMA PrepareThreadMoves ==
  ASSUME TypeOK, NEW w \in Workers, NEW t \in Threads, PrepareThread(w, t)
  PROVE  /\ Moves(w) /\ worker[w].pc = "prepare" /\ worker'[w].kind = worker[w].kind
         /\ worker'[w].thread = t /\ worker'[w].pc = "save_thread"
<1>1. PICK v : v = worker[w] /\ v \in WorkerState
  BY Zenon DEF TypeOK
<1>2. t \in 0..MaxThreads
  BY CampaignAssumption DEF Threads
<1>5. PICK n : n = [v EXCEPT !.pc = "save_thread", !.thread = t]
  BY Zenon
<1>6. n \in WorkerState /\ n.pc = "save_thread" /\ n.kind = v.kind /\ n.thread = t
  BY <1>1, <1>2, <1>5, Zenon DEF WorkerState, Steps
<1>7. worker' = [worker EXCEPT ![w] = n]
  BY <1>1, <1>5, Zenon DEF TypeOK, PrepareThread
<1>. QED
  BY <1>1, <1>6, <1>7, MovesTo, Zenon DEF PrepareThread, At

(* The worker keeps its thread over start_turn.                              *)
LEMMA StartTurnMoves ==
  ASSUME TypeOK, NEW w \in Workers, StartTurn(w)
  PROVE  /\ Moves(w) /\ worker[w].pc = "turn" /\ worker'[w].kind = worker[w].kind
         /\ worker'[w].thread = worker[w].thread /\ worker'[w].pc = "save_turn"
<1>1. PICK v : v = worker[w] /\ v \in WorkerState
  BY Zenon DEF TypeOK
<1>5. PICK n : n = [v EXCEPT !.pc = "save_turn", !.operation = TRUE]
  BY Zenon
<1>6. n \in WorkerState /\ n.pc = "save_turn" /\ n.kind = v.kind /\ n.thread = v.thread
  BY <1>1, <1>5, Zenon DEF WorkerState, Steps
<1>7. worker' = [worker EXCEPT ![w] = n]
  BY <1>1, <1>5, Zenon DEF TypeOK, StartTurn
<1>. QED
  BY <1>1, <1>6, <1>7, MovesTo, Zenon DEF StartTurn, At

(* commit_admission holds the candidate's state it has read.                 *)
LEMMA ReadForAdmissionMoves ==
  ASSUME TypeOK, NEW w \in Workers, ReadForAdmission(w)
  PROVE  /\ Moves(w) /\ worker[w].pc = "decide" /\ worker'[w].kind = worker[w].kind
         /\ worker'[w].pc = "commit"
<1>1. PICK v : v = worker[w] /\ v \in WorkerState
  BY Zenon DEF TypeOK
<1>2. candidate \in {"none"} \cup CandidateState
  BY Zenon DEF TypeOK
<1>5. PICK n : n = [v EXCEPT !.pc = "commit", !.prior = candidate]
  BY Zenon
<1>6. n \in WorkerState /\ n.pc = "commit" /\ n.kind = v.kind
  BY <1>1, <1>2, <1>5, Zenon DEF WorkerState, Steps
<1>7. worker' = [worker EXCEPT ![w] = n]
  BY <1>1, <1>5, Zenon DEF TypeOK, ReadForAdmission
<1>. QED
  BY <1>1, <1>6, <1>7, MovesTo, Zenon DEF ReadForAdmission, At

(* A claim starts a handler of its kind and touches one activity.            *)
LEMMA ClaimMoves ==
  ASSUME TypeOK, NEW w \in Workers, NEW k \in Kinds, Claim(w, k)
  PROVE  /\ Moves(w) /\ worker[w].pc = "idle" /\ worker'[w].pc = "recover"
         /\ worker'[w].kind = k
         /\ activity' \in [Kinds -> ActivityRow]
         /\ activity'[k].state = "running"
         /\ \A j \in Kinds \ {k} : activity'[j] = activity[j]
<1>1. PICK e : e = activity[k].epoch + 1
  BY Zenon
<1>2. /\ activity["variation"] \in ActivityRow /\ activity["evaluate"] \in ActivityRow
      /\ activity["admit"] \in ActivityRow
  BY Zenon DEF TypeOK, Kinds
<1>3. e \in 0..MaxClaims
  BY <1>1, <1>2, CampaignAssumption DEF Claim, Kinds, ActivityRow
<1>4. PICK n : n = [Idle EXCEPT !.pc = "recover", !.kind = k, !.epoch = e]
  BY Zenon
<1>5. n = [pc |-> "recover", kind |-> k, epoch |-> e, thread |-> 0, operation |-> FALSE,
           usage |-> 0, recovering |-> FALSE, prior |-> "none"]
  BY <1>4, Zenon DEF Idle
<1>6. n \in WorkerState /\ n.pc = "recover" /\ n.kind = k
  BY <1>3, <1>5, CampaignAssumption DEF WorkerState, Steps
<1>7. worker' = [worker EXCEPT ![w] = n]
  BY <1>1, <1>4, Zenon DEF Claim
<1>8. activity' = [activity EXCEPT ![k] = [state |-> "running", epoch |-> e]]
  BY <1>1, Zenon DEF Claim
<1>9. [state |-> "running", epoch |-> e] \in ActivityRow
  BY <1>3, Zenon DEF ActivityRow
<1>10. /\ activity' \in [Kinds -> ActivityRow] /\ activity'[k].state = "running"
       /\ \A j \in Kinds \ {k} : activity'[j] = activity[j]
  BY <1>8, <1>9, Zenon DEF TypeOK
<1>. QED
  BY <1>6, <1>7, <1>10, MovesTo, ZenonT(40) DEF Claim, At

-----------------------------------------------------------------------------
(* Frame lemmas: what a step may change without disturbing each part.       *)

(* The records the last steps rest on only grow.                            *)
Durable ==
  /\ attempt => attempt'
  /\ invocation'.state = "completed" <=> invocation.state = "completed"
  /\ session.outcome # "none" => session'.outcome = session.outcome
  /\ candidate # "none" => candidate' # "none"

(* The shape of every handler, when one of them moves.                      *)
LEMMA HandlersFrame ==
  ASSUME HandlersShaped, NEW w \in Workers, Moves(w), HandlerShape(worker'[w])
  PROVE  HandlersShaped'
BY Zenon DEF HandlersShaped, Moves, HandlerShape

(* A step of one worker outside the last steps.                             *)
LEMMA FinalFrame ==
  ASSUME FinalInv, Durable, NEW w \in Workers, Moves(w),
         worker'[w].pc \notin FinalSteps,
         worker'[w].pc \in {"charge", "settle"} /\ worker'[w].kind = "variation" =>
           invocation.state = "completed"
  PROVE  FinalInv'
<1>1. \A q \in Workers : worker'[q].pc \in FinalSteps => worker'[q] = worker[q]
  BY Zenon DEF Moves
<1>2. ~ResultMissing => ~ResultMissing'
  BY Zenon DEF Durable, ResultMissing
<1>3. (invocation.state = "completed" => attempt /\ ~ResultMissing)'
  BY <1>2, Zenon DEF FinalInv, Durable
<1>4. ASSUME NEW q \in Workers, worker'[q].pc \in FinalSteps
      PROVE  /\ attempt' /\ invocation'.state # "completed"
             /\ worker'[q].pc # "finish" => session'.outcome # "none"
             /\ worker'[q].pc = "stage" => session'.outcome = "proposal_ready"
             /\ worker'[q].pc \notin {"finish", "stage"} => ~ResultMissing'
             /\ worker'[q].pc \in {"reserve", "enqueue", "over_budget"} => candidate' # "none"
  <2>1. worker'[q] = worker[q]
    BY <1>1, <1>4, Zenon
  <2>2. worker[q].pc \in FinalSteps
    BY <1>4, <2>1, Zenon
  <2>. QED
    BY <1>2, <2>1, <2>2, Zenon DEF FinalInv, Durable
<1>5. \A p, q \in Workers :
        worker'[p].pc \in FinalSteps /\ worker'[q].pc \in FinalSteps => p = q
  BY <1>1, Zenon DEF FinalInv
<1>6. ASSUME NEW q \in Workers, worker'[q].pc \in {"charge", "settle"},
             worker'[q].kind = "variation"
      PROVE  invocation'.state = "completed"
  <2>1. CASE q = w
    BY <1>6, <2>1, Zenon DEF Durable
  <2>2. CASE q # w
    BY <1>6, <2>2, Zenon DEF FinalInv, Durable, Moves
  <2>. QED
    BY <2>1, <2>2, Zenon
<1>. QED
  BY <1>3, <1>4, <1>5, <1>6, Zenon DEF FinalInv

(* A step of the one worker that is in the last steps.                      *)
LEMMA FinalAdvance ==
  ASSUME FinalInv, Durable, NEW w \in Workers, Moves(w),
         worker[w].pc \in FinalSteps, worker'[w].pc \in FinalSteps \ {"finish"},
         session'.outcome # "none",
         worker'[w].pc = "stage" => session'.outcome = "proposal_ready",
         worker'[w].pc # "stage" => ~ResultMissing',
         worker'[w].pc \in {"reserve", "enqueue", "over_budget"} => candidate' # "none"
  PROVE  FinalInv'
<1>1. ASSUME NEW q \in Workers, q # w
      PROVE  worker'[q] = worker[q] /\ worker'[q].pc \notin FinalSteps
  <2>1. worker'[q] = worker[q]
    BY <1>1, Zenon DEF Moves
  <2>2. worker[q].pc \notin FinalSteps
    BY <1>1, Zenon DEF FinalInv
  <2>. QED
    BY <2>1, <2>2, Zenon
<1>2. ~ResultMissing => ~ResultMissing'
  BY Zenon DEF Durable, ResultMissing
<1>3. attempt' /\ invocation'.state # "completed"
  BY Zenon DEF FinalInv, Durable
<1>4. ASSUME NEW q \in Workers, worker'[q].pc \in FinalSteps
      PROVE  q = w
  BY <1>1, <1>4, Zenon
<1>5. worker'[w].pc \notin {"charge", "settle"}
  BY Zenon DEF FinalSteps
<1>6. ASSUME NEW q \in Workers, worker'[q].pc \in {"charge", "settle"},
             worker'[q].kind = "variation"
      PROVE  invocation'.state = "completed"
  BY <1>1, <1>5, <1>6, Zenon DEF FinalInv, Durable
<1>7. ASSUME NEW q \in Workers, worker'[q].pc \in FinalSteps
      PROVE  /\ attempt' /\ invocation'.state # "completed"
             /\ worker'[q].pc # "finish" => session'.outcome # "none"
             /\ worker'[q].pc = "stage" => session'.outcome = "proposal_ready"
             /\ worker'[q].pc \notin {"finish", "stage"} => ~ResultMissing'
             /\ worker'[q].pc \in {"reserve", "enqueue", "over_budget"} => candidate' # "none"
  <2>1. q = w
    BY <1>4, <1>7, Zenon
  <2>. QED
    BY <1>3, <2>1, Zenon
<1>8. \A p, q \in Workers :
        worker'[p].pc \in FinalSteps /\ worker'[q].pc \in FinalSteps => p = q
  BY <1>4, Zenon
<1>. QED
  BY <1>3, <1>6, <1>7, <1>8, Zenon DEF FinalInv

(* A step that moves neither the evaluation nor the admission.               *)
LEMMA StageFrame ==
  ASSUME StageInv, NEW w \in Workers, Moves(w),
         activity'["evaluate"].state = activity["evaluate"].state,
         activity'["admit"].state = activity["admit"].state,
         candidate' = "none" => /\ candidate = "none"
                                /\ reservation'["evaluate"].state = reservation["evaluate"].state,
         worker'[w].pc # "idle" /\ worker'[w].kind # "variation" =>
           worker[w].pc # "idle" /\ worker[w].kind # "variation"
  PROVE  StageInv'
<1>1. ASSUME NEW q \in Workers, worker'[q].pc # "idle", worker'[q].kind # "variation"
      PROVE  worker[q].pc # "idle" /\ worker[q].kind # "variation"
  BY <1>1, Zenon DEF Moves
<1>. QED
  BY <1>1, Zenon DEF StageInv

(* The budget was exceeded.                                                 *)
Over == reservation["variation"].state = "exceeded"

(* Once the budget is exceeded, a step leaves all that ended alone.          *)
LEMMA ExhaustionFrame ==
  ASSUME ExhaustionInv, invocation.state = "completed" => invocation'.state = "completed",
         Over' => /\ Over /\ UNCHANGED <<run, openCases, candidate>>
                  /\ activity'["variation"].state = activity["variation"].state
                  /\ activity'["evaluate"].state = activity["evaluate"].state
                  /\ reservation'["evaluate"].state = reservation["evaluate"].state
  PROVE  ExhaustionInv'
BY Zenon DEF ExhaustionInv, ExhaustionIsFinal, Over, Settling

(* What an exceeded budget excludes.                                        *)
LEMMA OverExcludes ==
  ASSUME Inv, Over
  PROVE  /\ run = "failed" /\ openCases = 0 /\ activity["variation"].state = "completed"
         /\ ~Settling("variation") /\ invocation.state = "completed"
         /\ \A w \in Workers : worker[w].pc \notin FinalSteps
         /\ \A w \in Workers : worker[w].pc = "idle" \/ worker[w].kind = "variation"
<1>1. /\ run = "failed" /\ openCases = 0 /\ activity["variation"].state = "completed"
      /\ activity["evaluate"].state \in {"none", "cancelled"} /\ invocation.state = "completed"
  BY Zenon DEF Inv, ExhaustionInv, ExhaustionIsFinal, Over
<1>2. ~Settling("variation")
  BY Zenon DEF Settling, Over
<1>3. \A w \in Workers : worker[w].pc \notin FinalSteps
  BY <1>1, Zenon DEF Inv, FinalInv
<1>4. \A w \in Workers : worker[w].pc = "idle" \/ worker[w].kind = "variation"
  BY <1>1, Zenon DEF Inv, StageInv
<1>. QED
  BY <1>1, <1>2, <1>3, <1>4, Zenon

(* A step that leaves the session and the budget alone.                      *)
LEMMA BudgetFrame ==
  ASSUME LedgerInv, SessionInv, UNCHANGED <<reservation, ledger, session>>
  PROVE  LedgerInv' /\ SessionInv'
BY Zenon DEF LedgerInv, SessionInv, Reserves, Costs, Settling

(* A step of a worker that reads, or touches only the invocation and the    *)
(* provider.                                                                *)
LEMMA QuietStep ==
  ASSUME Inv, TypeOK', NEW w \in Workers, Moves(w), HandlerShape(worker'[w]),
         UNCHANGED <<run, openCases, activity, session, attempt, candidate, reservation, ledger>>,
         invocation'.state = "completed" <=> invocation.state = "completed",
         worker'[w].pc \notin FinalSteps,
         worker'[w].pc \in {"charge", "settle"} /\ worker'[w].kind = "variation" =>
           invocation.state = "completed",
         worker'[w].pc # "idle" => worker[w].pc # "idle" /\ worker'[w].kind = worker[w].kind
  PROVE  Inv'
<1>1. Durable
  BY Zenon DEF Durable
<1>2. HandlersShaped'
  BY HandlersFrame, Zenon DEF Inv
<1>3. LedgerInv' /\ SessionInv'
  BY BudgetFrame, Zenon DEF Inv
<1>4. FinalInv'
  BY <1>1, FinalFrame, Zenon DEF Inv
<1>5. StageInv'
  BY StageFrame, Zenon DEF Inv
<1>6. ExhaustionInv'
  BY ExhaustionFrame, Zenon DEF Inv, Over
<1>. QED
  BY <1>2, <1>3, <1>4, <1>5, <1>6, Zenon DEF Inv

-----------------------------------------------------------------------------
(* The steps of the variation handler up to the attempt.                    *)
LEMMA ReadingSteps ==
  ASSUME Inv, NEW w \in Workers,
         \/ RecoverVariation(w) \/ RecordInvocation(w)
         \/ \E t \in Threads : PrepareThread(w, t)
         \/ SaveThread(w) \/ StartTurn(w) \/ AdoptTurn(w) \/ SaveTurn(w) \/ StreamTurn(w)
  PROVE  Inv'
<1>1. TypeOK /\ HandlersShaped /\ HandlerShape(worker[w]) /\ worker[w] \in WorkerState
  BY Zenon DEF Inv, HandlersShaped, TypeOK
<1>2. CASE RecoverVariation(w)
  <2>1. /\ Moves(w) /\ worker[w].pc = "recover" /\ worker[w].kind = "variation"
        /\ worker'[w].kind = "variation" /\ worker'[w].pc \in {"execute", "mark", "charge"}
        /\ worker'[w].pc = "charge" => invocation.state = "completed"
    BY <1>1, <1>2, RecoverVariationMoves, Zenon
  <2>2. HandlerShape(worker'[w]) /\ worker'[w].pc \notin FinalSteps
    BY <2>1, Zenon DEF HandlerShape, VariationSteps, ThreadSteps, FinalSteps
  <2>3. UNCHANGED <<journal, services, budgets, runtime>>
    BY <1>2, Zenon DEF RecoverVariation
  <2>4. TypeOK'
    BY <1>1, <2>1, <2>3, Zenon DEF TypeOK, Moves, journal, services, budgets, runtime
  <2>. QED
    BY <2>1, <2>2, <2>3, <2>4, QuietStep, Zenon DEF journal, services, budgets
<1>3. CASE RecordInvocation(w)
  <2>1. /\ Moves(w) /\ worker[w].pc = "invoke" /\ worker'[w].kind = worker[w].kind
        /\ worker'[w].thread = invocation.thread
        /\ worker'[w].pc = IF invocation.thread = 0 THEN "prepare" ELSE "turn"
    BY <1>1, <1>3, RecordInvocationMoves, Zenon
  <2>2. worker[w].kind = "variation"
    BY <1>1, <2>1, Zenon DEF HandlerShape, VariationSteps
  <2>3. HandlerShape(worker'[w]) /\ worker'[w].pc \notin FinalSteps \cup {"charge", "settle"}
    BY <2>1, <2>2, Zenon DEF HandlerShape, VariationSteps, ThreadSteps, FinalSteps
  <2>4. UNCHANGED <<journal, session, attempt, candidate, evaluated, admissions, budgets,
                    runtime>>
    BY <1>3, Zenon DEF RecordInvocation
  <2>5. /\ invocation' \in InvocationRow
        /\ invocation'.state = "completed" <=> invocation.state = "completed"
    <3>1. PICK i : i = invocation /\ i \in InvocationRow
      BY <1>1, Zenon DEF TypeOK
    <3>2. invocation' = i \/ (i.state = "none" /\ invocation' = [i EXCEPT !.state = "started"])
      BY <1>3, <3>1, Zenon DEF RecordInvocation
    <3>3. PICK j : j = [i EXCEPT !.state = "started"]
      BY Zenon
    <3>4. j \in InvocationRow /\ j.state = "started"
      BY <3>1, <3>3, Zenon DEF InvocationRow
    <3>. QED
      BY <3>1, <3>2, <3>3, <3>4, Zenon
  <2>6. TypeOK'
    BY <1>1, <2>1, <2>4, <2>5, Zenon DEF TypeOK, Moves, journal, budgets, runtime
  <2>. QED
    BY <2>1, <2>3, <2>4, <2>5, <2>6, QuietStep, Zenon DEF journal, budgets
<1>4. ASSUME NEW t \in Threads, PrepareThread(w, t)
      PROVE  Inv'
  <2>1. /\ Moves(w) /\ worker[w].pc = "prepare" /\ worker'[w].kind = worker[w].kind
        /\ worker'[w].thread = t /\ worker'[w].pc = "save_thread"
    BY <1>1, <1>4, PrepareThreadMoves, Zenon
  <2>2. worker[w].kind = "variation" /\ t # 0
    BY <1>1, <2>1 DEF HandlerShape, VariationSteps, Threads
  <2>3. HandlerShape(worker'[w]) /\ worker'[w].pc \notin FinalSteps \cup {"charge", "settle"}
    BY <2>1, <2>2, Zenon DEF HandlerShape, VariationSteps, ThreadSteps, FinalSteps
  <2>4. UNCHANGED <<journal, services, budgets>>
    BY <1>4, Zenon DEF PrepareThread
  <2>5. provider' \in [Threads -> Thread] /\ attached' \in [Workers -> SUBSET Threads]
    <3>1. PICK x : x = [provider[t] EXCEPT !.state = "not_started"]
      BY Zenon
    <3>2. x \in Thread
      BY <1>1, <3>1, Zenon DEF TypeOK, Thread
    <3>3. provider' = [provider EXCEPT ![t] = x]
      BY <1>4, <3>1, Zenon DEF PrepareThread
    <3>4. provider' \in [Threads -> Thread]
      BY <1>1, <3>2, <3>3, Zenon DEF TypeOK
    <3>5. attached' \in [Workers -> SUBSET Threads]
      BY <1>1, <1>4, Zenon DEF TypeOK, PrepareThread
    <3>. QED
      BY <3>4, <3>5, Zenon
  <2>6. TypeOK'
    BY <1>1, <2>1, <2>4, <2>5, Zenon DEF TypeOK, Moves, journal, services, budgets
  <2>. QED
    BY <2>1, <2>3, <2>4, <2>6, QuietStep, Zenon DEF journal, services, budgets
<1>5. CASE SaveThread(w)
  <2>1. worker[w].pc = "save_thread" /\ Goes(w, "turn")
    BY <1>5, Zenon DEF SaveThread, At
  <2>2. /\ Moves(w) /\ worker'[w].pc = "turn" /\ worker'[w].kind = worker[w].kind
        /\ worker'[w].thread = worker[w].thread
    BY <1>1, <2>1, GoesMoves, Zenon DEF Steps
  <2>3. worker[w].kind = "variation" /\ worker[w].thread # 0
    BY <1>1, <2>1, Zenon DEF HandlerShape, VariationSteps, ThreadSteps
  <2>4. HandlerShape(worker'[w]) /\ worker'[w].pc \notin FinalSteps \cup {"charge", "settle"}
    BY <2>2, <2>3, Zenon DEF HandlerShape, VariationSteps, ThreadSteps, FinalSteps
  <2>5. UNCHANGED <<journal, session, attempt, candidate, evaluated, admissions, budgets,
                    runtime>>
    BY <1>5, Zenon DEF SaveThread
  <2>6. /\ invocation' = [state |-> "started", thread |-> worker[w].thread, operation |-> FALSE]
        /\ invocation.state = "started"
    BY <1>5, Zenon DEF SaveThread, ReplaceInvocation, EnvelopeMoves
  <2>7. invocation' \in InvocationRow /\ invocation'.state = "started"
    BY <1>1, <2>6, Zenon DEF InvocationRow, WorkerState
  <2>8. TypeOK'
    BY <1>1, <2>2, <2>5, <2>7, Zenon DEF TypeOK, Moves, journal, budgets, runtime
  <2>. QED
    BY <2>1, <2>2, <2>4, <2>5, <2>6, <2>7, <2>8, QuietStep, ZenonT(40) DEF journal, budgets
<1>6. CASE StartTurn(w)
  <2>1. /\ Moves(w) /\ worker[w].pc = "turn" /\ worker'[w].kind = worker[w].kind
        /\ worker'[w].thread = worker[w].thread /\ worker'[w].pc = "save_turn"
    BY <1>1, <1>6, StartTurnMoves, Zenon
  <2>2. worker[w].kind = "variation" /\ worker[w].thread # 0
    BY <1>1, <2>1, Zenon DEF HandlerShape, VariationSteps, ThreadSteps
  <2>3. HandlerShape(worker'[w]) /\ worker'[w].pc \notin FinalSteps \cup {"charge", "settle"}
    BY <2>1, <2>2, Zenon DEF HandlerShape, VariationSteps, ThreadSteps, FinalSteps
  <2>4. UNCHANGED <<journal, services, budgets, attached>>
    BY <1>6, Zenon DEF StartTurn
  <2>5. provider' \in [Threads -> Thread]
    <3>1. [state |-> "running", outcome |-> "none", usage |-> 0] \in Thread
      BY Zenon DEF Thread
    <3>. QED
      BY <1>1, <1>6, <3>1, Zenon DEF TypeOK, StartTurn
  <2>6. TypeOK'
    BY <1>1, <2>1, <2>4, <2>5, Zenon DEF TypeOK, Moves, journal, services, budgets
  <2>. QED
    BY <2>1, <2>3, <2>4, <2>6, QuietStep, Zenon DEF journal, services, budgets
<1>7. CASE AdoptTurn(w)
  <2>1. worker[w].pc = "turn" /\ UNCHANGED <<journal, services, budgets, runtime>>
    BY <1>7, Zenon DEF AdoptTurn, At
  <2>2. /\ Moves(w) /\ worker'[w].pc = "attempt" /\ worker'[w].kind = worker[w].kind
        /\ worker'[w].thread = worker[w].thread
    BY <1>1, <1>7, UsageMoves, Zenon DEF AdoptTurn, Steps, Usages
  <2>3. worker[w].kind = "variation" /\ worker[w].thread # 0
    BY <1>1, <2>1, Zenon DEF HandlerShape, VariationSteps, ThreadSteps
  <2>4. HandlerShape(worker'[w]) /\ worker'[w].pc \notin FinalSteps \cup {"charge", "settle"}
    BY <2>2, <2>3, Zenon DEF HandlerShape, VariationSteps, ThreadSteps, FinalSteps
  <2>5. TypeOK'
    BY <1>1, <2>1, <2>2, ZenonT(40) DEF TypeOK, Moves, journal, services, budgets, runtime
  <2>. QED
    BY <2>1, <2>2, <2>4, <2>5, QuietStep, Zenon DEF journal, services, budgets
<1>8. CASE SaveTurn(w)
  <2>1. worker[w].pc = "save_turn" /\ Goes(w, "stream")
    BY <1>8, Zenon DEF SaveTurn, At
  <2>2. /\ Moves(w) /\ worker'[w].pc = "stream" /\ worker'[w].kind = worker[w].kind
        /\ worker'[w].thread = worker[w].thread
    BY <1>1, <2>1, GoesMoves, Zenon DEF Steps
  <2>3. worker[w].kind = "variation" /\ worker[w].thread # 0
    BY <1>1, <2>1, Zenon DEF HandlerShape, VariationSteps, ThreadSteps
  <2>4. HandlerShape(worker'[w]) /\ worker'[w].pc \notin FinalSteps \cup {"charge", "settle"}
    BY <2>2, <2>3, Zenon DEF HandlerShape, VariationSteps, ThreadSteps, FinalSteps
  <2>5. UNCHANGED <<journal, session, attempt, candidate, evaluated, admissions, budgets,
                    runtime>>
    BY <1>8, Zenon DEF SaveTurn
  <2>6. /\ invocation' = [state |-> "running", thread |-> worker[w].thread, operation |-> TRUE]
        /\ invocation.state \in {"started", "running"}
    BY <1>8, Zenon DEF SaveTurn, ReplaceInvocation, EnvelopeMoves
  <2>7. invocation' \in InvocationRow /\ invocation'.state = "running"
    BY <1>1, <2>6, Zenon DEF InvocationRow, WorkerState
  <2>8. TypeOK'
    BY <1>1, <2>2, <2>5, <2>7, Zenon DEF TypeOK, Moves, journal, budgets, runtime
  <2>. QED
    BY <2>1, <2>2, <2>4, <2>5, <2>6, <2>7, <2>8, QuietStep, Zenon DEF journal, budgets
<1>9. CASE StreamTurn(w)
  <2>1. /\ worker[w].pc = "stream" /\ UNCHANGED <<journal, services, budgets, provider>>
        /\ worker[w].thread \in Threads
    BY <1>1, <1>9, CampaignAssumption
       DEF StreamTurn, At, HandlerShape, ThreadSteps, Threads, WorkerState
  <2>2. provider[worker[w].thread].usage \in {0} \cup Usages
    BY <1>1, <2>1, Zenon DEF TypeOK, Thread
  <2>3. /\ Moves(w) /\ worker'[w].pc = "attempt" /\ worker'[w].kind = worker[w].kind
        /\ worker'[w].thread = worker[w].thread
    BY <1>1, <1>9, <2>2, UsageMoves, ZenonT(40) DEF StreamTurn, Steps
  <2>4. worker[w].kind = "variation" /\ worker[w].thread # 0
    BY <1>1, <2>1, Zenon DEF HandlerShape, VariationSteps, ThreadSteps
  <2>5. HandlerShape(worker'[w]) /\ worker'[w].pc \notin FinalSteps \cup {"charge", "settle"}
    BY <2>3, <2>4, Zenon DEF HandlerShape, VariationSteps, ThreadSteps, FinalSteps
  <2>6. attached' \in [Workers -> SUBSET Threads]
    BY <1>1, <1>9, Zenon DEF TypeOK, StreamTurn
  <2>7. TypeOK'
    BY <1>1, <2>1, <2>3, <2>6, Zenon DEF TypeOK, Moves, journal, services, budgets
  <2>. QED
    BY <2>1, <2>3, <2>5, <2>7, QuietStep, Zenon DEF journal, services, budgets
<1>. QED
  BY <1>2, <1>3, <1>4, <1>5, <1>6, <1>7, <1>8, <1>9, Zenon

(* Steps that only end a call, or pass it on.                               *)
LEMMA EndingSteps ==
  ASSUME Inv, NEW w \in Workers,
         \/ ChargedAlready(w) \/ OverBudget(w) \/ RecoverEvaluation(w) \/ RepeatEvaluation(w)
         \/ RecoverAdmission(w) \/ ReadForAdmission(w) \/ Fails(w) \/ ClassifyFailure(w)
         \/ WorkerStops(w)
  PROVE  Inv'
<1>1. TypeOK /\ HandlersShaped /\ HandlerShape(worker[w]) /\ worker[w] \in WorkerState
  BY Zenon DEF Inv, HandlersShaped, TypeOK
<1>2. ASSUME UNCHANGED <<journal, services, budgets, runtime>>, Moves(w)
      PROVE  TypeOK'
  BY <1>1, <1>2, Zenon DEF TypeOK, Moves, journal, services, budgets, runtime
<1>3. CASE ChargedAlready(w)
  <2>1. /\ worker[w].pc = "charge" /\ Leaves(w, "complete")
        /\ UNCHANGED <<journal, services, budgets, runtime>>
    BY <1>3, Zenon DEF ChargedAlready, At
  <2>2. Moves(w) /\ worker'[w].pc = "complete" /\ worker'[w].kind = worker[w].kind
    BY <1>1, <2>1, LeavesMoves, Zenon DEF Steps
  <2>3. HandlerShape(worker'[w]) /\ worker'[w].pc \notin FinalSteps \cup {"charge", "settle"}
    BY <2>2, Zenon DEF HandlerShape, VariationSteps, ThreadSteps, FinalSteps
  <2>. QED
    BY <1>2, <2>1, <2>2, <2>3, QuietStep, Zenon DEF journal, services, budgets
<1>4. CASE OverBudget(w)
  <2>1. /\ worker[w].pc = "charge" /\ worker[w].kind = "variation" /\ Goes(w, "settle")
        /\ UNCHANGED <<journal, services, budgets, runtime>>
    BY <1>4, Zenon DEF OverBudget, At
  <2>2. Moves(w) /\ worker'[w].pc = "settle" /\ worker'[w].kind = worker[w].kind
    BY <1>1, <2>1, GoesMoves, Zenon DEF Steps
  <2>3. HandlerShape(worker'[w]) /\ worker'[w].pc \notin FinalSteps
    BY <2>1, <2>2, Zenon DEF HandlerShape, VariationSteps, ThreadSteps, FinalSteps
  <2>4. invocation.state = "completed"
    BY <2>1, Zenon DEF Inv, FinalInv
  <2>. QED
    BY <1>2, <2>1, <2>2, <2>3, <2>4, QuietStep, Zenon DEF journal, services, budgets
<1>5. CASE RecoverEvaluation(w)
  <2>1. /\ Moves(w) /\ worker[w].pc = "recover" /\ worker[w].kind = "evaluate"
        /\ worker'[w].kind = "evaluate" /\ worker'[w].pc \in {"charge", "evaluate"}
    BY <1>1, <1>5, RecoverEvaluationMoves, Zenon
  <2>2. HandlerShape(worker'[w]) /\ worker'[w].pc \notin FinalSteps
    BY <2>1, Zenon DEF HandlerShape, VariationSteps, ThreadSteps, FinalSteps
  <2>3. UNCHANGED <<journal, services, budgets, runtime>>
    BY <1>5, Zenon DEF RecoverEvaluation
  <2>. QED
    BY <1>2, <2>1, <2>2, <2>3, QuietStep, Zenon DEF journal, services, budgets
<1>6. CASE RepeatEvaluation(w)
  <2>1. worker[w].pc = "evaluate" /\ UNCHANGED <<journal, services, budgets, runtime>>
    BY <1>6, Zenon DEF RepeatEvaluation, At
  <2>2. evaluated.usage \in {0} \cup Usages
    BY <1>1, Zenon DEF TypeOK, Usages
  <2>3. Moves(w) /\ worker'[w].pc = "next_stage" /\ worker'[w].kind = worker[w].kind
    BY <1>1, <1>6, <2>2, UsageMoves, Zenon DEF RepeatEvaluation, Steps
  <2>4. worker[w].kind = "evaluate"
    BY <1>1, <2>1, Zenon DEF HandlerShape
  <2>5. HandlerShape(worker'[w]) /\ worker'[w].pc \notin FinalSteps \cup {"charge", "settle"}
    BY <2>3, <2>4, Zenon DEF HandlerShape, VariationSteps, ThreadSteps, FinalSteps
  <2>. QED
    BY <1>2, <2>1, <2>3, <2>5, QuietStep, Zenon DEF journal, services, budgets
<1>7. CASE RecoverAdmission(w)
  <2>1. /\ worker[w].pc = "recover" /\ worker[w].kind = "admit"
        /\ Goes(w, "decide") \/ Goes(w, "complete")
        /\ UNCHANGED <<journal, services, budgets, runtime>>
    BY <1>7, Zenon DEF RecoverAdmission, At
  <2>2. /\ Moves(w) /\ worker'[w].pc \in {"decide", "complete"}
        /\ worker'[w].kind = worker[w].kind
    BY <1>1, <2>1, GoesMoves, Zenon DEF Steps
  <2>3. HandlerShape(worker'[w]) /\ worker'[w].pc \notin FinalSteps \cup {"charge", "settle"}
    BY <2>1, <2>2, Zenon DEF HandlerShape, VariationSteps, ThreadSteps, FinalSteps
  <2>. QED
    BY <1>2, <2>1, <2>2, <2>3, QuietStep, Zenon DEF journal, services, budgets
<1>8. CASE Fails(w)
  <2>1. /\ worker[w].pc # "idle"
        /\ GoesIdle(w) \/ Leaves(w, "raised")
        /\ UNCHANGED <<journal, services, budgets, runtime>>
    BY <1>8, Zenon DEF Fails, At
  <2>2. /\ Moves(w) /\ worker'[w].pc \in {"idle", "raised"}
        /\ worker'[w].pc # "idle" => worker'[w].kind = worker[w].kind
    BY <1>1, <2>1, IdleMoves, LeavesMoves, Zenon DEF Steps
  <2>3. HandlerShape(worker'[w]) /\ worker'[w].pc \notin FinalSteps \cup {"charge", "settle"}
    BY <2>2, Zenon DEF HandlerShape, VariationSteps, ThreadSteps, FinalSteps
  <2>. QED
    BY <1>2, <2>1, <2>2, <2>3, QuietStep, Zenon DEF journal, services, budgets
<1>9. CASE ClassifyFailure(w)
  <2>1. /\ worker[w].pc = "raised"
        /\ GoesIdle(w) \/ (worker[w].kind = "variation" /\ Leaves(w, "mark"))
        /\ UNCHANGED <<journal, session, attempt, candidate, evaluated, admissions, budgets,
                       runtime>>
    BY <1>9, ZenonT(40) DEF ClassifyFailure, At
  <2>2. /\ Moves(w) /\ worker'[w].pc \in {"idle", "mark"}
        /\ worker'[w].pc # "idle" =>
             worker'[w].kind = worker[w].kind /\ worker[w].kind = "variation"
    BY <1>1, <2>1, IdleMoves, LeavesMoves, Zenon DEF Steps
  <2>3. HandlerShape(worker'[w]) /\ worker'[w].pc \notin FinalSteps \cup {"charge", "settle"}
    BY <2>2, Zenon DEF HandlerShape, VariationSteps, ThreadSteps, FinalSteps
  <2>4. /\ invocation' \in InvocationRow
        /\ invocation'.state = "completed" <=> invocation.state = "completed"
    <3>1. PICK i : i = invocation /\ i \in InvocationRow
      BY <1>1, Zenon DEF TypeOK
    <3>2. \/ invocation' = i
          \/ /\ EnvelopeMoves("reconciliation_required")
             /\ invocation' = [i EXCEPT !.state = "reconciliation_required"]
      BY <1>9, <3>1, Zenon DEF ClassifyFailure
    <3>3. EnvelopeMoves("reconciliation_required") => i.state # "completed"
      BY <3>1, Zenon DEF EnvelopeMoves
    <3>4. PICK j : j = [i EXCEPT !.state = "reconciliation_required"]
      BY Zenon
    <3>5. j \in InvocationRow /\ j.state = "reconciliation_required"
      BY <3>1, <3>4, Zenon DEF InvocationRow
    <3>. QED
      BY <3>1, <3>2, <3>3, <3>4, <3>5, Zenon
  <2>5. TypeOK'
    BY <1>1, <2>1, <2>2, <2>4, Zenon DEF TypeOK, Moves, journal, budgets, runtime
  <2>. QED
    BY <2>1, <2>2, <2>3, <2>4, <2>5, QuietStep, Zenon DEF journal, budgets
<1>11. CASE ReadForAdmission(w)
  <2>1. /\ Moves(w) /\ worker[w].pc = "decide" /\ worker'[w].pc = "commit"
        /\ worker'[w].kind = worker[w].kind
        /\ UNCHANGED <<journal, services, budgets, runtime>>
    BY <1>1, <1>11, ReadForAdmissionMoves, Zenon DEF ReadForAdmission
  <2>2. HandlerShape(worker'[w]) /\ worker'[w].pc \notin FinalSteps \cup {"charge", "settle"}
    BY <1>1, <2>1, Zenon DEF HandlerShape, VariationSteps, ThreadSteps, FinalSteps
  <2>. QED
    BY <1>2, <2>1, <2>2, QuietStep, Zenon DEF journal, services, budgets
<1>10. CASE WorkerStops(w)
  <2>1. GoesIdle(w) /\ UNCHANGED <<journal, services, budgets, provider>>
    BY <1>10, Zenon DEF WorkerStops
  <2>2. Moves(w) /\ worker'[w].pc = "idle"
    BY <1>1, <2>1, IdleMoves, Zenon
  <2>3. HandlerShape(worker'[w]) /\ worker'[w].pc \notin FinalSteps \cup {"charge", "settle"}
    BY <2>2, Zenon DEF HandlerShape, VariationSteps, ThreadSteps, FinalSteps
  <2>4. attached' \in [Workers -> SUBSET Threads]
    BY <1>1, <1>10, Zenon DEF TypeOK, WorkerStops
  <2>5. TypeOK'
    BY <1>1, <2>1, <2>2, <2>4, Zenon DEF TypeOK, Moves, journal, services, budgets
  <2>. QED
    BY <2>1, <2>2, <2>3, <2>5, QuietStep, Zenon DEF journal, services, budgets
<1>. QED
  BY <1>3, <1>4, <1>5, <1>6, <1>7, <1>8, <1>9, <1>10, <1>11, Zenon


-----------------------------------------------------------------------------
(* The row of the variation session.                                        *)
SessionRow ==
  [state : VariationSessionState, outcome : {"none", "proposal_ready", "exhausted"},
   usage : {0} \cup Usages]

(* SessionService.start: a queued session has no result.                    *)
LEMMA StartSessionKeeps ==
  ASSUME Inv, NEW w \in Workers, StartSession(w)
  PROVE  Inv'
<1>1. TypeOK /\ HandlerShape(worker[w]) /\ session \in SessionRow
  BY Zenon DEF Inv, HandlersShaped, TypeOK, SessionRow
<1>2. /\ worker[w].pc = "execute" /\ Goes(w, "invoke")
      /\ UNCHANGED <<journal, attempt, invocation, candidate, evaluated, admissions, budgets,
                     runtime>>
  BY Zenon DEF StartSession, At
<1>3. Moves(w) /\ worker'[w].pc = "invoke" /\ worker'[w].kind = worker[w].kind
  BY <1>1, <1>2, GoesMoves, Zenon DEF Steps
<1>4. HandlerShape(worker'[w]) /\ worker'[w].pc \notin FinalSteps \cup {"charge", "settle", "idle"}
  BY <1>1, <1>2, <1>3, Zenon DEF HandlerShape, VariationSteps, ThreadSteps, FinalSteps
<1>5. /\ session' \in SessionRow /\ session'.outcome = session.outcome
      /\ \/ session' = session
         \/ session.state = "queued" /\ session'.state = "running"
  <2>1. PICK s : s = session
    BY Zenon
  <2>2. PICK n : n = [s EXCEPT !.state = "running"]
    BY Zenon
  <2>3. "running" \in VariationSessionState
    BY Zenon DEF VariationSessionState
  <2>4. n \in SessionRow /\ n.outcome = s.outcome /\ n.state = "running"
    BY <1>1, <2>1, <2>2, <2>3, Zenon DEF SessionRow
  <2>5. session' = s \/ (s.state = "queued" /\ session' = n)
    BY <2>1, <2>2, Zenon DEF StartSession
  <2>. QED
    BY <1>1, <2>1, <2>4, <2>5, Zenon
<1>6. TypeOK'
  BY <1>1, <1>2, <1>3, <1>5, Zenon DEF TypeOK, SessionRow, Moves, journal, budgets, runtime
<1>7. Durable
  BY <1>2, <1>5, Zenon DEF Durable
<1>8. HandlersShaped'
  BY <1>3, <1>4, HandlersFrame, Zenon DEF Inv
<1>9. LedgerInv'
  BY <1>2, Zenon DEF Inv, LedgerInv, Reserves, Costs, Settling, budgets
<1>10. SessionInv'
  BY <1>1, <1>2, <1>5, Zenon DEF Inv, SessionInv, SessionRow, Settling, budgets
<1>11. FinalInv'
  BY <1>3, <1>4, <1>7, FinalFrame, Zenon DEF Inv
<1>12. StageInv'
  BY <1>2, <1>3, <1>4, StageFrame, Zenon DEF Inv, journal, budgets
<1>13. ExhaustionInv'
  BY <1>2, ExhaustionFrame, Zenon DEF Inv, Over, journal, budgets
<1>. QED
  BY <1>6, <1>8, <1>9, <1>10, <1>11, <1>12, <1>13, Zenon DEF Inv

(* record_attempt: before the first attempt nobody is in the last steps and *)
(* the invocation is not completed, so this worker is alone there.          *)
LEMMA RecordAttemptKeeps ==
  ASSUME Inv, NEW w \in Workers, RecordAttempt(w)
  PROVE  Inv'
<1>1. TypeOK /\ HandlerShape(worker[w])
  BY Zenon DEF Inv, HandlersShaped
<1>2. /\ worker[w].pc = "attempt" /\ Goes(w, "finish") /\ attempt = FALSE /\ attempt' = TRUE
      /\ UNCHANGED <<journal, session, invocation, candidate, evaluated, admissions, budgets,
                     runtime>>
  BY <1>1, Zenon DEF RecordAttempt, AttemptAccepted, At, TypeOK
<1>3. /\ Moves(w) /\ worker'[w].pc = "finish" /\ worker'[w].kind = worker[w].kind
      /\ worker'[w].thread = worker[w].thread
  BY <1>1, <1>2, GoesMoves, Zenon DEF Steps
<1>4. HandlerShape(worker'[w])
  BY <1>1, <1>2, <1>3, Zenon DEF HandlerShape, VariationSteps, ThreadSteps, FinalSteps
<1>5. TypeOK'
  BY <1>1, <1>2, <1>3, Zenon DEF TypeOK, Moves, journal, budgets, runtime
<1>6. HandlersShaped'
  BY <1>3, <1>4, HandlersFrame, Zenon DEF Inv
<1>7. LedgerInv' /\ SessionInv'
  BY <1>2, BudgetFrame, Zenon DEF Inv, budgets
<1>8. FinalInv'
  <2>1. invocation.state # "completed" /\ \A q \in Workers : worker[q].pc \notin FinalSteps
    BY <1>2, Zenon DEF Inv, FinalInv
  <2>2. ASSUME NEW q \in Workers, q # w
        PROVE  worker'[q] = worker[q] /\ worker'[q].pc \notin FinalSteps
    BY <1>3, <2>1, <2>2, Zenon DEF Moves
  <2>3. invocation' = invocation
    BY <1>2, Zenon
  <2>4. \A q \in Workers : worker'[q].pc \in FinalSteps => q = w
    BY <2>2, Zenon
  <2>5. ASSUME NEW q \in Workers, worker'[q].pc \in {"charge", "settle"},
               worker'[q].kind = "variation"
        PROVE  invocation'.state = "completed"
    <3>1. q # w
      BY <1>3, <2>5, Zenon
    <3>. QED
      BY <2>2, <2>3, <2>5, <3>1, Zenon DEF Inv, FinalInv
  <2>6. ASSUME NEW q \in Workers, worker'[q].pc \in FinalSteps
        PROVE  /\ attempt' /\ invocation'.state # "completed"
               /\ worker'[q].pc # "finish" => session'.outcome # "none"
               /\ worker'[q].pc = "stage" => session'.outcome = "proposal_ready"
               /\ worker'[q].pc \notin {"finish", "stage"} => ~ResultMissing'
               /\ worker'[q].pc \in {"reserve", "enqueue", "over_budget"} => candidate' # "none"
    <3>1. q = w
      BY <2>4, <2>6, Zenon
    <3>. QED
      BY <1>2, <1>3, <2>1, <2>3, <3>1, Zenon
  <2>. QED
    BY <2>1, <2>3, <2>4, <2>5, <2>6, Zenon DEF FinalInv
<1>9. StageInv'
  BY <1>2, <1>3, StageFrame, Zenon DEF Inv, journal, budgets
<1>10. ExhaustionInv'
  BY <1>2, ExhaustionFrame, Zenon DEF Inv, Over, journal, budgets
<1>. QED
  BY <1>5, <1>6, <1>7, <1>8, <1>9, <1>10, Zenon DEF Inv


(* SessionService.finish: the completion's outcome becomes the session's    *)
(* state and result.                                                        *)
LEMMA FinishSessionKeeps ==
  ASSUME Inv, NEW w \in Workers, FinishSession(w)
  PROVE  Inv'
<1>1. TypeOK /\ HandlerShape(worker[w]) /\ worker[w] \in WorkerState
  BY Zenon DEF Inv, HandlersShaped, TypeOK
<1>2. PICK o : o = provider[worker[w].thread].outcome
  BY Zenon
<1>3. /\ worker[w].pc = "finish" /\ session.outcome = "none"
      /\ can_transition(SESSION_TRANSITIONS, session.state, o)
      /\ session' = [state |-> o, outcome |-> o, usage |-> worker[w].usage]
      /\ Goes(w, IF o = "exhausted" THEN "envelope" ELSE "stage")
      /\ UNCHANGED <<journal, attempt, invocation, candidate, evaluated, admissions, budgets,
                     runtime>>
  BY <1>2, Zenon DEF FinishSession, At
<1>4. worker[w].kind = "variation" /\ worker[w].thread # 0
  BY <1>1, <1>3, Zenon DEF HandlerShape, VariationSteps, ThreadSteps, FinalSteps
<1>5. o \in {"proposal_ready", "exhausted"} /\ session.state = "running"
  <2>1. worker[w].thread \in Threads
    BY <1>1, <1>4, CampaignAssumption DEF WorkerState, Threads
  <2>2. o \in {"none", "proposal_ready", "exhausted"}
    BY <1>1, <1>2, <2>1, Zenon DEF TypeOK, Thread
  <2>. QED
    BY <1>3, <2>2, Zenon DEF can_transition, SESSION_TRANSITIONS
<1>6. /\ Moves(w) /\ worker'[w].pc = (IF o = "exhausted" THEN "envelope" ELSE "stage")
      /\ worker'[w].kind = worker[w].kind /\ worker'[w].thread = worker[w].thread
  <2>1. PICK p \in Steps : p = IF o = "exhausted" THEN "envelope" ELSE "stage"
    BY Zenon DEF Steps
  <2>. QED
    BY <1>1, <1>3, <2>1, GoesMoves, Zenon
<1>7. HandlerShape(worker'[w])
  BY <1>4, <1>6, Zenon DEF HandlerShape, VariationSteps, ThreadSteps, FinalSteps
<1>8. session' \in SessionRow /\ session'.outcome = o /\ session'.state = o
  BY <1>1, <1>3, <1>5, Zenon DEF SessionRow, WorkerState, VariationSessionState
<1>9. TypeOK'
  BY <1>1, <1>3, <1>6, <1>8, Zenon DEF TypeOK, SessionRow, Moves, journal, budgets, runtime
<1>10. Durable
  BY <1>3, Zenon DEF Durable
<1>11. HandlersShaped'
  BY <1>6, <1>7, HandlersFrame, Zenon DEF Inv
<1>12. LedgerInv'
  BY <1>3, Zenon DEF Inv, LedgerInv, Reserves, Costs, Settling, budgets
<1>13. SessionInv'
  BY <1>5, <1>8, Zenon DEF SessionInv
<1>14. FinalInv'
  <2>1. /\ worker[w].pc \in FinalSteps /\ worker'[w].pc \in FinalSteps \ {"finish"}
        /\ worker'[w].pc \notin {"reserve", "enqueue", "over_budget"}
    BY <1>3, <1>6, Zenon DEF FinalSteps
  <2>2. /\ session'.outcome # "none"
        /\ worker'[w].pc = "stage" => session'.outcome = "proposal_ready"
    BY <1>5, <1>6, <1>8, Zenon
  <2>3. worker'[w].pc # "stage" => ~ResultMissing'
    BY <1>5, <1>6, <1>8, Zenon DEF ResultMissing
  <2>. QED
    BY <1>6, <1>10, <2>1, <2>2, <2>3, FinalAdvance, Zenon DEF Inv
<1>15. StageInv'
  BY <1>3, <1>4, <1>6, StageFrame, Zenon DEF Inv, journal, budgets
<1>16. ExhaustionInv'
  BY <1>3, ExhaustionFrame, Zenon DEF Inv, Over, journal, budgets
<1>. QED
  BY <1>9, <1>11, <1>12, <1>13, <1>14, <1>15, <1>16, Zenon DEF Inv

(* stage_candidate: the budget is not exceeded while a worker stages.       *)
LEMMA StageCandidateKeeps ==
  ASSUME Inv, NEW w \in Workers, StageCandidate(w)
  PROVE  Inv'
<1>1. TypeOK /\ HandlerShape(worker[w])
  BY Zenon DEF Inv, HandlersShaped
<1>2. /\ worker[w].pc = "stage" /\ Goes(w, "reserve") /\ candidate = "none"
      /\ candidate' = "staged"
      /\ UNCHANGED <<journal, session, attempt, invocation, evaluated, admissions, budgets,
                     runtime>>
  BY Zenon DEF StageCandidate, At
<1>3. /\ Moves(w) /\ worker'[w].pc = "reserve" /\ worker'[w].kind = worker[w].kind
      /\ worker'[w].thread = worker[w].thread
  BY <1>1, <1>2, GoesMoves, Zenon DEF Steps
<1>4. HandlerShape(worker'[w]) /\ worker[w].pc \in FinalSteps /\ worker[w].kind = "variation"
  BY <1>1, <1>2, <1>3, Zenon DEF HandlerShape, VariationSteps, ThreadSteps, FinalSteps
<1>5. candidate' \in {"none"} \cup CandidateState
  BY <1>2, Zenon DEF CandidateState
<1>6. TypeOK'
  BY <1>1, <1>2, <1>3, <1>5, Zenon DEF TypeOK, Moves, journal, budgets, runtime
<1>7. Durable
  BY <1>2, Zenon DEF Durable
<1>8. HandlersShaped'
  BY <1>3, <1>4, HandlersFrame, Zenon DEF Inv
<1>9. LedgerInv' /\ SessionInv'
  BY <1>2, BudgetFrame, Zenon DEF Inv, budgets
<1>10. FinalInv'
  <2>1. session.outcome = "proposal_ready"
    BY <1>2, <1>4, Zenon DEF Inv, FinalInv
  <2>2. session'.outcome = "proposal_ready" /\ ~ResultMissing'
    BY <1>2, <2>1, Zenon DEF ResultMissing
  <2>3. worker'[w].pc \in FinalSteps \ {"finish"}
    BY <1>3, Zenon DEF FinalSteps
  <2>. QED
    BY <1>2, <1>3, <1>4, <1>7, <2>2, <2>3, FinalAdvance, Zenon DEF Inv
<1>11. StageInv'
  BY <1>2, <1>3, <1>4, StageFrame, Zenon DEF Inv, journal, budgets
<1>12. ExhaustionInv'
  <2>1. ~Over
    BY <1>4, OverExcludes, Zenon
  <2>. QED
    BY <1>2, <2>1, ExhaustionFrame, Zenon DEF Inv, Over, budgets
<1>. QED
  BY <1>6, <1>8, <1>9, <1>10, <1>11, <1>12, Zenon DEF Inv

(* BudgetService.reserve for the evaluation.                                *)
LEMMA ReserveEvaluationKeeps ==
  ASSUME Inv, NEW w \in Workers, ReserveEvaluation(w)
  PROVE  Inv'
<1>1. TypeOK /\ HandlerShape(worker[w])
  BY Zenon DEF Inv, HandlersShaped
<1>2. /\ worker[w].pc = "reserve" /\ UNCHANGED <<journal, services, runtime>>
      /\ Goes(w, "enqueue") \/ Goes(w, "over_budget")
  BY Zenon DEF ReserveEvaluation, At
<1>3. /\ Moves(w) /\ worker'[w].pc \in {"enqueue", "over_budget"}
      /\ worker'[w].kind = worker[w].kind /\ worker'[w].thread = worker[w].thread
  BY <1>1, <1>2, GoesMoves, Zenon DEF Steps
<1>4. HandlerShape(worker'[w]) /\ worker[w].pc \in FinalSteps /\ worker[w].kind = "variation"
  BY <1>1, <1>2, <1>3, Zenon DEF HandlerShape, VariationSteps, ThreadSteps, FinalSteps
<1>5. candidate # "none" /\ session.outcome # "none" /\ ~ResultMissing
  BY <1>2, <1>4, Zenon DEF Inv, FinalInv
<1>6. \/ UNCHANGED budgets
      \/ /\ reservation["evaluate"].state = "none" /\ reservation'["evaluate"].state = "reserved"
         /\ reservation'["evaluate"].estimated = reservation["evaluate"].estimated
         /\ reservation'["variation"] = reservation["variation"]
         /\ reservation' \in [{"variation", "evaluate"} -> ReservationRow]
         /\ ledger'.reserved = ledger.reserved + reservation["evaluate"].estimated
         /\ ledger'.used = ledger.used
         /\ ledger' \in [used : Nat, reserved : Nat]
  <2>1. PICK r : r = reservation["evaluate"]
    BY Zenon
  <2>2. r \in ReservationRow /\ r.estimated \in Nat
    BY <1>1, <2>1, CampaignAssumption, Zenon DEF TypeOK, ReservationRow
  <2>3. PICK n : n = [r EXCEPT !.state = "reserved"]
    BY Zenon
  <2>4. n \in ReservationRow /\ n.state = "reserved" /\ n.estimated = r.estimated
    BY <2>2, <2>3, Zenon DEF ReservationRow
  <2>5. PICK l : l = ledger /\ l \in [used : Nat, reserved : Nat]
    BY <1>1, Zenon DEF TypeOK
  <2>6. PICK m \in Nat : m = l.reserved + r.estimated
    BY <2>2, <2>5
  <2>7. PICK k : k = [l EXCEPT !.reserved = m]
    BY Zenon
  <2>8. k \in [used : Nat, reserved : Nat] /\ k.reserved = m /\ k.used = l.used
    BY <2>5, <2>6, <2>7, Zenon
  <2>9. \/ UNCHANGED budgets
        \/ /\ r.state = "none" /\ reservation' = [reservation EXCEPT !["evaluate"] = n]
           /\ ledger' = k
    BY <2>1, <2>3, <2>5, <2>6, <2>7, Zenon DEF ReserveEvaluation, Estimate
  <2>. QED
    BY <1>1, <2>1, <2>4, <2>5, <2>6, <2>8, <2>9 DEF TypeOK
<1>7. TypeOK'
  BY <1>1, <1>2, <1>3, <1>6, Zenon DEF TypeOK, Moves, journal, services, budgets, runtime
<1>8. Durable
  BY <1>2, Zenon DEF Durable, services
<1>9. HandlersShaped'
  BY <1>3, <1>4, HandlersFrame, Zenon DEF Inv
<1>10. LedgerInv'
  <2>1. CASE UNCHANGED budgets
    BY <2>1, Zenon DEF Inv, LedgerInv, Reserves, Costs, Settling, budgets
  <2>2. CASE ~UNCHANGED budgets
    <3>1. Reserves("evaluate") = 0 /\ Costs("evaluate") = 0
      BY <1>6, <2>2, Zenon DEF Reserves, Costs, Settling
    <3>2. Reserves("evaluate")' = reservation["evaluate"].estimated /\ Costs("evaluate")' = 0
      BY <1>6, <2>2, Zenon DEF Reserves, Costs, Settling
    <3>3. Reserves("variation")' = Reserves("variation") /\ Costs("variation")' = Costs("variation")
      BY <1>6, <2>2, Zenon DEF Reserves, Costs, Settling
    <3>4. reservation["evaluate"].estimated \in Nat /\ Reserves("variation") \in Nat
      BY <1>1, CampaignAssumption, Zenon DEF TypeOK, ReservationRow, Reserves
    <3>. QED
      BY <1>6, <2>2, <3>1, <3>2, <3>3, <3>4 DEF Inv, LedgerInv
  <2>. QED
    BY <2>1, <2>2, Zenon
<1>11. SessionInv'
  BY <1>2, <1>6, Zenon DEF Inv, SessionInv, Settling, services, budgets
<1>12. FinalInv'
  <2>1. session'.outcome # "none" /\ ~ResultMissing' /\ candidate' # "none"
    BY <1>2, <1>5, Zenon DEF ResultMissing, services
  <2>2. worker'[w].pc \in FinalSteps \ {"finish"} /\ worker'[w].pc # "stage"
    BY <1>3, Zenon DEF FinalSteps
  <2>. QED
    BY <1>3, <1>4, <1>8, <2>1, <2>2, FinalAdvance, Zenon DEF Inv
<1>13. StageInv'
  BY <1>2, <1>3, <1>4, <1>5, StageFrame, Zenon DEF Inv, journal, services
<1>14. ExhaustionInv'
  <2>1. ~Over
    BY <1>4, OverExcludes, Zenon
  <2>2. ~Over'
    BY <1>6, <2>1, Zenon DEF Over, budgets
  <2>. QED
    BY <1>2, <2>2, ExhaustionFrame, Zenon DEF Inv, services
<1>. QED
  BY <1>7, <1>9, <1>10, <1>11, <1>12, <1>13, <1>14, Zenon DEF Inv


(* enqueue creates the activity's row or leaves it as it is.                *)
LEMMA EnqueuedRow ==
  ASSUME TypeOK, NEW k \in Kinds, Enqueued(k)
  PROVE  /\ activity' \in [Kinds -> ActivityRow]
         /\ \A j \in Kinds \ {k} : activity'[j] = activity[j]
         /\ activity'[k].state = IF activity[k].state = "none" THEN "queued"
                                 ELSE activity[k].state
<1>1. PICK a : a = activity[k] /\ a \in ActivityRow
  BY Zenon DEF TypeOK
<1>2. PICK n : n = [a EXCEPT !.state = "queued"]
  BY Zenon
<1>3. n \in ActivityRow /\ n.state = "queued"
  BY <1>1, <1>2, Zenon DEF ActivityRow
<1>4. activity' = IF a.state = "none" THEN [activity EXCEPT ![k] = n] ELSE activity
  BY <1>1, <1>2, Zenon DEF Enqueued
<1>. QED
  BY <1>1, <1>3, <1>4, Zenon DEF TypeOK

(* The evaluation of a staged candidate is enqueued.                        *)
LEMMA EnqueueEvaluationKeeps ==
  ASSUME Inv, NEW w \in Workers, EnqueueEvaluation(w)
  PROVE  Inv'
<1>1. TypeOK /\ HandlerShape(worker[w])
  BY Zenon DEF Inv, HandlersShaped
<1>2. /\ worker[w].pc = "enqueue" /\ Goes(w, "envelope") /\ Enqueued("evaluate")
      /\ UNCHANGED <<run, openCases, services, budgets, runtime>>
  BY Zenon DEF EnqueueEvaluation, At
<1>3. /\ Moves(w) /\ worker'[w].pc = "envelope" /\ worker'[w].kind = worker[w].kind
      /\ worker'[w].thread = worker[w].thread
  BY <1>1, <1>2, GoesMoves, Zenon DEF Steps
<1>4. HandlerShape(worker'[w]) /\ worker[w].pc \in FinalSteps /\ worker[w].kind = "variation"
  BY <1>1, <1>2, <1>3, Zenon DEF HandlerShape, VariationSteps, ThreadSteps, FinalSteps
<1>5. candidate # "none" /\ session.outcome # "none" /\ ~ResultMissing
  BY <1>2, <1>4, ZenonT(40) DEF Inv, FinalInv
<1>6. /\ activity' \in [Kinds -> ActivityRow] /\ activity'["admit"] = activity["admit"]
      /\ activity'["evaluate"].state = IF activity["evaluate"].state = "none" THEN "queued"
                                       ELSE activity["evaluate"].state
  BY <1>1, <1>2, EnqueuedRow, Zenon DEF Kinds
<1>7. TypeOK'
  BY <1>1, <1>2, <1>3, <1>6, Zenon DEF TypeOK, Moves, services, budgets, runtime
<1>8. Durable
  BY <1>2, Zenon DEF Durable, services
<1>9. HandlersShaped'
  BY <1>3, <1>4, HandlersFrame, Zenon DEF Inv
<1>10. LedgerInv' /\ SessionInv'
  BY <1>2, BudgetFrame, Zenon DEF Inv, services, budgets
<1>11. FinalInv'
  <2>1. session'.outcome # "none" /\ ~ResultMissing' /\ candidate' # "none"
    BY <1>2, <1>5, Zenon DEF ResultMissing, services
  <2>2. worker'[w].pc \in FinalSteps \ {"finish"} /\ worker'[w].pc # "stage"
    BY <1>3, Zenon DEF FinalSteps
  <2>. QED
    BY <1>3, <1>4, <1>8, <2>1, <2>2, FinalAdvance, Zenon DEF Inv
<1>12. StageInv'
  <2>1. candidate' # "none"
    BY <1>2, <1>5, Zenon DEF services
  <2>2. activity["evaluate"].state \in {"running", "completed"} =>
          activity'["evaluate"].state \in {"running", "completed"}
    BY <1>6, Zenon
  <2>3. activity'["evaluate"].state \in {"none", "queued", "running", "completed", "cancelled"}
    BY <1>6, Zenon DEF Inv, StageInv
  <2>4. ASSUME NEW q \in Workers, worker'[q].pc # "idle", worker'[q].kind # "variation"
        PROVE  activity["evaluate"].state \in {"running", "completed"}
    BY <1>3, <1>4, <2>4, Zenon DEF Inv, StageInv, Moves
  <2>5. activity'["admit"].state # "none" => activity["evaluate"].state \in {"running", "completed"}
    BY <1>6, Zenon DEF Inv, StageInv
  <2>. QED
    BY <2>1, <2>2, <2>3, <2>4, <2>5, Zenon DEF StageInv
<1>13. ExhaustionInv'
  <2>1. ~Over /\ ~Over'
    BY <1>2, <1>4, OverExcludes, Zenon DEF Over, budgets
  <2>. QED
    BY <1>2, <2>1, ExhaustionFrame, Zenon DEF Inv, services
<1>. QED
  BY <1>7, <1>9, <1>10, <1>11, <1>12, <1>13, Zenon DEF Inv

(* replace_invocation(completed): the worker leaves the last steps, and the *)
(* evidence is there.                                                       *)
LEMMA CompleteInvocationKeeps ==
  ASSUME Inv, NEW w \in Workers, CompleteInvocation(w)
  PROVE  Inv'
<1>1. TypeOK /\ HandlerShape(worker[w]) /\ worker[w] \in WorkerState
  BY Zenon DEF Inv, HandlersShaped, TypeOK
<1>2. /\ worker[w].pc \in {"envelope", "over_budget"}
      /\ Goes(w, "charge") \/ Goes(w, "settle")
      /\ invocation' = [state |-> "completed", thread |-> worker[w].thread, operation |-> TRUE]
      /\ UNCHANGED <<journal, session, attempt, candidate, evaluated, admissions, budgets,
                     runtime>>
  BY ZenonT(40) DEF CompleteInvocation, ReplaceInvocation
<1>3. /\ Moves(w) /\ worker'[w].pc \in {"charge", "settle"} /\ worker'[w].kind = worker[w].kind
  BY <1>1, <1>2, GoesMoves, Zenon DEF Steps
<1>4. HandlerShape(worker'[w]) /\ worker[w].pc \in FinalSteps /\ worker[w].kind = "variation"
  BY <1>1, <1>2, <1>3, Zenon DEF HandlerShape, VariationSteps, ThreadSteps, FinalSteps
<1>5. attempt /\ ~ResultMissing
  BY <1>2, <1>4, Zenon DEF Inv, FinalInv
<1>6. invocation' \in InvocationRow /\ invocation'.state = "completed"
  BY <1>1, <1>2, Zenon DEF InvocationRow, WorkerState
<1>7. TypeOK'
  BY <1>1, <1>2, <1>3, <1>6, Zenon DEF TypeOK, Moves, journal, budgets, runtime
<1>8. HandlersShaped'
  BY <1>3, <1>4, HandlersFrame, Zenon DEF Inv
<1>9. LedgerInv' /\ SessionInv'
  BY <1>2, BudgetFrame, Zenon DEF Inv, budgets
<1>10. FinalInv'
  <2>1. attempt' /\ ~ResultMissing'
    BY <1>2, <1>5, Zenon DEF ResultMissing
  <2>2. ASSUME NEW q \in Workers
        PROVE  worker'[q].pc \notin FinalSteps
    <3>1. CASE q = w
      BY <1>3, <3>1, Zenon DEF FinalSteps
    <3>2. CASE q # w
      BY <1>3, <1>4, <3>2, ZenonT(40) DEF Inv, FinalInv, Moves
    <3>. QED
      BY <3>1, <3>2, Zenon
  <2>. QED
    BY <1>6, <2>1, <2>2, Zenon DEF FinalInv
<1>11. StageInv'
  BY <1>2, <1>3, <1>4, StageFrame, Zenon DEF Inv, journal, budgets
<1>12. ExhaustionInv'
  BY <1>2, <1>6, ExhaustionFrame, Zenon DEF Inv, Over, journal, budgets
<1>. QED
  BY <1>7, <1>8, <1>9, <1>10, <1>11, <1>12, Zenon DEF Inv


-----------------------------------------------------------------------------
(* Charges and the settlement of an exhausted budget.                       *)

(* What a reservation holds and costs are amounts.                          *)
LEMMA AmountsAreNat ==
  ASSUME TypeOK, NEW k \in {"variation", "evaluate"}
  PROVE  /\ Reserves(k) \in Nat /\ Costs(k) \in Nat
         /\ reservation[k].estimated \in Nat /\ reservation[k].actual \in Nat
<1>1. PICK r \in ReservationRow : r = reservation[k]
  BY Zenon DEF TypeOK
<1>2. r.estimated \in Nat
  BY <1>1, CampaignAssumption, Zenon DEF ReservationRow
<1>3. r.actual \in Nat
  <2>1. r.actual \in {0} \cup Usages
    BY <1>1, Zenon DEF ReservationRow
  <2>2. \A u \in Usages : u \in Nat
    BY CampaignAssumption, Zenon DEF Usages
  <2>. QED
    BY <2>1, <2>2
<1>4. reservation[k].estimated \in Nat /\ reservation[k].actual \in Nat
  BY <1>1, <1>2, <1>3, Zenon
<1>. QED
  BY <1>4, Zenon DEF Reserves, Costs

(* BudgetService.complete: the reservation's estimate leaves the reserved   *)
(* amount and its cost joins the used one.                                  *)
LEMMA ChargeReservationKeeps ==
  ASSUME Inv, NEW w \in Workers, ChargeReservation(w)
  PROVE  Inv'
<1>1. TypeOK /\ HandlerShape(worker[w]) /\ worker[w] \in WorkerState
  BY Zenon DEF Inv, HandlersShaped, TypeOK
<1>2. PICK k : k = worker[w].kind
  BY Zenon
<1>3. PICK u : u = worker[w].usage
  BY Zenon
<1>4. /\ worker[w].pc = "charge" /\ Settling(k) /\ Leaves(w, "complete")
      /\ ledger.reserved >= reservation[k].estimated
      /\ ledger' = [used |-> ledger.used + u,
                    reserved |-> ledger.reserved - reservation[k].estimated]
      /\ reservation' = [reservation EXCEPT ![k] =
           [state |-> "completed", estimated |-> reservation[k].estimated, actual |-> u]]
      /\ UNCHANGED <<journal, services, runtime>>
  BY <1>2, <1>3, Zenon DEF ChargeReservation, At, Estimate
<1>5. k \in {"variation", "evaluate"} /\ u \in {0} \cup Usages /\ u \in Nat
  BY <1>1, <1>2, <1>3, <1>4, CampaignAssumption DEF HandlerShape, WorkerState, Kinds, Usages
<1>6. Moves(w) /\ worker'[w].pc = "complete" /\ worker'[w].kind = worker[w].kind
  BY <1>1, <1>4, LeavesMoves, Zenon DEF Steps
<1>7. HandlerShape(worker'[w]) /\ worker'[w].pc \notin FinalSteps \cup {"charge", "settle", "idle"}
  BY <1>6, Zenon DEF HandlerShape, VariationSteps, ThreadSteps, FinalSteps
<1>8. reservation[k] \in ReservationRow /\ reservation[k].estimated \in Nat
  BY <1>1, <1>5, CampaignAssumption, Zenon DEF TypeOK, ReservationRow
<1>9. /\ reservation' \in [{"variation", "evaluate"} -> ReservationRow]
      /\ reservation'[k].state = "completed"
      /\ reservation'[k].estimated = reservation[k].estimated /\ reservation'[k].actual = u
      /\ \A j \in {"variation", "evaluate"} \ {k} : reservation'[j] = reservation[j]
  <2>1. [state |-> "completed", estimated |-> reservation[k].estimated, actual |-> u]
          \in ReservationRow
    BY <1>5, <1>8, Zenon DEF ReservationRow
  <2>. QED
    BY <1>1, <1>4, <1>5, <2>1, Zenon DEF TypeOK
<1>10. /\ ledger' \in [used : Nat, reserved : Nat] /\ ledger'.used = ledger.used + u
       /\ ledger'.reserved = ledger.reserved - reservation[k].estimated
       /\ ledger.used \in Nat /\ ledger.reserved \in Nat
  <2>1. ledger.used \in Nat /\ ledger.reserved \in Nat
    BY <1>1, Zenon DEF TypeOK
  <2>2. ledger.used + u \in Nat /\ ledger.reserved - reservation[k].estimated \in Nat
    BY <1>4, <1>5, <1>8, <2>1
  <2>. QED
    BY <1>4, <2>1, <2>2, Zenon
<1>11. TypeOK'
  BY <1>1, <1>4, <1>6, <1>9, <1>10, Zenon DEF TypeOK, Moves, journal, services, runtime
<1>12. Durable
  BY <1>4, Zenon DEF Durable, services
<1>13. HandlersShaped'
  BY <1>6, <1>7, HandlersFrame, Zenon DEF Inv
<1>14. PICK j \in {"variation", "evaluate"} : j # k
  BY <1>5, Zenon
<1>15. LedgerInv'
  <2>1. Reserves(k) = reservation[k].estimated /\ Costs(k) = 0
    BY <1>4, Zenon DEF Reserves, Costs, Settling
  <2>2. Reserves(k)' = 0 /\ Costs(k)' = u
    BY <1>9, Zenon DEF Reserves, Costs, Settling
  <2>3. Reserves(j)' = Reserves(j) /\ Costs(j)' = Costs(j)
    BY <1>9, <1>14, Zenon DEF Reserves, Costs, Settling
  <2>4. Reserves(j) \in Nat /\ Costs(j) \in Nat
    BY <1>1, <1>14, AmountsAreNat, Zenon
  <2>5. ledger.reserved = Reserves(k) + Reserves(j) /\ ledger.used = Costs(k) + Costs(j)
    <3>1. /\ ledger.reserved = Reserves("variation") + Reserves("evaluate")
          /\ ledger.used = Costs("variation") + Costs("evaluate")
      BY Zenon DEF Inv, LedgerInv
    <3>2. CASE k = "variation"
      <4>1. j = "evaluate"
        BY <1>14, <3>2, Zenon
      <4>. QED
        BY <3>1, <3>2, <4>1, Zenon
    <3>3. CASE k = "evaluate"
      <4>1. j = "variation"
        BY <1>14, <3>3, Zenon
      <4>. QED
        BY <1>8, <2>1, <2>4, <3>1, <3>3, <4>1
    <3>. QED
      BY <1>5, <3>2, <3>3, Zenon
  <2>6. ledger'.reserved = Reserves(k)' + Reserves(j)' /\ ledger'.used = Costs(k)' + Costs(j)'
    BY <1>5, <1>8, <1>10, <2>1, <2>2, <2>3, <2>4, <2>5
  <2>7. reservation'["variation"].estimated = VariationEstimate
    BY <1>5, <1>9, Zenon DEF Inv, LedgerInv
  <2>8. CASE k = "variation"
    <3>1. j = "evaluate"
      BY <1>14, <2>8, Zenon
    <3>. QED
      BY <2>6, <2>7, <2>8, <3>1, Zenon DEF LedgerInv
  <2>9. CASE k = "evaluate"
    <3>1. j = "variation"
      BY <1>14, <2>9, Zenon
    <3>2. /\ ledger'.reserved = Reserves("evaluate")' + Reserves("variation")'
          /\ ledger'.used = Costs("evaluate")' + Costs("variation")'
      BY <2>6, <2>9, <3>1, Zenon
    <3>3. /\ Reserves("evaluate")' = 0 /\ Reserves("variation")' \in Nat
          /\ Costs("evaluate")' \in Nat /\ Costs("variation")' \in Nat
      BY <1>5, <2>2, <2>3, <2>4, <2>9, <3>1, Zenon
    <3>. QED
      BY <2>7, <3>2, <3>3 DEF LedgerInv
  <2>. QED
    BY <1>5, <2>8, <2>9, Zenon
<1>16. SessionInv'
  <2>1. CASE k = "variation"
    <3>1. invocation.state = "completed"
      BY <1>2, <1>4, <2>1, Zenon DEF Inv, FinalInv
    <3>2. session.outcome # "none"
      BY <3>1, Zenon DEF Inv, FinalInv, ResultMissing
    <3>3. session.state \in {"proposal_ready", "exhausted"} /\ session.state = session.outcome
      BY <1>1, <3>2, Zenon DEF Inv, SessionInv, TypeOK
    <3>. QED
      BY <1>4, <3>3, Zenon DEF SessionInv, services
  <2>2. CASE k # "variation"
    <3>1. reservation'["variation"] = reservation["variation"]
      BY <1>9, <2>2, Zenon
    <3>. QED
      BY <1>4, <3>1, Zenon DEF Inv, SessionInv, Settling, services
  <2>. QED
    BY <2>1, <2>2, Zenon
<1>17. FinalInv'
  BY <1>6, <1>7, <1>12, FinalFrame, Zenon DEF Inv
<1>18. StageInv'
  <2>1. candidate' = "none" => k = "variation"
    BY <1>4, <1>5, Zenon DEF Inv, StageInv, Settling, services
  <2>2. candidate' = "none" =>
          candidate = "none" /\ reservation'["evaluate"] = reservation["evaluate"]
    BY <1>4, <1>9, <2>1, Zenon DEF services
  <2>. QED
    BY <1>4, <1>6, <1>7, <2>2, StageFrame, Zenon DEF Inv, journal
<1>19. ExhaustionInv'
  <2>1. ASSUME Over'
        PROVE  FALSE
    <3>1. k = "evaluate" /\ Over
      BY <1>5, <1>9, <2>1, Zenon DEF Over
    <3>. QED
      BY <1>2, <1>4, <3>1, OverExcludes, Zenon
  <2>. QED
    BY <1>4, <2>1, ExhaustionFrame, Zenon DEF Inv, services
<1>. QED
  BY <1>11, <1>13, <1>15, <1>16, <1>17, <1>18, <1>19, Zenon DEF Inv


(* The rows settle_exhausted_variation leaves behind.                       *)
LEMMA SettledRows ==
  ASSUME Inv, NEW w \in Workers, SettleExhausted(w)
  PROVE  /\ activity' \in [Kinds -> ActivityRow] /\ activity'["admit"] = activity["admit"]
         /\ activity'["variation"].state = "completed"
         /\ activity["evaluate"].state \in {"none", "queued", "cancelled"}
         /\ activity'["evaluate"].state = IF activity["evaluate"].state = "queued"
                                          THEN "cancelled" ELSE activity["evaluate"].state
         /\ reservation' \in [{"variation", "evaluate"} -> ReservationRow]
         /\ reservation'["variation"].state = "exceeded"
         /\ reservation'["variation"].estimated = VariationEstimate
         /\ reservation'["variation"].actual = worker[w].usage
         /\ reservation'["evaluate"].actual = reservation["evaluate"].actual
         /\ reservation'["evaluate"].state = IF Settling("evaluate") THEN "released"
                                             ELSE reservation["evaluate"].state
         /\ candidate = "none" => reservation["evaluate"].state = "none" /\ ~Settling("evaluate")
<1>1. TypeOK /\ worker[w] \in WorkerState
  BY Zenon DEF Inv, TypeOK
<1>2. candidate = "none" => /\ activity["evaluate"].state = "none"
                            /\ reservation["evaluate"].state = "none"
  BY Zenon DEF Inv, StageInv
<1>3. candidate # "none" => activity["evaluate"].state \in {"none", "queued", "cancelled"}
  BY Zenon DEF SettleExhausted, EvaluationCancellable
<1>4. PICK v, e : v = activity["variation"] /\ e = activity["evaluate"]
  BY Zenon
<1>5. v \in ActivityRow /\ e \in ActivityRow
  BY <1>1, <1>4, Zenon DEF TypeOK, Kinds
<1>6. PICK nv, ne : /\ nv = [v EXCEPT !.state = "completed"]
                    /\ ne = [e EXCEPT !.state = IF e.state = "queued" THEN "cancelled" ELSE e.state]
  BY Zenon
<1>7. nv \in ActivityRow /\ nv.state = "completed"
  BY <1>5, <1>6, Zenon DEF ActivityRow
<1>8. /\ ne \in ActivityRow
      /\ ne.state = IF e.state = "queued" THEN "cancelled" ELSE e.state
  <2>1. PICK s : s = IF e.state = "queued" THEN "cancelled" ELSE e.state
    BY Zenon
  <2>2. s \in {"none", "queued", "running", "completed", "reconciliation_required", "cancelled",
               "failed"}
    BY <1>5, <2>1, Zenon DEF ActivityRow
  <2>3. ne = [e EXCEPT !.state = s]
    BY <1>6, <2>1, Zenon
  <2>. QED
    BY <1>5, <2>1, <2>2, <2>3, Zenon DEF ActivityRow
<1>9. activity' = [activity EXCEPT !["variation"] = nv, !["evaluate"] = ne]
  BY <1>1, <1>4, <1>6, Zenon DEF SettleExhausted, TypeOK, Kinds
<1>10. /\ activity' \in [Kinds -> ActivityRow] /\ activity'["admit"] = activity["admit"]
       /\ activity'["variation"] = nv /\ activity'["evaluate"] = ne
  BY <1>1, <1>7, <1>8, <1>9, Zenon DEF TypeOK, Kinds
<1>11. PICK r : r = reservation["evaluate"]
  BY Zenon
<1>12. PICK n : n = [r EXCEPT !.state = "released"]
  BY Zenon
<1>13. r \in ReservationRow
  BY <1>1, <1>11, Zenon DEF TypeOK
<1>14. n \in ReservationRow /\ n.state = "released" /\ n.actual = r.actual
  BY <1>12, <1>13, Zenon DEF ReservationRow
<1>15. /\ reservation' \in [{"variation", "evaluate"} ->
                             {reservation'["variation"], reservation'["evaluate"]}]
       /\ reservation'["variation"] = [state |-> "exceeded", estimated |-> VariationEstimate,
                                       actual |-> worker[w].usage]
       /\ reservation'["evaluate"] = EvaluationReleased
  BY Zenon DEF SettleExhausted
<1>16. EvaluationReleased = IF candidate # "none" /\ Settling("evaluate") THEN n ELSE r
  BY <1>11, <1>12, Zenon DEF EvaluationReleased
<1>17. candidate = "none" => ~Settling("evaluate")
  BY <1>2, Zenon DEF Settling
<1>18. reservation'["variation"] \in ReservationRow /\ reservation'["evaluate"] \in ReservationRow
  BY <1>1, <1>13, <1>14, <1>15, <1>16 DEF ReservationRow, WorkerState
<1>19. /\ reservation'["evaluate"].actual = r.actual
       /\ reservation'["evaluate"].state = IF Settling("evaluate") THEN "released" ELSE r.state
  BY <1>14, <1>15, <1>16, <1>17, Zenon
<1>20. reservation' \in [{"variation", "evaluate"} -> ReservationRow]
  BY <1>15, <1>18, Zenon
<1>. QED
  BY <1>2, <1>3, <1>4, <1>7, <1>8, <1>10, <1>11, <1>15, <1>17, <1>19, <1>20

(* settle_exhausted_variation ends the pass: nothing stays reserved.        *)
LEMMA SettleExhaustedKeeps ==
  ASSUME Inv, NEW w \in Workers, SettleExhausted(w)
  PROVE  Inv'
<1>1. TypeOK /\ HandlerShape(worker[w]) /\ worker[w] \in WorkerState
  BY Zenon DEF Inv, HandlersShaped, TypeOK
<1>2. PICK u : u = worker[w].usage
  BY Zenon
<1>3. /\ worker[w].pc = "settle" /\ Settling("variation") /\ Leaves(w, "complete")
      /\ candidate' = CandidateAfterSettlement
      /\ ledger' = [used |-> ledger.used + u, reserved |-> ReservedAfterSettlement]
      /\ run' = "failed" /\ openCases' = 0
      /\ UNCHANGED <<session, attempt, invocation, evaluated, admissions, runtime>>
  BY <1>2, Zenon DEF SettleExhausted, At
<1>4. worker[w].kind = "variation" /\ invocation.state = "completed"
  <2>1. worker[w].kind = "variation"
    BY <1>1, <1>3, Zenon DEF HandlerShape, VariationSteps
  <2>. QED
    BY <1>3, <2>1, Zenon DEF Inv, FinalInv
<1>5. Moves(w) /\ worker'[w].pc = "complete" /\ worker'[w].kind = worker[w].kind
  BY <1>1, <1>3, LeavesMoves, Zenon DEF Steps
<1>6. HandlerShape(worker'[w]) /\ worker'[w].pc \notin FinalSteps \cup {"charge", "settle", "idle"}
  BY <1>5, Zenon DEF HandlerShape, VariationSteps, ThreadSteps, FinalSteps
<1>7. u \in Nat
  <2>1. u \in {0} \cup Usages
    BY <1>1, <1>2, Zenon DEF WorkerState
  <2>2. \A x \in Usages : x \in Nat
    BY CampaignAssumption, Zenon DEF Usages
  <2>. QED
    BY <2>1, <2>2
<1>8. /\ activity' \in [Kinds -> ActivityRow] /\ activity'["admit"] = activity["admit"]
      /\ activity'["variation"].state = "completed"
      /\ activity["evaluate"].state \in {"none", "queued", "cancelled"}
      /\ activity'["evaluate"].state = IF activity["evaluate"].state = "queued"
                                       THEN "cancelled" ELSE activity["evaluate"].state
      /\ reservation' \in [{"variation", "evaluate"} -> ReservationRow]
      /\ reservation'["variation"].state = "exceeded"
      /\ reservation'["variation"].estimated = VariationEstimate
      /\ reservation'["variation"].actual = u
      /\ reservation'["evaluate"].actual = reservation["evaluate"].actual
      /\ reservation'["evaluate"].state = IF Settling("evaluate") THEN "released"
                                          ELSE reservation["evaluate"].state
      /\ candidate = "none" => reservation["evaluate"].state = "none" /\ ~Settling("evaluate")
  BY <1>2, SettledRows, Zenon
<1>9. /\ ledger.reserved = Reserves("variation") + Reserves("evaluate")
      /\ ledger.used = Costs("variation") + Costs("evaluate")
      /\ reservation["variation"].estimated = VariationEstimate
  BY Zenon DEF Inv, LedgerInv
<1>10. /\ Reserves("variation") = VariationEstimate /\ Costs("variation") = 0
       /\ Reserves("evaluate") \in Nat /\ Costs("evaluate") \in Nat /\ VariationEstimate \in Nat
  <2>1. Reserves("variation") = VariationEstimate /\ Costs("variation") = 0
    BY <1>3, <1>9, Zenon DEF Reserves, Costs, Settling
  <2>. QED
    BY <1>1, <2>1, AmountsAreNat, CampaignAssumption, Zenon
<1>11. ReservedAfterSettlement = 0
  <2>1. ReservedAfterSettlement = ledger.reserved - VariationEstimate - Reserves("evaluate")
    BY <1>8, Zenon DEF ReservedAfterSettlement, Reserves, Estimate
  <2>. QED
    BY <1>9, <1>10, <2>1, SMTT(30)
<1>12. /\ ledger' \in [used : Nat, reserved : Nat] /\ ledger'.reserved = 0
       /\ ledger'.used = ledger.used + u
  <2>1. ledger.used + u \in Nat
    BY <1>1, <1>7 DEF TypeOK
  <2>. QED
    BY <1>3, <1>11, <2>1, Zenon
<1>13. candidate' = (IF candidate = "none" THEN "none" ELSE "policy_blocked")
  BY <1>3, Zenon DEF CandidateAfterSettlement
<1>14. candidate' \in {"none"} \cup CandidateState /\ run' \in RunState /\ openCases' \in Nat
  BY <1>3, <1>13, Zenon DEF CandidateState, RunState
<1>15. TypeOK'
  BY <1>1, <1>3, <1>5, <1>8, <1>12, <1>14, Zenon DEF TypeOK, Moves, runtime
<1>16. Durable
  BY <1>3, <1>13, Zenon DEF Durable
<1>17. HandlersShaped'
  BY <1>5, <1>6, HandlersFrame, Zenon DEF Inv
<1>18. LedgerInv'
  <2>1. Reserves("variation")' = 0 /\ Costs("variation")' = u
    BY <1>8, Zenon DEF Reserves, Costs, Settling
  <2>2. Reserves("evaluate")' = 0 /\ Costs("evaluate")' = Costs("evaluate")
    BY <1>8, Zenon DEF Reserves, Costs, Settling
  <2>. QED
    BY <1>7, <1>8, <1>9, <1>10, <1>12, <2>1, <2>2, SMTT(30) DEF LedgerInv
<1>19. SessionInv'
  <2>1. session.outcome # "none"
    BY <1>4, Zenon DEF Inv, FinalInv, ResultMissing
  <2>2. session.state \in {"proposal_ready", "exhausted"} /\ session.state = session.outcome
    BY <1>1, <2>1, Zenon DEF Inv, SessionInv, TypeOK
  <2>. QED
    BY <1>3, <2>2, Zenon DEF SessionInv
<1>20. FinalInv'
  BY <1>5, <1>6, <1>16, FinalFrame, Zenon DEF Inv
<1>21. StageInv'
  <2>1. candidate' = "none" => /\ activity'["evaluate"].state = "none"
                               /\ reservation'["evaluate"].state = "none"
    BY <1>8, <1>13, Zenon DEF Inv, StageInv
  <2>2. activity["evaluate"].state \notin {"running", "completed"}
    BY <1>8, Zenon
  <2>3. activity'["admit"].state = "none"
    BY <1>8, <2>2, Zenon DEF Inv, StageInv
  <2>4. ASSUME NEW q \in Workers, worker'[q].pc # "idle", worker'[q].kind # "variation"
        PROVE  FALSE
    BY <1>4, <1>5, <2>2, <2>4, Zenon DEF Inv, StageInv, Moves
  <2>5. activity'["evaluate"].state \in {"none", "queued", "running", "completed", "cancelled"}
    BY <1>8, Zenon
  <2>. QED
    BY <2>1, <2>3, <2>4, <2>5, Zenon DEF StageInv
<1>22. ExhaustionInv'
  BY <1>3, <1>4, <1>8, <1>13, Zenon DEF ExhaustionInv, ExhaustionIsFinal, Settling
<1>. QED
  BY <1>15, <1>17, <1>18, <1>19, <1>20, <1>21, <1>22, Zenon DEF Inv

(* A settlement that is repeated has no case left to resolve.               *)
LEMMA SettledAlreadyKeeps ==
  ASSUME Inv, NEW w \in Workers, SettledAlready(w)
  PROVE  Inv'
<1>1. TypeOK /\ HandlerShape(worker[w])
  BY Zenon DEF Inv, HandlersShaped
<1>2. /\ worker[w].pc = "settle" /\ Over /\ openCases' = 0 /\ Leaves(w, "complete")
      /\ UNCHANGED <<run, activity, services, budgets, runtime>>
  BY Zenon DEF SettledAlready, At, Over
<1>3. openCases' = openCases
  BY <1>2, OverExcludes, Zenon
<1>4. Moves(w) /\ worker'[w].pc = "complete" /\ worker'[w].kind = worker[w].kind
  BY <1>1, <1>2, LeavesMoves, Zenon DEF Steps
<1>5. HandlerShape(worker'[w]) /\ worker'[w].pc \notin FinalSteps \cup {"charge", "settle"}
  BY <1>4, Zenon DEF HandlerShape, VariationSteps, ThreadSteps, FinalSteps
<1>6. TypeOK'
  BY <1>1, <1>2, <1>3, <1>4, Zenon DEF TypeOK, Moves, services, budgets, runtime
<1>. QED
  BY <1>2, <1>3, <1>4, <1>5, <1>6, QuietStep, Zenon DEF services, budgets
-----------------------------------------------------------------------------
(* The evaluation and admission handlers, and the scheduler.                *)

(* A step of a worker that may move the run, the candidate and activities   *)
(* while the budget is not exceeded.                                        *)
LEMMA StageStep ==
  ASSUME Inv, TypeOK', NEW w \in Workers, Moves(w), HandlerShape(worker'[w]), ~Over,
         UNCHANGED <<session, attempt, invocation, reservation, ledger>>,
         candidate # "none" => candidate' # "none",
         worker'[w].pc \notin FinalSteps,
         worker'[w].pc \in {"charge", "settle"} => worker'[w].kind # "variation",
         candidate' # "none" \/ activity'["evaluate"].state = "none",
         activity["evaluate"].state \in {"running", "completed"} =>
           activity'["evaluate"].state \in {"running", "completed"},
         activity'["evaluate"].state \in {"none", "queued", "running", "completed", "cancelled"},
         \/ activity'["admit"].state = "none"
         \/ activity'["evaluate"].state \in {"running", "completed"},
         worker'[w].pc # "idle" /\ worker'[w].kind # "variation" =>
           activity'["evaluate"].state \in {"running", "completed"}
  PROVE  Inv'
<1>1. Durable
  BY Zenon DEF Durable
<1>2. HandlersShaped'
  BY HandlersFrame, Zenon DEF Inv
<1>3. LedgerInv' /\ SessionInv'
  BY BudgetFrame, Zenon DEF Inv
<1>4. FinalInv'
  BY <1>1, FinalFrame, Zenon DEF Inv
<1>5. StageInv'
  <2>1. ASSUME NEW q \in Workers, worker'[q].pc # "idle", worker'[q].kind # "variation"
        PROVE  activity'["evaluate"].state \in {"running", "completed"}
    <3>1. CASE q = w
      BY <2>1, <3>1, Zenon
    <3>2. CASE q # w
      BY <2>1, <3>2, Zenon DEF Inv, StageInv, Moves
    <3>. QED
      BY <3>1, <3>2, Zenon
  <2>2. candidate' = "none" => reservation'["evaluate"].state = "none"
    BY Zenon DEF Inv, StageInv
  <2>. QED
    BY <2>1, <2>2, ZenonT(40) DEF StageInv
<1>6. ExhaustionInv'
  BY ExhaustionFrame, Zenon DEF Inv, Over
<1>. QED
  BY <1>2, <1>3, <1>4, <1>5, <1>6, Zenon DEF Inv

(* At work on the candidate: its evaluation was claimed, it exists, and the *)
(* budget is not exceeded.                                                  *)
LEMMA CandidateAtWork ==
  ASSUME Inv, NEW w \in Workers, worker[w].pc # "idle", worker[w].kind # "variation"
  PROVE  /\ activity["evaluate"].state \in {"running", "completed"} /\ candidate # "none" /\ ~Over
<1>1. activity["evaluate"].state \in {"running", "completed"}
  BY Zenon DEF Inv, StageInv
<1>2. candidate # "none"
  BY <1>1, Zenon DEF Inv, StageInv
<1>. QED
  BY <1>1, <1>2, OverExcludes, Zenon

(* The steps of the evaluation handler that store something.                *)
LEMMA EvaluationKeeps ==
  ASSUME Inv, NEW w \in Workers,
         EnqueueAdmission(w) \/ \E u \in EvaluationUsages : RecordEvaluation(w, u)
  PROVE  Inv'
<1>1. TypeOK /\ HandlerShape(worker[w])
  BY Zenon DEF Inv, HandlersShaped
<1>2. CASE EnqueueAdmission(w)
  <2>1. /\ worker[w].pc = "next_stage" /\ Goes(w, "charge") /\ Enqueued("admit")
        /\ UNCHANGED <<run, openCases, services, budgets, runtime>>
    BY <1>2, Zenon DEF EnqueueAdmission, At
  <2>2. Moves(w) /\ worker'[w].pc = "charge" /\ worker'[w].kind = worker[w].kind
    BY <1>1, <2>1, GoesMoves, Zenon DEF Steps
  <2>3. worker[w].kind = "evaluate"
    BY <1>1, <2>1, Zenon DEF HandlerShape
  <2>4. HandlerShape(worker'[w]) /\ worker'[w].pc \notin FinalSteps
    BY <2>2, <2>3, Zenon DEF HandlerShape, VariationSteps, ThreadSteps, FinalSteps
  <2>5. activity' \in [Kinds -> ActivityRow] /\ activity'["evaluate"] = activity["evaluate"]
    BY <1>1, <2>1, EnqueuedRow, Zenon DEF Kinds
  <2>6. TypeOK'
    BY <1>1, <2>1, <2>2, <2>5, Zenon DEF TypeOK, Moves, services, budgets, runtime
  <2>7. activity["evaluate"].state \in {"running", "completed"} /\ candidate # "none" /\ ~Over
    BY <2>1, <2>3, CandidateAtWork, Zenon
  <2>. QED
    BY <2>1, <2>2, <2>3, <2>4, <2>5, <2>6, <2>7, StageStep, Zenon DEF services, budgets
<1>3. ASSUME NEW u \in EvaluationUsages, RecordEvaluation(w, u)
      PROVE  Inv'
  <2>1. /\ worker[w].pc = "evaluate" /\ candidate' = "evaluating"
        /\ evaluated.keys < EvaluatorKeys
        /\ evaluated' = [keys |-> evaluated.keys + 1, usage |-> u]
        /\ UNCHANGED <<journal, session, attempt, invocation, admissions, budgets, runtime>>
    BY <1>3, Zenon DEF RecordEvaluation, At
  <2>2. /\ Moves(w) /\ worker'[w].pc \in {"next_stage", "evaluate"}
        /\ worker'[w].kind = worker[w].kind
    <3>1. PICK p : p = IF evaluated.keys + 1 = EvaluatorKeys THEN "next_stage" ELSE "evaluate"
      BY Zenon
    <3>2. p \in Steps /\ p \in {"next_stage", "evaluate"} /\ u \in {0} \cup Usages
      BY <3>1, Zenon DEF Steps, Usages
    <3>3. worker' = [worker EXCEPT ![w].pc = p, ![w].usage = u]
      BY <1>3, <3>1, Zenon DEF RecordEvaluation
    <3>. QED
      BY <1>1, <3>2, <3>3, UsageMoves, Zenon
  <2>3. worker[w].kind = "evaluate"
    BY <1>1, <2>1, Zenon DEF HandlerShape
  <2>4. HandlerShape(worker'[w]) /\ worker'[w].pc \notin FinalSteps \cup {"charge", "settle"}
    BY <2>2, <2>3, Zenon DEF HandlerShape, VariationSteps, ThreadSteps, FinalSteps
  <2>5. evaluated' \in [keys : 0..EvaluatorKeys, usage : {0} \cup EvaluationUsages]
    <3>1. evaluated.keys + 1 \in 0..EvaluatorKeys
      BY <1>1, <2>1, CampaignAssumption DEF TypeOK
    <3>. QED
      BY <2>1, <3>1, ZenonT(40)
  <2>6. candidate' \in {"none"} \cup CandidateState
    BY <2>1, Zenon DEF CandidateState
  <2>7. TypeOK'
    BY <1>1, <2>1, <2>2, <2>5, <2>6, Zenon DEF TypeOK, Moves, journal, budgets, runtime
  <2>8. activity["evaluate"].state \in {"running", "completed"} /\ ~Over
    BY <2>1, <2>3, CandidateAtWork, Zenon
  <2>. QED
    BY <2>1, <2>2, <2>4, <2>7, <2>8, StageStep, Zenon DEF journal, budgets
<1>. QED
  BY <1>2, <1>3, Zenon

(* The steps of the admission handler that store something.                 *)
LEMMA AdmissionKeeps ==
  ASSUME Inv, NEW w \in Workers,
         \/ FinishRun(w) \/ CommitAdmission(w)
         \/ \E o \in {"reject", "quarantine", "review_required"} : CommitDecision(w, o)
  PROVE  Inv'
<1>1. TypeOK /\ HandlerShape(worker[w])
  BY Zenon DEF Inv, HandlersShaped
<1>2. CASE FinishRun(w)
  <2>1. /\ worker[w].pc = "finish_run" /\ Leaves(w, "complete") /\ run' \in {run, "completed"}
        /\ UNCHANGED <<activity, openCases, services, budgets, runtime>>
    BY <1>2, Zenon DEF FinishRun, At
  <2>2. Moves(w) /\ worker'[w].pc = "complete" /\ worker'[w].kind = worker[w].kind
    BY <1>1, <2>1, LeavesMoves, Zenon DEF Steps
  <2>3. worker[w].kind = "admit"
    BY <1>1, <2>1, Zenon DEF HandlerShape
  <2>4. HandlerShape(worker'[w]) /\ worker'[w].pc \notin FinalSteps \cup {"charge", "settle"}
    BY <2>2, <2>3, Zenon DEF HandlerShape, VariationSteps, ThreadSteps, FinalSteps
  <2>5. run' \in RunState
    BY <1>1, <2>1, Zenon DEF TypeOK, RunState
  <2>6. TypeOK'
    BY <1>1, <2>1, <2>2, <2>5, Zenon DEF TypeOK, Moves, services, budgets, runtime
  <2>7. activity["evaluate"].state \in {"running", "completed"} /\ candidate # "none" /\ ~Over
    BY <2>1, <2>3, CandidateAtWork, Zenon
  <2>. QED
    BY <2>1, <2>2, <2>4, <2>6, <2>7, StageStep, Zenon DEF services, budgets
<1>3. ASSUME \/ CommitAdmission(w)
             \/ \E o \in {"reject", "quarantine", "review_required"} : CommitDecision(w, o)
      PROVE  Inv'
  <2>1. /\ worker[w].pc = "commit"
        /\ \E o \in {"admit", "reject", "quarantine", "review_required"} :
             admissions' = admissions \cup {o}
        /\ Leaves(w, "finish_run") \/ Leaves(w, "complete")
        /\ UNCHANGED <<journal, session, attempt, invocation, evaluated, budgets, runtime>>
    BY <1>3, Zenon DEF CommitAdmission, CommitDecision, At
  <2>2. /\ Moves(w) /\ worker'[w].pc \in {"finish_run", "complete"}
        /\ worker'[w].kind = worker[w].kind
    BY <1>1, <2>1, LeavesMoves, Zenon DEF Steps
  <2>3. worker[w].kind = "admit"
    BY <1>1, <2>1, Zenon DEF HandlerShape
  <2>4. HandlerShape(worker'[w]) /\ worker'[w].pc \notin FinalSteps \cup {"charge", "settle"}
    BY <2>2, <2>3, Zenon DEF HandlerShape, VariationSteps, ThreadSteps, FinalSteps
  <2>5. activity["evaluate"].state \in {"running", "completed"} /\ candidate # "none" /\ ~Over
    BY <2>1, <2>3, CandidateAtWork, Zenon
  <2>6. candidate' \in {candidate, "admitted", "rejected", "quarantined", "review_required"}
    <3>1. CASE CommitAdmission(w)
      BY <3>1, Zenon DEF CommitAdmission
    <3>2. ASSUME NEW o \in {"reject", "quarantine", "review_required"}, CommitDecision(w, o)
          PROVE  candidate' \in {candidate, "rejected", "quarantined", "review_required"}
      <4>1. DecidedState(o) \in {"rejected", "quarantined", "review_required"}
        <5>1. CASE o = "reject"
          BY <5>1, Zenon DEF DecidedState
        <5>2. CASE o = "quarantine"
          BY <5>2, Zenon DEF DecidedState
        <5>3. CASE o = "review_required"
          BY <5>3, Zenon DEF DecidedState
        <5>. QED
          BY <5>1, <5>2, <5>3, Zenon
      <4>. QED
        BY <3>2, <4>1, Zenon DEF CommitDecision
    <3>. QED
      BY <1>3, <3>1, <3>2, Zenon
  <2>7. candidate' \in CandidateState /\ candidate' # "none"
    <3>1. candidate \in CandidateState
      BY <1>1, <2>5, Zenon DEF TypeOK
    <3>. QED
      BY <2>5, <2>6, <3>1, Zenon DEF CandidateState
  <2>8. admissions' \subseteq {"admit", "reject", "quarantine", "review_required"}
    BY <1>1, <2>1, Zenon DEF TypeOK
  <2>9. TypeOK'
    BY <1>1, <2>1, <2>2, <2>7, <2>8, ZenonT(40) DEF TypeOK, Moves, journal, budgets, runtime
  <2>. QED
    BY <2>1, <2>2, <2>4, <2>5, <2>7, <2>9, StageStep, Zenon DEF journal, budgets
<1>. QED
  BY <1>2, <1>3, Zenon

(* claim_next: a claim needs a running run and a row to claim.              *)
LEMMA ClaimKeeps ==
  ASSUME Inv, NEW w \in Workers, NEW k \in Kinds, Claim(w, k)
  PROVE  Inv'
<1>1. TypeOK
  BY Zenon DEF Inv
<1>2. /\ Moves(w) /\ worker[w].pc = "idle" /\ worker'[w].pc = "recover" /\ worker'[w].kind = k
      /\ activity' \in [Kinds -> ActivityRow] /\ activity'[k].state = "running"
      /\ \A j \in Kinds \ {k} : activity'[j] = activity[j]
  BY <1>1, ClaimMoves, ZenonT(40)
<1>3. /\ run = "running" /\ activity[k].state \in {"queued", "running"}
      /\ UNCHANGED <<run, openCases, services, budgets, runtime>>
  BY Zenon DEF Claim
<1>4. HandlerShape(worker'[w]) /\ worker'[w].pc \notin FinalSteps \cup {"charge", "settle"}
  BY <1>2, Zenon DEF HandlerShape, VariationSteps, ThreadSteps, FinalSteps
<1>5. TypeOK'
  BY <1>1, <1>2, <1>3, ZenonT(40) DEF TypeOK, Moves, services, budgets, runtime
<1>6. ~Over
  BY <1>3, OverExcludes, Zenon
<1>7. /\ candidate = "none" => activity["evaluate"].state = "none"
      /\ activity["evaluate"].state \in {"none", "queued", "running", "completed", "cancelled"}
      /\ activity["admit"].state # "none" => activity["evaluate"].state \in {"running", "completed"}
  BY Zenon DEF Inv, StageInv
<1>8. /\ candidate' # "none" \/ activity'["evaluate"].state = "none"
      /\ activity["evaluate"].state \in {"running", "completed"} =>
           activity'["evaluate"].state \in {"running", "completed"}
      /\ activity'["evaluate"].state \in {"none", "queued", "running", "completed", "cancelled"}
      /\ \/ activity'["admit"].state = "none"
         \/ activity'["evaluate"].state \in {"running", "completed"}
      /\ k # "variation" => activity'["evaluate"].state \in {"running", "completed"}
  <2>1. candidate' = candidate
    BY <1>3, Zenon DEF services
  <2>2. CASE k = "evaluate"
    <3>1. activity'["admit"] = activity["admit"] /\ activity'["evaluate"].state = "running"
      BY <1>2, <2>2, Zenon DEF Kinds
    <3>. QED
      BY <1>3, <1>7, <2>1, <2>2, <3>1, Zenon
  <2>3. CASE k # "evaluate"
    <3>1. activity'["evaluate"] = activity["evaluate"]
      BY <1>2, <2>3, Zenon DEF Kinds
    <3>2. k = "admit" => activity["evaluate"].state \in {"running", "completed"}
      BY <1>3, <1>7, Zenon
    <3>3. k # "admit" => activity'["admit"] = activity["admit"]
      BY <1>2, Zenon DEF Kinds
    <3>4. k \in {"variation", "admit"}
      BY <2>3, Zenon DEF Kinds
    <3>. QED
      BY <1>7, <2>1, <3>1, <3>2, <3>3, <3>4, Zenon
  <2>. QED
    BY <2>2, <2>3, Zenon
<1>. QED
  BY <1>2, <1>3, <1>4, <1>5, <1>6, <1>8, StageStep, Zenon DEF services, budgets

(* ActivityService.complete, which an exceeded budget has left nothing for. *)
LEMMA CompleteActivityKeeps ==
  ASSUME Inv, NEW w \in Workers, CompleteActivity(w)
  PROVE  Inv'
<1>1. TypeOK /\ worker[w] \in WorkerState
  BY Zenon DEF Inv, TypeOK
<1>2. PICK k : k = worker[w].kind
  BY Zenon
<1>3. k \in Kinds
  BY <1>1, <1>2, Zenon DEF WorkerState
<1>4. /\ worker[w].pc = "complete" /\ GoesIdle(w) /\ activity[k].state = "running"
      /\ activity' = [activity EXCEPT ![k].state = "completed"]
      /\ UNCHANGED <<run, openCases, services, budgets, runtime>>
  <2>1. activity[k] = [state |-> "running", epoch |-> worker[w].epoch]
    BY <1>2, Zenon DEF CompleteActivity
  <2>2. activity[k].state = "running"
    BY <2>1
  <2>. QED
    BY <1>2, <2>2, Zenon DEF CompleteActivity, At
<1>5. Moves(w) /\ worker'[w].pc = "idle"
  BY <1>1, <1>4, IdleMoves, Zenon
<1>6. HandlerShape(worker'[w]) /\ worker'[w].pc \notin FinalSteps \cup {"charge", "settle"}
  BY <1>5, Zenon DEF HandlerShape, VariationSteps, ThreadSteps, FinalSteps
<1>7. /\ activity' \in [Kinds -> ActivityRow] /\ activity'[k].state = "completed"
      /\ \A j \in Kinds \ {k} : activity'[j] = activity[j]
  <2>1. PICK a : a = activity[k] /\ a \in ActivityRow
    BY <1>1, <1>3, Zenon DEF TypeOK
  <2>2. PICK n : n = [a EXCEPT !.state = "completed"]
    BY Zenon
  <2>3. n \in ActivityRow /\ n.state = "completed"
    BY <2>1, <2>2, Zenon DEF ActivityRow
  <2>4. activity' = [activity EXCEPT ![k] = n]
    BY <1>4, <2>1, <2>2, Zenon
  <2>. QED
    BY <1>1, <1>3, <2>3, <2>4, Zenon DEF TypeOK
<1>8. TypeOK'
  BY <1>1, <1>4, <1>5, <1>7, Zenon DEF TypeOK, Moves, services, budgets, runtime
<1>9. ~Over
  <2>1. CASE k = "variation"
    BY <1>4, <2>1, OverExcludes, Zenon
  <2>2. CASE k # "variation"
    BY <1>2, <1>4, <2>2, CandidateAtWork, Zenon
  <2>. QED
    BY <2>1, <2>2, Zenon
<1>10. /\ candidate = "none" => activity["evaluate"].state = "none"
       /\ activity["evaluate"].state \in {"none", "queued", "running", "completed", "cancelled"}
       /\ activity["admit"].state # "none" =>
            activity["evaluate"].state \in {"running", "completed"}
  BY Zenon DEF Inv, StageInv
<1>11. /\ candidate' # "none" \/ activity'["evaluate"].state = "none"
       /\ activity["evaluate"].state \in {"running", "completed"} =>
            activity'["evaluate"].state \in {"running", "completed"}
       /\ activity'["evaluate"].state \in {"none", "queued", "running", "completed", "cancelled"}
       /\ \/ activity'["admit"].state = "none"
          \/ activity'["evaluate"].state \in {"running", "completed"}
  <2>1. candidate' = candidate
    BY <1>4, Zenon DEF services
  <2>2. CASE k = "evaluate"
    <3>1. activity'["evaluate"].state = "completed"
      BY <1>7, <2>2, Zenon
    <3>. QED
      BY <1>4, <1>10, <2>1, <2>2, <3>1, Zenon
  <2>3. CASE k # "evaluate"
    <3>1. activity'["evaluate"] = activity["evaluate"]
      BY <1>7, <2>3, Zenon DEF Kinds
    <3>2. k = "admit" => activity["evaluate"].state \in {"running", "completed"}
      BY <1>4, <1>10, Zenon
    <3>3. k # "admit" => activity'["admit"] = activity["admit"]
      BY <1>7, Zenon DEF Kinds
    <3>. QED
      BY <1>10, <2>1, <3>1, <3>2, <3>3, Zenon
  <2>. QED
    BY <2>2, <2>3, Zenon
<1>. QED
  BY <1>4, <1>5, <1>6, <1>8, <1>9, <1>11, StageStep, Zenon DEF services, budgets

(* mark_reconciliation_required: the reservation stays active, as reserved  *)
(* or held, and the running session has no result.                          *)
LEMMA MarkReconciliationKeeps ==
  ASSUME Inv, NEW w \in Workers, MarkReconciliation(w)
  PROVE  Inv'
<1>1. TypeOK /\ session \in SessionRow
  BY Zenon DEF Inv, TypeOK, SessionRow
<1>2. /\ activity["variation"].state \in {"running", "queued"} /\ GoesIdle(w)
      /\ activity' = [activity EXCEPT !["variation"].state = "reconciliation_required"]
      /\ run' = "blocked_reconciliation" /\ openCases' = openCases + 1
      /\ UNCHANGED <<attempt, invocation, candidate, evaluated, admissions, ledger, runtime>>
  BY Zenon DEF MarkReconciliation
<1>3. Moves(w) /\ worker'[w].pc = "idle"
  BY <1>1, <1>2, IdleMoves, Zenon
<1>4. HandlerShape(worker'[w]) /\ worker'[w].pc \notin FinalSteps \cup {"charge", "settle"}
  BY <1>3, Zenon DEF HandlerShape, VariationSteps, ThreadSteps, FinalSteps
<1>5. /\ activity' \in [Kinds -> ActivityRow] /\ activity'["evaluate"] = activity["evaluate"]
      /\ activity'["admit"] = activity["admit"]
  <2>1. PICK a : a = activity["variation"]
    BY Zenon
  <2>2. a \in ActivityRow
    BY <1>1, <2>1, Zenon DEF TypeOK, Kinds
  <2>3. PICK n : n = [a EXCEPT !.state = "reconciliation_required"]
    BY Zenon
  <2>4. n \in ActivityRow
    BY <2>2, <2>3, Zenon DEF ActivityRow
  <2>5. activity' = [activity EXCEPT !["variation"] = n]
    BY <1>2, <2>1, <2>3, Zenon
  <2>. QED
    BY <1>1, <2>4, <2>5, Zenon DEF TypeOK, Kinds
<1>6. /\ session' \in SessionRow /\ session'.outcome = session.outcome
      /\ \/ session' = session
         \/ session.state = "running" /\ session'.state = "reconciliation_required"
  <2>1. PICK s : s = session
    BY Zenon
  <2>2. PICK n : n = [s EXCEPT !.state = "reconciliation_required"]
    BY Zenon
  <2>3. "reconciliation_required" \in VariationSessionState
    BY Zenon DEF VariationSessionState
  <2>4. n \in SessionRow /\ n.outcome = s.outcome /\ n.state = "reconciliation_required"
    BY <1>1, <2>1, <2>2, <2>3, Zenon DEF SessionRow
  <2>5. session' = s \/ (s.state = "running" /\ session' = n)
    BY <2>1, <2>2, Zenon DEF MarkReconciliation
  <2>. QED
    BY <1>1, <2>1, <2>4, <2>5, Zenon
<1>7. /\ reservation' \in [{"variation", "evaluate"} -> ReservationRow]
      /\ reservation'["evaluate"] = reservation["evaluate"]
      /\ reservation'["variation"].estimated = reservation["variation"].estimated
      /\ reservation'["variation"].actual = reservation["variation"].actual
      /\ \/ reservation'["variation"].state = reservation["variation"].state
         \/ /\ reservation["variation"].state = "reserved"
            /\ reservation'["variation"].state = "held"
  <2>1. PICK r : r = reservation["variation"]
    BY Zenon
  <2>2. r \in ReservationRow
    BY <1>1, <2>1, Zenon DEF TypeOK
  <2>3. PICK n : n = [r EXCEPT !.state = "held"]
    BY Zenon
  <2>4. n \in ReservationRow /\ n.state = "held" /\ n.estimated = r.estimated /\ n.actual = r.actual
    BY <2>2, <2>3, Zenon DEF ReservationRow
  <2>5. \/ reservation' = reservation
        \/ r.state = "reserved" /\ reservation' = [reservation EXCEPT !["variation"] = n]
    BY <2>1, <2>3, Zenon DEF MarkReconciliation
  <2>. QED
    BY <1>1, <2>1, <2>4, <2>5 DEF TypeOK
<1>8. run' \in RunState /\ openCases' \in Nat
  BY <1>1, <1>2 DEF TypeOK, RunState
<1>9. TypeOK'
  BY <1>1, <1>2, <1>3, <1>5, <1>6, <1>7, <1>8, Zenon DEF TypeOK, SessionRow, Moves, runtime
<1>10. Durable
  BY <1>2, <1>6, Zenon DEF Durable
<1>11. HandlersShaped'
  BY <1>3, <1>4, HandlersFrame, Zenon DEF Inv
<1>12. LedgerInv'
  <2>1. Reserves("variation")' = Reserves("variation") /\ Costs("variation")' = Costs("variation")
    BY <1>7, Zenon DEF Reserves, Costs, Settling
  <2>2. Reserves("evaluate")' = Reserves("evaluate") /\ Costs("evaluate")' = Costs("evaluate")
    BY <1>7, Zenon DEF Reserves, Costs, Settling
  <2>. QED
    BY <1>2, <1>7, <2>1, <2>2, Zenon DEF Inv, LedgerInv
<1>13. SessionInv'
  BY <1>1, <1>6, <1>7, Zenon DEF Inv, SessionInv, SessionRow, Settling
<1>14. FinalInv'
  BY <1>3, <1>4, <1>10, FinalFrame, Zenon DEF Inv
<1>15. StageInv'
  BY <1>2, <1>3, <1>5, <1>7, StageFrame, Zenon DEF Inv
<1>16. ExhaustionInv'
  <2>1. ~Over
    BY <1>2, OverExcludes, Zenon
  <2>2. ~Over'
    BY <1>7, <2>1, Zenon DEF Over
  <2>. QED
    BY <1>2, <2>2, ExhaustionFrame, Zenon DEF Inv
<1>. QED
  BY <1>9, <1>11, <1>12, <1>13, <1>14, <1>15, <1>16, Zenon DEF Inv


-----------------------------------------------------------------------------
(* The provider and the operators, while every worker stands still.         *)
LEMMA WorkersStand ==
  ASSUME Inv, UNCHANGED <<worker, attempt, invocation, candidate>>,
         session'.outcome = session.outcome,
         activity'["evaluate"].state = activity["evaluate"].state,
         activity'["admit"].state = activity["admit"].state,
         reservation'["evaluate"].state = reservation["evaluate"].state
  PROVE  HandlersShaped' /\ FinalInv' /\ StageInv'
<1>1. HandlersShaped'
  BY Zenon DEF Inv, HandlersShaped, HandlerShape
<1>2. ResultMissing' <=> ResultMissing
  BY Zenon DEF ResultMissing
<1>3. FinalInv'
  BY <1>2, Zenon DEF Inv, FinalInv
<1>4. StageInv'
  BY Zenon DEF Inv, StageInv
<1>. QED
  BY <1>1, <1>3, <1>4, Zenon

(* The provider touches nothing that the invariant reads, and neither does  *)
(* a stuttering step.                                                       *)
LEMMA ProviderKeeps ==
  ASSUME Inv, TypeOK', UNCHANGED <<journal, services, budgets, worker>>
  PROVE  Inv'
<1>1. HandlersShaped' /\ FinalInv' /\ StageInv'
  BY WorkersStand, Zenon DEF journal, services, budgets
<1>2. LedgerInv' /\ SessionInv'
  BY BudgetFrame, Zenon DEF Inv, services, budgets
<1>3. ExhaustionInv'
  BY ExhaustionFrame, Zenon DEF Inv, Over, journal, services, budgets
<1>. QED
  BY <1>1, <1>2, <1>3, Zenon DEF Inv

(* A turn that ends or is lost.                                             *)
LEMMA ProviderStepKeeps ==
  ASSUME Inv, NEW t \in Threads, ProviderStep(t)
  PROVE  Inv'
<1>1. TypeOK
  BY Zenon DEF Inv
<1>2. UNCHANGED <<journal, services, budgets, attached, worker>>
  BY Zenon DEF ProviderStep, TurnEnds, TurnLost
<1>3. provider' \in [Threads -> Thread]
  <2>1. ASSUME NEW o \in {"proposal_ready", "exhausted"}, NEW u \in ReportedUsages,
               TurnEnds(t, o, u)
        PROVE  provider' \in [Threads -> Thread]
    <3>1. [state |-> "completed", outcome |-> o, usage |-> u] \in Thread
      BY Zenon DEF Thread, Usages
    <3>. QED
      BY <1>1, <2>1, <3>1, Zenon DEF TypeOK, TurnEnds
  <2>2. CASE TurnLost(t)
    <3>1. PICK x : x = [provider[t] EXCEPT !.state = "lost"]
      BY Zenon
    <3>2. x \in Thread
      BY <1>1, <3>1, Zenon DEF TypeOK, Thread
    <3>3. provider' = [provider EXCEPT ![t] = x]
      BY <2>2, <3>1, Zenon DEF TurnLost
    <3>. QED
      BY <1>1, <3>2, <3>3, Zenon DEF TypeOK
  <2>. QED
    BY <2>1, <2>2, Zenon DEF ProviderStep
<1>4. TypeOK'
  BY <1>1, <1>2, <1>3, Zenon DEF TypeOK, journal, services, budgets
<1>. QED
  BY <1>2, <1>4, ProviderKeeps, Zenon

(* The commands move the run only, and a failed run not at all.             *)
LEMMA CommandKeeps ==
  ASSUME Inv, SettleAgain \/ \E t \in RunState : Command(t)
  PROVE  Inv'
<1>1. TypeOK
  BY Zenon DEF Inv
<1>2. UNCHANGED <<activity, openCases, services, budgets, runtime, worker>>
  BY Zenon DEF SettleAgain, Command
<1>3. run' \in RunState
  <2>1. CASE SettleAgain
    BY <2>1, Zenon DEF SettleAgain, RunState
  <2>2. ASSUME NEW t \in RunState, Command(t)
        PROVE  run' \in RunState
    <3>1. run' = Settled(t)
      BY <2>2, Zenon DEF Command
    <3>2. Settled(t) \in {t, "paused", "cancelled"}
      <4>1. CASE t = "pausing"
        BY <4>1, Zenon DEF Settled
      <4>2. CASE t = "cancelling"
        BY <4>2, Zenon DEF Settled
      <4>3. CASE t \notin {"pausing", "cancelling"}
        BY <4>3, Zenon DEF Settled
      <4>. QED
        BY <4>1, <4>2, <4>3, Zenon
    <3>. QED
      BY <3>1, <3>2, Zenon DEF RunState
  <2>. QED
    BY <2>1, <2>2, Zenon
<1>4. ~Over
  <2>1. run # "failed"
    <3>1. CASE SettleAgain
      BY <3>1, Zenon DEF SettleAgain
    <3>2. ASSUME NEW t \in RunState, Command(t)
          PROVE  run # "failed"
      BY <3>2, Zenon DEF Command, can_transition, RUN_TRANSITIONS
    <3>. QED
      BY <3>1, <3>2, Zenon
  <2>. QED
    BY <2>1, OverExcludes, Zenon
<1>5. TypeOK'
  BY <1>1, <1>2, <1>3, Zenon DEF TypeOK, services, budgets, runtime
<1>6. HandlersShaped' /\ FinalInv' /\ StageInv'
  BY <1>2, WorkersStand, Zenon DEF services, budgets
<1>7. LedgerInv' /\ SessionInv'
  BY <1>2, BudgetFrame, Zenon DEF Inv, services, budgets
<1>8. ExhaustionInv'
  BY <1>2, <1>4, ExhaustionFrame, Zenon DEF Inv, Over, services, budgets
<1>. QED
  BY <1>5, <1>6, <1>7, <1>8, Zenon DEF Inv

(* What each resolution asks for.                                           *)
LEMMA ResolutionRows ==
  ASSUME NEW x \in {"retry", "accept_result", "cancel", "fail"}, NEW r, r = Resolved(x)
  PROVE  /\ r.activity \in {"queued", "completed", "cancelled", "failed"}
         /\ r.target = (IF x \in {"retry", "accept_result"} THEN "running"
                        ELSE IF x = "cancel" THEN "cancelled" ELSE "failed")
<1>1. CASE x = "retry"
  <2>1. r = [activity |-> "queued", target |-> "running"]
    BY <1>1, Zenon DEF Resolved
  <2>. QED
    BY <1>1, <2>1
<1>2. CASE x = "accept_result"
  <2>1. r = [activity |-> "completed", target |-> "running"]
    BY <1>2, Zenon DEF Resolved
  <2>. QED
    BY <1>2, <2>1
<1>3. CASE x = "cancel"
  <2>1. r = [activity |-> "cancelled", target |-> "cancelled"]
    BY <1>3, Zenon DEF Resolved
  <2>. QED
    BY <1>3, <2>1
<1>4. CASE x = "fail"
  <2>1. r = [activity |-> "failed", target |-> "failed"]
    BY <1>4, Zenon DEF Resolved
  <2>. QED
    BY <1>4, <2>1
<1>. QED
  BY <1>1, <1>2, <1>3, <1>4, Zenon

(* resolve_reconciliation: the session's transition is legal only while it  *)
(* has no result, and then its reservation is still active.                 *)
LEMMA ResolveKeeps ==
  ASSUME Inv, NEW x \in {"retry", "accept_result", "cancel", "fail"}, ResolveReconciliation(x)
  PROVE  Inv'
<1>1. TypeOK /\ session \in SessionRow
  BY Zenon DEF Inv, TypeOK, SessionRow
<1>2. PICK r : r = Resolved(x)
  BY Zenon
<1>3. /\ r.activity \in {"queued", "completed", "cancelled", "failed"}
      /\ r.target = (IF x \in {"retry", "accept_result"} THEN "running"
                     ELSE IF x = "cancel" THEN "cancelled" ELSE "failed")
  BY <1>2, ResolutionRows, Zenon
<1>4. /\ openCases > 0 /\ openCases' = openCases - 1 /\ run' = r.target
      /\ can_transition(SESSION_TRANSITIONS, session.state, r.target)
      /\ ReleasesHeld(x) => ledger.reserved >= VariationEstimate
      /\ UNCHANGED <<attempt, invocation, candidate, evaluated, admissions, runtime, worker>>
  BY <1>2, Zenon DEF ResolveReconciliation
<1>5. session.state \in {"queued", "running", "reconciliation_required"}
  BY <1>3, <1>4, Zenon DEF can_transition, SESSION_TRANSITIONS
<1>6. session.outcome = "none" /\ Settling("variation")
  BY <1>1, <1>5, Zenon DEF Inv, SessionInv, SessionRow
<1>7. /\ activity' \in [Kinds -> ActivityRow] /\ activity'["evaluate"] = activity["evaluate"]
      /\ activity'["admit"] = activity["admit"]
  <2>1. PICK a : a = activity["variation"]
    BY Zenon
  <2>2. a \in ActivityRow
    BY <1>1, <2>1, Zenon DEF TypeOK, Kinds
  <2>3. PICK s : s = r.activity
    BY Zenon
  <2>4. PICK n : n = [a EXCEPT !.state = s]
    BY Zenon
  <2>5. n \in ActivityRow
    BY <1>3, <2>2, <2>3, <2>4, Zenon DEF ActivityRow
  <2>6. activity' = [activity EXCEPT !["variation"] = n]
    BY <1>2, <2>1, <2>3, <2>4, Zenon DEF ResolveReconciliation
  <2>. QED
    BY <1>1, <2>5, <2>6, Zenon DEF TypeOK, Kinds
<1>8. session' \in SessionRow /\ session'.outcome = session.outcome /\ session'.state = r.target
  <2>1. PICK s, t : s = session /\ t = r.target
    BY Zenon
  <2>2. t \in VariationSessionState
    BY <1>3, <2>1, Zenon DEF VariationSessionState
  <2>3. session' = [s EXCEPT !.state = t]
    BY <1>2, <2>1, Zenon DEF ResolveReconciliation
  <2>. QED
    BY <1>1, <2>1, <2>2, <2>3, Zenon DEF SessionRow
<1>9. /\ reservation' \in [{"variation", "evaluate"} -> ReservationRow]
      /\ reservation'["evaluate"] = reservation["evaluate"]
      /\ reservation'["variation"].estimated = reservation["variation"].estimated
      /\ reservation'["variation"].state =
           (IF x = "retry" THEN "reserved" ELSE IF x \in {"cancel", "fail"} THEN "released"
            ELSE reservation["variation"].state)
  <2>1. PICK v : v = reservation["variation"]
    BY Zenon
  <2>2. v \in ReservationRow
    BY <1>1, <2>1, Zenon DEF TypeOK
  <2>3. PICK s : s = IF x = "retry" THEN "reserved" ELSE IF x \in {"cancel", "fail"} THEN "released"
                     ELSE v.state
    BY Zenon
  <2>4. s \in {"none", "reserved", "held", "completed", "exceeded", "released"}
    BY <2>2, <2>3, Zenon DEF ReservationRow
  <2>5. PICK n : n = [v EXCEPT !.state = s]
    BY Zenon
  <2>6. n \in ReservationRow /\ n.state = s /\ n.estimated = v.estimated
    BY <2>2, <2>4, <2>5, Zenon DEF ReservationRow
  <2>7. reservation' = [reservation EXCEPT !["variation"] = n]
    BY <2>1, <2>3, <2>5, Zenon DEF ResolveReconciliation
  <2>. QED
    BY <1>1, <2>1, <2>3, <2>6, <2>7, Zenon DEF TypeOK
<1>10. VariationEstimate \in Nat /\ ledger.reserved \in Nat /\ ledger.used \in Nat
  BY <1>1, CampaignAssumption, Zenon DEF TypeOK
<1>11. /\ ledger' \in [used : Nat, reserved : Nat] /\ ledger'.used = ledger.used
       /\ ledger'.reserved = IF x \in {"cancel", "fail"} THEN ledger.reserved - VariationEstimate
                             ELSE ledger.reserved
  <2>1. PICK l : l = ledger /\ l \in [used : Nat, reserved : Nat]
    BY <1>1, Zenon DEF TypeOK
  <2>2. PICK m : m = l.reserved - VariationEstimate
    BY Zenon
  <2>3. PICK n : n = [l EXCEPT !.reserved = m]
    BY Zenon
  <2>4. n.used = l.used /\ n.reserved = m /\ (m \in Nat => n \in [used : Nat, reserved : Nat])
    BY <2>1, <2>3, Zenon
  <2>5. x \in {"cancel", "fail"} => m \in Nat
    BY <1>4, <1>10, <2>1, <2>2 DEF ReleasesHeld
  <2>6. ledger' = IF x \in {"cancel", "fail"} THEN n ELSE l
    BY <2>1, <2>2, <2>3, Zenon DEF ResolveReconciliation, ReleasesHeld
  <2>. QED
    BY <2>1, <2>2, <2>4, <2>5, <2>6, Zenon
<1>12. run' \in RunState /\ openCases' \in Nat
  BY <1>1, <1>3, <1>4 DEF TypeOK, RunState
<1>13. TypeOK'
  BY <1>1, <1>4, <1>7, <1>8, <1>9, <1>11, <1>12, Zenon DEF TypeOK, SessionRow, runtime
<1>14. HandlersShaped' /\ FinalInv' /\ StageInv'
  BY <1>4, <1>7, <1>8, <1>9, WorkersStand, ZenonT(40)
<1>15. LedgerInv'
  <2>1. Reserves("evaluate")' = Reserves("evaluate") /\ Costs("evaluate")' = Costs("evaluate")
    BY <1>9, Zenon DEF Reserves, Costs, Settling
  <2>2. /\ ledger.reserved = Reserves("variation") + Reserves("evaluate")
        /\ ledger.used = Costs("variation") + Costs("evaluate")
        /\ reservation["variation"].estimated = VariationEstimate
    BY Zenon DEF Inv, LedgerInv
  <2>3. Reserves("variation") = VariationEstimate /\ Costs("variation") = 0
    BY <1>6, <2>2, Zenon DEF Reserves, Costs, Settling
  <2>4. Reserves("variation")' = (IF x \in {"cancel", "fail"} THEN 0 ELSE VariationEstimate)
    BY <1>6, <1>9, <2>2, Zenon DEF Reserves, Settling
  <2>5. Costs("variation")' = 0
    BY <1>6, <1>9, Zenon DEF Costs, Settling
  <2>6. Reserves("evaluate") \in Nat
    BY <1>1, AmountsAreNat, Zenon
  <2>. QED
    BY <1>9, <1>10, <1>11, <2>1, <2>2, <2>3, <2>4, <2>5, <2>6 DEF LedgerInv
<1>16. SessionInv'
  BY <1>3, <1>6, <1>8, <1>9, Zenon DEF SessionInv, Settling
<1>17. ExhaustionInv'
  <2>1. ~Over'
    BY <1>6, <1>9, Zenon DEF Over, Settling
  <2>. QED
    BY <1>4, <2>1, ExhaustionFrame, Zenon DEF Inv
<1>. QED
  BY <1>13, <1>14, <1>15, <1>16, <1>17, Zenon DEF Inv


-----------------------------------------------------------------------------
(* The invariant is inductive.                                              *)

(* Init establishes every part: only the variation is reserved.             *)
LEMMA InitKeeps ==
  ASSUME Init
  PROVE  Inv
<1>1. PICK e \in EvaluationEstimates :
        reservation = [k \in {"variation", "evaluate"} |->
          IF k = "variation"
          THEN [state |-> "reserved", estimated |-> VariationEstimate, actual |-> 0]
          ELSE [state |-> "none", estimated |-> e, actual |-> 0]]
  BY Zenon DEF Init
<1>2. /\ reservation["variation"] =
           [state |-> "reserved", estimated |-> VariationEstimate, actual |-> 0]
      /\ reservation["evaluate"] = [state |-> "none", estimated |-> e, actual |-> 0]
  BY <1>1, Zenon
<1>3. /\ reservation["variation"].state = "reserved"
      /\ reservation["variation"].estimated = VariationEstimate
      /\ reservation["evaluate"].state = "none"
  BY <1>2
<1>4. reservation \in [{"variation", "evaluate"} -> ReservationRow]
  <2>1. /\ [state |-> "reserved", estimated |-> VariationEstimate, actual |-> 0] \in ReservationRow
        /\ [state |-> "none", estimated |-> e, actual |-> 0] \in ReservationRow
    BY Zenon DEF ReservationRow
  <2>. QED
    BY <1>1, <2>1, Zenon
<1>5. \A w \in Workers : worker[w] = Idle /\ worker[w].pc = "idle"
  BY Zenon DEF Init, Idle
<1>6. worker \in [Workers -> WorkerState]
  <2>1. Idle \in WorkerState
    <3>1. Idle = [pc |-> "idle", kind |-> "variation", epoch |-> 0, thread |-> 0,
                  operation |-> FALSE, usage |-> 0, recovering |-> FALSE,
                  prior |-> "none"]
      BY Zenon DEF Idle
    <3>. QED
      BY <3>1, CampaignAssumption DEF WorkerState, Steps, Kinds
  <2>. QED
    BY <2>1, Zenon DEF Init
<1>7. /\ \A k \in Kinds : activity[k].state = IF k = "variation" THEN "queued" ELSE "none"
      /\ activity \in [Kinds -> ActivityRow]
  <2>1. activity = [k \in Kinds |->
          [state |-> IF k = "variation" THEN "queued" ELSE "none", epoch |-> 0]]
    BY Zenon DEF Init
  <2>. QED
    BY <2>1, CampaignAssumption DEF ActivityRow
<1>8. provider \in [Threads -> Thread] /\ attached \in [Workers -> SUBSET Threads]
  BY Zenon DEF Init, Thread
<1>9. ledger = [used |-> 0, reserved |-> VariationEstimate] /\ VariationEstimate \in Nat
  BY CampaignAssumption, Zenon DEF Init
<1>10. /\ run \in RunState /\ session \in SessionRow /\ invocation \in InvocationRow
       /\ session.state = "queued" /\ session.outcome = "none" /\ invocation.state = "none"
       /\ evaluated \in [keys : 0..EvaluatorKeys, usage : {0} \cup EvaluationUsages]
  <2>1. /\ run = "running" /\ session = [state |-> "queued", outcome |-> "none", usage |-> 0]
        /\ invocation = [state |-> "none", thread |-> 0, operation |-> FALSE]
        /\ evaluated = [keys |-> 0, usage |-> 0]
    BY Zenon DEF Init
  <2>2. run \in RunState
    BY <2>1, Zenon DEF RunState
  <2>3. session \in SessionRow /\ session.state = "queued" /\ session.outcome = "none"
    BY <2>1, Zenon DEF SessionRow, VariationSessionState
  <2>4. invocation \in InvocationRow /\ invocation.state = "none"
    BY <2>1, CampaignAssumption, SMTT(30) DEF InvocationRow
  <2>5. evaluated \in [keys : 0..EvaluatorKeys, usage : {0} \cup EvaluationUsages]
    BY <2>1, CampaignAssumption
  <2>. QED
    BY <2>2, <2>3, <2>4, <2>5, Zenon
<1>11. /\ attempt = FALSE /\ candidate = "none" /\ admissions = {} /\ openCases = 0
  BY Zenon DEF Init
<1>12. TypeOK
  <2>1. ledger \in [used : Nat, reserved : Nat]
    BY <1>9, Zenon
  <2>2. openCases \in Nat
    BY <1>11, Zenon
  <2>. QED
    BY <1>4, <1>6, <1>7, <1>8, <1>10, <1>11, <2>1, <2>2, Zenon DEF TypeOK, SessionRow
<1>13. HandlersShaped
  BY <1>5, Zenon DEF HandlersShaped, HandlerShape, VariationSteps, ThreadSteps, FinalSteps
<1>14. LedgerInv /\ SessionInv
  <2>1. /\ Reserves("variation") = VariationEstimate /\ Reserves("evaluate") = 0
        /\ Costs("variation") = 0 /\ Costs("evaluate") = 0 /\ Settling("variation")
    BY <1>3, Zenon DEF Reserves, Costs, Settling
  <2>. QED
    BY <1>3, <1>9, <1>10, <2>1, SMTT(30) DEF LedgerInv, SessionInv
<1>15. FinalInv
  <2>1. \A w \in Workers : worker[w].pc \notin FinalSteps \cup {"charge", "settle"}
    BY <1>5, Zenon DEF FinalSteps
  <2>. QED
    BY <1>10, <2>1, Zenon DEF FinalInv
<1>16. StageInv
  BY <1>3, <1>5, <1>7, Zenon DEF StageInv, Kinds
<1>17. ExhaustionInv
  BY <1>3, Zenon DEF ExhaustionInv, ExhaustionIsFinal
<1>. QED
  BY <1>12, <1>13, <1>14, <1>15, <1>16, <1>17, Zenon DEF Inv

(* Every step keeps the invariant, one lemma above for each action.         *)
LEMMA NextKeeps ==
  ASSUME Inv, [Next]_vars
  PROVE  Inv'
<1>1. ASSUME NEW w \in Workers, VariationStep(w)
      PROVE  Inv'
  <2>1. \/ RecoverVariation(w) \/ RecordInvocation(w)
        \/ \E t \in Threads : PrepareThread(w, t)
        \/ SaveThread(w) \/ StartTurn(w) \/ AdoptTurn(w) \/ SaveTurn(w) \/ StreamTurn(w)
        \/ ChargedAlready(w) \/ OverBudget(w)
        \/ StartSession(w) \/ RecordAttempt(w) \/ FinishSession(w) \/ StageCandidate(w)
        \/ ReserveEvaluation(w) \/ EnqueueEvaluation(w) \/ CompleteInvocation(w)
        \/ ChargeReservation(w) \/ SettleExhausted(w) \/ SettledAlready(w)
    BY <1>1, Zenon DEF VariationStep
  <2>. QED
    BY <2>1, ReadingSteps, EndingSteps, StartSessionKeeps, RecordAttemptKeeps,
       FinishSessionKeeps, StageCandidateKeeps, ReserveEvaluationKeeps,
       EnqueueEvaluationKeeps, CompleteInvocationKeeps, ChargeReservationKeeps,
       SettleExhaustedKeeps, SettledAlreadyKeeps, Zenon
<1>2. ASSUME NEW w \in Workers, EvaluationStep(w)
      PROVE  Inv'
  BY <1>2, EndingSteps, EvaluationKeeps, Zenon DEF EvaluationStep
<1>3. ASSUME NEW w \in Workers, AdmissionStep(w)
      PROVE  Inv'
  BY <1>3, EndingSteps, AdmissionKeeps, Zenon DEF AdmissionStep
<1>4. ASSUME NEW w \in Workers, SchedulerStep(w)
      PROVE  Inv'
  BY <1>4, ClaimKeeps, CompleteActivityKeeps, EndingSteps, MarkReconciliationKeeps, Zenon
     DEF SchedulerStep
<1>5. ASSUME OperatorStep
      PROVE  Inv'
  BY <1>5, CommandKeeps, ResolveKeeps, Zenon DEF OperatorStep
<1>6. CASE UNCHANGED vars
  <2>1. UNCHANGED <<journal, services, budgets, runtime, worker>>
    BY <1>6, Zenon DEF vars
  <2>2. TypeOK'
    BY <2>1, Zenon DEF Inv, TypeOK, journal, services, budgets, runtime
  <2>. QED
    BY <2>1, <2>2, ProviderKeeps, Zenon
<1>. QED
  BY <1>1, <1>2, <1>3, <1>4, <1>5, <1>6, ProviderStepKeeps, Zenon DEF Next
-----------------------------------------------------------------------------
(* Whatever workers, provider and operators do, the handlers' rows stay     *)
(* consistent with each other.                                              *)
THEOREM Invariance == Spec => []Inv
<1>1. Init => Inv
  BY InitKeeps, Zenon
<1>2. Inv /\ [Next]_vars => Inv'
  BY NextKeeps, Zenon
<1>. QED
  BY <1>1, <1>2, PTL DEF Spec

(* The ledger is the sum of its reservations, through recovery, settlement  *)
(* and resolution (BudgetService, TerminalBudgetService,                    *)
(* resolve_reconciliation).                                                 *)
THEOREM LedgerBalanced == Spec => []LedgerConserved
<1>1. Inv => LedgerConserved
  <2>. SUFFICES ASSUME Inv
                PROVE  LedgerConserved
    BY Zenon
  <2>1. TypeOK /\ LedgerInv
    BY Zenon DEF Inv
  <2>2. SumOf({"reserved", "held"}, [k \in {"variation", "evaluate"} |-> Estimate(k)])
          = Reserves("variation") + Reserves("evaluate")
    BY Zenon DEF SumOf, Estimate, Reserves, Settling
  <2>3. SumOf({"completed", "exceeded"},
              [k \in {"variation", "evaluate"} |-> reservation[k].actual])
          = Costs("variation") + Costs("evaluate")
    BY Zenon DEF SumOf, Costs
  <2>. QED
    BY <2>1, <2>2, <2>3, Zenon DEF LedgerConserved, LedgerInv
<1>. QED
  BY <1>1, Invariance, PTL

(* What a completed invocation's recovery reads is there, for any number of *)
(* workers past their leases (CodingVariationActivityHandler.recover).      *)
THEOREM CompletedRecovers == Spec => []CompletedIsRecoverable
<1>1. Inv => CompletedIsRecoverable
  BY Zenon DEF Inv, FinalInv, ResultMissing, CompletedIsRecoverable
<1>. QED
  BY <1>1, Invariance, PTL

(* Nothing survives an exceeded budget, and no worker revives any of it     *)
(* (settle_exhausted_variation).                                            *)
THEOREM ExhaustionFinal == Spec => []ExhaustionIsFinal
<1>1. Inv => ExhaustionIsFinal
  BY Zenon DEF Inv, ExhaustionInv
<1>. QED
  BY <1>1, Invariance, PTL


(* A step that does not admit the candidate.                                 *)
AdmitsNothing ==
  /\ "admit" \in admissions' => "admit" \in admissions
  /\ candidate' = "admitted" => candidate = "admitted"

(* A decision's state of the candidate is never that of an admission.        *)
LEMMA DecisionsDoNotAdmit ==
  ASSUME NEW o \in {"reject", "quarantine", "review_required"}
  PROVE  DecidedState(o) # "admitted"
<1>1. CASE o = "reject"
  BY <1>1, Zenon DEF DecidedState
<1>2. CASE o = "quarantine"
  BY <1>2, Zenon DEF DecidedState
<1>3. CASE o = "review_required"
  BY <1>3, Zenon DEF DecidedState
<1>. QED
  BY <1>1, <1>2, <1>3, Zenon

(* Once a cancellation was committed, no worker admits the candidate, also   *)
(* not one that read the run before (commit_admission's compare-and-swap).   *)
THEOREM CancelledAdmitsNothing == Spec => CancellationFence
<1>1. ASSUME [Next]_vars, run \in {"cancelling", "cancelled"}
      PROVE  AdmitsNothing
  <2>1. ASSUME NEW w \in Workers, VariationStep(w)
        PROVE  AdmitsNothing
    <3>1. CASE \/ RecoverVariation(w) \/ StartSession(w) \/ RecordInvocation(w)
               \/ \E t \in Threads : PrepareThread(w, t)
               \/ SaveThread(w) \/ StartTurn(w) \/ AdoptTurn(w) \/ SaveTurn(w)
               \/ StreamTurn(w) \/ RecordAttempt(w)
      BY <3>1, Zenon DEF RecoverVariation, StartSession, RecordInvocation, PrepareThread,
         SaveThread, StartTurn, AdoptTurn, SaveTurn, StreamTurn, RecordAttempt, services,
         AdmitsNothing
    <3>2. CASE \/ FinishSession(w) \/ ReserveEvaluation(w)
               \/ EnqueueEvaluation(w) \/ CompleteInvocation(w) \/ ChargeReservation(w)
               \/ ChargedAlready(w) \/ OverBudget(w) \/ SettledAlready(w)
      BY <3>2, Zenon DEF FinishSession, ReserveEvaluation, EnqueueEvaluation,
         CompleteInvocation, ChargeReservation, ChargedAlready, OverBudget,
         SettledAlready, services, AdmitsNothing
    <3>3. CASE StageCandidate(w) \/ SettleExhausted(w)
      BY <3>3, Zenon DEF StageCandidate, SettleExhausted, CandidateAfterSettlement,
         AdmitsNothing
    <3>. QED
      BY <2>1, <3>1, <3>2, <3>3, Zenon DEF VariationStep
  <2>2. ASSUME NEW w \in Workers, EvaluationStep(w)
        PROVE  AdmitsNothing
    BY <2>2, Zenon DEF EvaluationStep, RecoverEvaluation, RepeatEvaluation, EnqueueAdmission,
       RecordEvaluation, services, AdmitsNothing
  <2>3. ASSUME NEW w \in Workers, AdmissionStep(w)
        PROVE  AdmitsNothing
    <3>1. CASE RecoverAdmission(w) \/ ReadForAdmission(w) \/ FinishRun(w)
      BY <3>1, Zenon DEF RecoverAdmission, ReadForAdmission, FinishRun, services, AdmitsNothing
    <3>2. ~CommitAdmission(w)
      BY <1>1, Zenon DEF CommitAdmission, SwapsChampion
    <3>3. ASSUME NEW o \in {"reject", "quarantine", "review_required"}, CommitDecision(w, o)
          PROVE  AdmitsNothing
      BY <3>3, DecisionsDoNotAdmit, Zenon DEF CommitDecision, AdmitsNothing
    <3>. QED
      BY <2>3, <3>1, <3>2, <3>3, Zenon DEF AdmissionStep
  <2>4. ASSUME NEW w \in Workers, SchedulerStep(w)
        PROVE  AdmitsNothing
    BY <2>4, Zenon DEF SchedulerStep, Claim, CompleteActivity, Fails, ClassifyFailure,
       MarkReconciliation, WorkerStops, services, AdmitsNothing
  <2>5. ASSUME NEW t \in Threads, ProviderStep(t)
        PROVE  AdmitsNothing
    BY <2>5, Zenon DEF ProviderStep, TurnEnds, TurnLost, services, AdmitsNothing
  <2>6. CASE OperatorStep
    BY <2>6, Zenon DEF OperatorStep, Command, SettleAgain, ResolveReconciliation, services,
       AdmitsNothing
  <2>7. CASE UNCHANGED vars
    BY <2>7, Zenon DEF vars, services, AdmitsNothing
  <2>. QED
    BY <1>1, <2>1, <2>2, <2>3, <2>4, <2>5, <2>6, <2>7, Zenon DEF Next
<1>2. [Next]_vars => [(run \in {"cancelling", "cancelled"}) => AdmitsNothing]_vars
  BY <1>1, Zenon
<1>. QED
  BY <1>2, PTL DEF Spec, CancellationFence, AdmitsNothing
-----------------------------------------------------------------------------
(* One worker at a time: one turn.                                          *)

(* One worker: the only thread that may have a turn is the one saved.       *)
TurnThread(t) == provider[t].state \in {"running", "completed", "lost"}

TurnInv ==
  /\ \A t \in Threads : TurnThread(t) => t = invocation.thread
  /\ \A w \in Workers : worker[w].pc \in {"prepare", "save_thread"} => invocation.thread = 0
  /\ \A w \in Workers : worker[w].pc \in ThreadSteps \ {"save_thread"} =>
       worker[w].thread = invocation.thread

(* A step that keeps the saved thread and starts no turn elsewhere.         *)
LEMMA TurnFrame ==
  ASSUME TurnInv, NEW w \in Workers, Moves(w), invocation'.thread = invocation.thread,
         \A t \in Threads : TurnThread(t)' => TurnThread(t) \/ t = invocation.thread,
         worker'[w].pc \in {"prepare", "save_thread"} => invocation.thread = 0,
         worker'[w].pc \in ThreadSteps \ {"save_thread"} => worker'[w].thread = invocation.thread
  PROVE  TurnInv'
<1>1. \A t \in Threads : TurnThread(t)' => t = invocation'.thread
  BY Zenon DEF TurnInv
<1>2. ASSUME NEW q \in Workers
      PROVE  /\ worker'[q].pc \in {"prepare", "save_thread"} => invocation'.thread = 0
             /\ worker'[q].pc \in ThreadSteps \ {"save_thread"} =>
                  worker'[q].thread = invocation'.thread
  <2>1. CASE q = w
    BY <2>1, Zenon
  <2>2. CASE q # w
    <3>1. worker'[q] = worker[q]
      BY <1>2, <2>2, Zenon DEF Moves
    <3>. QED
      BY <1>2, <3>1, Zenon DEF TurnInv
  <2>. QED
    BY <2>1, <2>2, Zenon
<1>. QED
  BY <1>1, <1>2, Zenon DEF TurnInv

(* A step that only leads a worker away from its thread.                    *)
LEMMA TurnLeft ==
  ASSUME TurnInv, NEW w \in Workers, Moves(w), invocation'.thread = invocation.thread,
         UNCHANGED provider, worker'[w].pc \notin ThreadSteps \cup {"prepare"}
  PROVE  TurnInv'
<1>1. \A t \in Threads : TurnThread(t)' => TurnThread(t)
  BY Zenon DEF TurnThread
<1>2. worker'[w].pc \notin {"prepare", "save_thread"} /\ worker'[w].pc \notin ThreadSteps
  BY Zenon DEF ThreadSteps
<1>. QED
  BY <1>1, <1>2, TurnFrame, Zenon

(* A step from one use of the thread to the next.                           *)
LEMMA TurnKept ==
  ASSUME TurnInv, NEW w \in Workers, Moves(w), invocation'.thread = invocation.thread,
         UNCHANGED provider, worker[w].pc \in ThreadSteps \ {"save_thread"},
         worker'[w].pc \notin {"prepare", "save_thread"}, worker'[w].thread = worker[w].thread
  PROVE  TurnInv'
<1>1. \A t \in Threads : TurnThread(t)' => TurnThread(t)
  BY Zenon DEF TurnThread
<1>2. worker'[w].thread = invocation.thread
  BY Zenon DEF TurnInv
<1>. QED
  BY <1>1, <1>2, TurnFrame, Zenon


(* The steps that use the thread: it is saved before a turn starts on it,   *)
(* so a single worker never prepares a second one.                          *)
LEMMA ThreadTurns ==
  ASSUME Inv, TurnInv, NEW w \in Workers, \A q \in Workers : q = w,
         \/ RecordInvocation(w) \/ \E t \in Threads : PrepareThread(w, t)
         \/ SaveThread(w) \/ StartTurn(w) \/ SaveTurn(w) \/ CompleteInvocation(w)
  PROVE  TurnInv'
<1>1. TypeOK /\ HandlerShape(worker[w]) /\ worker[w] \in WorkerState
  BY Zenon DEF Inv, HandlersShaped, TypeOK
<1>2. CASE RecordInvocation(w)
  <2>1. /\ Moves(w) /\ worker'[w].thread = invocation.thread
        /\ worker'[w].pc = IF invocation.thread = 0 THEN "prepare" ELSE "turn"
    BY <1>1, <1>2, RecordInvocationMoves, Zenon
  <2>2. invocation'.thread = invocation.thread
    <3>1. PICK i : i = invocation /\ i \in InvocationRow
      BY <1>1, Zenon DEF TypeOK
    <3>2. invocation' = i \/ invocation' = [i EXCEPT !.state = "started"]
      BY <1>2, <3>1, Zenon DEF RecordInvocation
    <3>3. [i EXCEPT !.state = "started"].thread = i.thread
      BY <3>1, Zenon DEF InvocationRow
    <3>. QED
      BY <3>1, <3>2, <3>3, Zenon
  <2>3. \A t \in Threads : TurnThread(t)' => TurnThread(t)
    BY <1>2, Zenon DEF RecordInvocation, TurnThread, runtime
  <2>. QED
    BY <2>1, <2>2, <2>3, TurnFrame, Zenon
<1>3. ASSUME NEW t \in Threads, PrepareThread(w, t)
      PROVE  TurnInv'
  <2>1. Moves(w) /\ worker[w].pc = "prepare" /\ worker'[w].pc = "save_thread"
    BY <1>1, <1>3, PrepareThreadMoves, Zenon
  <2>2. invocation.thread = 0
    BY <2>1, Zenon DEF TurnInv
  <2>3. invocation' = invocation
    BY <1>3, Zenon DEF PrepareThread, services
  <2>4. ASSUME NEW s \in Threads, TurnThread(s)'
        PROVE  TurnThread(s)
    <3>1. PICK x : x = [provider[t] EXCEPT !.state = "not_started"]
      BY Zenon
    <3>2. x.state = "not_started"
      BY <1>1, <3>1, Zenon DEF TypeOK, Thread
    <3>3. provider' = [provider EXCEPT ![t] = x]
      BY <1>3, <3>1, Zenon DEF PrepareThread
    <3>4. provider'[t] = x /\ (s # t => provider'[s] = provider[s])
      BY <1>1, <3>3, Zenon DEF TypeOK
    <3>. QED
      BY <2>4, <3>2, <3>4, Zenon DEF TurnThread
  <2>. QED
    BY <2>1, <2>2, <2>3, <2>4, TurnFrame, Zenon DEF ThreadSteps
<1>4. CASE SaveThread(w)
  <2>1. /\ worker[w].pc = "save_thread" /\ Goes(w, "turn")
        /\ invocation' = [state |-> "started", thread |-> worker[w].thread, operation |-> FALSE]
        /\ provider' = provider
    BY <1>4, Zenon DEF SaveThread, At, ReplaceInvocation, runtime
  <2>2. Moves(w) /\ worker'[w].pc = "turn" /\ worker'[w].thread = worker[w].thread
    BY <1>1, <2>1, GoesMoves, Zenon DEF Steps
  <2>3. invocation.thread = 0
    BY <2>1, Zenon DEF TurnInv
  <2>4. \A t \in Threads : ~TurnThread(t)
    <3>1. \A t \in Threads : t # 0
      BY DEF Threads
    <3>. QED
      BY <2>3, <3>1, Zenon DEF TurnInv
  <2>5. \A t \in Threads : ~TurnThread(t)'
    BY <2>1, <2>4, ZenonT(40) DEF TurnThread
  <2>6. invocation'.thread = worker'[w].thread
    BY <2>1, <2>2, Zenon
  <2>7. ASSUME NEW q \in Workers
        PROVE  worker'[q].pc = "turn" /\ worker'[q].thread = invocation'.thread
    <3>1. q = w
      BY Zenon
    <3>. QED
      BY <2>2, <2>6, <3>1, Zenon
  <2>. QED
    BY <2>5, <2>7, Zenon DEF TurnInv
<1>5. CASE StartTurn(w)
  <2>1. /\ Moves(w) /\ worker[w].pc = "turn" /\ worker'[w].pc = "save_turn"
        /\ worker'[w].thread = worker[w].thread
    BY <1>1, <1>5, StartTurnMoves, Zenon
  <2>2. worker[w].thread = invocation.thread
    BY <2>1, Zenon DEF TurnInv, ThreadSteps
  <2>3. invocation' = invocation
    BY <1>5, Zenon DEF StartTurn, services
  <2>4. ASSUME NEW s \in Threads, TurnThread(s)'
        PROVE  TurnThread(s) \/ s = invocation.thread
    <3>1. s # worker[w].thread => provider'[s] = provider[s]
      BY <1>1, <1>5, Zenon DEF StartTurn, TypeOK
    <3>. QED
      BY <2>2, <2>4, <3>1, Zenon DEF TurnThread
  <2>. QED
    BY <2>1, <2>2, <2>3, <2>4, TurnFrame, Zenon
<1>6. CASE SaveTurn(w)
  <2>1. /\ worker[w].pc = "save_turn" /\ Goes(w, "stream")
        /\ invocation' = [state |-> "running", thread |-> worker[w].thread, operation |-> TRUE]
        /\ provider' = provider
    BY <1>6, Zenon DEF SaveTurn, At, ReplaceInvocation, runtime
  <2>2. Moves(w) /\ worker'[w].pc = "stream" /\ worker'[w].thread = worker[w].thread
    BY <1>1, <2>1, GoesMoves, Zenon DEF Steps
  <2>3. worker[w].thread = invocation.thread /\ worker[w].pc \in ThreadSteps \ {"save_thread"}
    BY <2>1, Zenon DEF TurnInv, ThreadSteps
  <2>4. invocation'.thread = invocation.thread
    BY <2>1, <2>3, ZenonT(40)
  <2>. QED
    BY <2>1, <2>2, <2>3, <2>4, TurnKept, Zenon
<1>7. CASE CompleteInvocation(w)
  <2>1. /\ worker[w].pc \in {"envelope", "over_budget"}
        /\ Goes(w, "charge") \/ Goes(w, "settle")
        /\ invocation' = [state |-> "completed", thread |-> worker[w].thread, operation |-> TRUE]
        /\ provider' = provider
    BY <1>7, Zenon DEF CompleteInvocation, ReplaceInvocation, runtime
  <2>2. Moves(w) /\ worker'[w].pc \in {"charge", "settle"}
    BY <1>1, <2>1, GoesMoves, Zenon DEF Steps
  <2>3. worker[w].pc \in ThreadSteps \ {"save_thread"}
    BY <2>1, Zenon DEF ThreadSteps, FinalSteps
  <2>4. worker[w].thread = invocation.thread
    BY <2>3, Zenon DEF TurnInv
  <2>5. invocation'.thread = invocation.thread
    BY <2>1, <2>4, ZenonT(40)
  <2>6. worker'[w].pc \notin ThreadSteps \cup {"prepare"}
    BY <2>2, Zenon DEF ThreadSteps, FinalSteps
  <2>. QED
    BY <2>1, <2>2, <2>5, <2>6, TurnLeft, Zenon
<1>. QED
  BY <1>2, <1>3, <1>4, <1>5, <1>6, <1>7, Zenon

(* The steps between the turn and the completion keep the thread.           *)
LEMMA FinalTurns ==
  ASSUME Inv, TurnInv, NEW w \in Workers,
         \/ AdoptTurn(w) \/ StreamTurn(w) \/ RecordAttempt(w) \/ FinishSession(w)
         \/ StageCandidate(w) \/ ReserveEvaluation(w) \/ EnqueueEvaluation(w)
  PROVE  TurnInv'
<1>1. TypeOK /\ HandlerShape(worker[w]) /\ worker[w] \in WorkerState
  BY Zenon DEF Inv, HandlersShaped, TypeOK
<1>2. invocation' = invocation /\ provider' = provider
  BY Zenon DEF AdoptTurn, StreamTurn, RecordAttempt, FinishSession, StageCandidate,
     ReserveEvaluation, EnqueueEvaluation, services, runtime
<1>3. worker[w].pc \in ThreadSteps \ {"save_thread"}
  <2>1. worker[w].pc \in {"turn", "stream", "attempt", "finish", "stage", "reserve", "enqueue"}
    BY Zenon DEF AdoptTurn, StreamTurn, RecordAttempt, FinishSession, StageCandidate,
       ReserveEvaluation, EnqueueEvaluation, At
  <2>. QED
    BY <2>1, Zenon DEF ThreadSteps, FinalSteps
<1>4. /\ Moves(w) /\ worker'[w].thread = worker[w].thread
      /\ worker'[w].pc \notin {"prepare", "save_thread"}
  <2>1. CASE AdoptTurn(w)
    BY <1>1, <2>1, UsageMoves, ZenonT(40) DEF AdoptTurn, Steps, Usages
  <2>2. CASE StreamTurn(w)
    <3>1. worker[w].thread \in Threads
      <4>1. worker[w].thread # 0
        BY <1>1, <1>3, ZenonT(40) DEF HandlerShape
      <4>. QED
        <5>1. worker[w].thread \in 0..MaxThreads
          BY <1>1, Zenon DEF WorkerState
        <5>. QED
          BY <4>1, <5>1, CampaignAssumption, SMTT(30) DEF Threads
    <3>2. provider[worker[w].thread].usage \in {0} \cup Usages
      <4>1. provider[worker[w].thread] \in Thread
        BY <1>1, <3>1, Zenon DEF TypeOK
      <4>. QED
        BY <4>1, Zenon DEF Thread
    <3>3. Moves(w) /\ worker'[w].pc = "attempt" /\ worker'[w].thread = worker[w].thread
      BY <1>1, <2>2, <3>2, UsageMoves, ZenonT(40) DEF StreamTurn, Steps
    <3>. QED
      BY <3>3, ZenonT(40)
  <2>3. CASE \E p \in {"finish", "envelope", "stage", "reserve", "enqueue", "over_budget"} :
               Goes(w, p)
    BY <1>1, <2>3, GoesMoves, Zenon DEF Steps
  <2>4. CASE RecordAttempt(w) \/ StageCandidate(w) \/ EnqueueEvaluation(w)
    BY <2>3, <2>4, Zenon DEF RecordAttempt, StageCandidate, EnqueueEvaluation
  <2>5. CASE FinishSession(w)
    <3>1. Goes(w, "envelope") \/ Goes(w, "stage")
      BY <2>5, Zenon DEF FinishSession
    <3>. QED
      BY <2>3, <3>1, Zenon
  <2>6. CASE ReserveEvaluation(w)
    <3>1. Goes(w, "enqueue") \/ Goes(w, "over_budget")
      BY <2>6, Zenon DEF ReserveEvaluation
    <3>. QED
      BY <2>3, <3>1, Zenon
  <2>. QED
    BY <2>1, <2>2, <2>4, <2>5, <2>6, Zenon
<1>. QED
  BY <1>2, <1>3, <1>4, TurnKept, Zenon


(* Steps of a worker that has no use for the thread.                        *)
LEMMA OtherTurns ==
  ASSUME Inv, TurnInv, NEW w \in Workers,
         \/ RecoverVariation(w) \/ StartSession(w) \/ ChargeReservation(w) \/ ChargedAlready(w)
         \/ OverBudget(w) \/ SettleExhausted(w) \/ SettledAlready(w)
         \/ EvaluationStep(w) \/ AdmissionStep(w) \/ SchedulerStep(w)
  PROVE  TurnInv'
<1>1. TypeOK /\ worker[w] \in WorkerState
  BY Zenon DEF Inv, TypeOK
<1>2. /\ Moves(w)
      /\ worker'[w].pc \in {"idle", "recover", "execute", "invoke", "charge", "settle", "evaluate",
                            "next_stage", "decide", "commit", "finish_run", "raised", "mark",
                            "complete"}
  <2>1. CASE RecoverVariation(w) \/ RecoverEvaluation(w)
    BY <1>1, <2>1, RecoverVariationMoves, RecoverEvaluationMoves, Zenon
  <2>2. CASE RepeatEvaluation(w)
    <3>1. evaluated.usage \in {0} \cup Usages
      BY <1>1, Zenon DEF TypeOK, Usages
    <3>. QED
      BY <1>1, <2>2, <3>1, UsageMoves, Zenon DEF RepeatEvaluation, Steps
  <2>3. ASSUME NEW u \in EvaluationUsages, RecordEvaluation(w, u)
        PROVE  Moves(w) /\ worker'[w].pc \in {"next_stage", "evaluate"}
    <3>1. PICK p : p = IF evaluated.keys + 1 = EvaluatorKeys THEN "next_stage" ELSE "evaluate"
      BY Zenon
    <3>2. p \in Steps /\ p \in {"next_stage", "evaluate"} /\ u \in {0} \cup Usages
      BY <3>1, Zenon DEF Steps, Usages
    <3>3. worker' = [worker EXCEPT ![w].pc = p, ![w].usage = u]
      BY <2>3, <3>1, Zenon DEF RecordEvaluation
    <3>. QED
      BY <1>1, <3>2, <3>3, UsageMoves, Zenon
  <2>4. CASE \E p \in {"invoke", "settle", "charge", "decide", "complete", "finish_run"} :
               Goes(w, p)
    BY <1>1, <2>4, GoesMoves, Zenon DEF Steps
  <2>5. CASE StartSession(w) \/ OverBudget(w) \/ EnqueueAdmission(w)
    BY <2>4, <2>5, Zenon DEF StartSession, OverBudget, EnqueueAdmission
  <2>6. CASE RecoverAdmission(w) \/ ReadForAdmission(w)
    BY <1>1, <2>4, <2>6, ReadForAdmissionMoves, Zenon DEF RecoverAdmission
  <2>7. CASE \E p \in {"complete", "raised", "mark", "finish_run"} : Leaves(w, p)
    BY <1>1, <2>7, LeavesMoves, Zenon DEF Steps
  <2>8. CASE GoesIdle(w)
    BY <1>1, <2>8, IdleMoves, Zenon
  <2>9. CASE \/ ChargeReservation(w) \/ ChargedAlready(w) \/ SettleExhausted(w)
             \/ SettledAlready(w) \/ FinishRun(w) \/ CommitAdmission(w)
             \/ \E o \in {"reject", "quarantine", "review_required"} : CommitDecision(w, o)
    BY <2>7, <2>9, Zenon DEF ChargeReservation, ChargedAlready, SettleExhausted, SettledAlready,
       FinishRun, CommitAdmission, CommitDecision
  <2>10. CASE \/ CompleteActivity(w) \/ Fails(w) \/ ClassifyFailure(w) \/ MarkReconciliation(w)
              \/ WorkerStops(w)
    BY <2>7, <2>8, <2>10, Zenon DEF CompleteActivity, Fails, ClassifyFailure, MarkReconciliation,
       WorkerStops
  <2>11. ASSUME NEW k \in Kinds, Claim(w, k)
         PROVE  Moves(w) /\ worker'[w].pc = "recover"
    BY <1>1, <2>11, ClaimMoves, Zenon
  <2>12. CASE EvaluationStep(w)
    BY <2>1, <2>2, <2>3, <2>5, <2>12, Zenon DEF EvaluationStep
  <2>13. CASE AdmissionStep(w)
    BY <2>6, <2>9, <2>13, Zenon DEF AdmissionStep
  <2>14. CASE SchedulerStep(w)
    BY <2>10, <2>11, <2>14, Zenon DEF SchedulerStep
  <2>. QED
    BY <2>1, <2>5, <2>9, <2>12, <2>13, <2>14, Zenon
<1>3. provider' = provider
  BY ZenonT(40) DEF RecoverVariation, StartSession, ChargeReservation, ChargedAlready, OverBudget,
     SettleExhausted, SettledAlready, EvaluationStep, RecoverEvaluation, RepeatEvaluation,
     EnqueueAdmission, RecordEvaluation, AdmissionStep, RecoverAdmission, FinishRun,
     ReadForAdmission, CommitAdmission, CommitDecision, SchedulerStep, Claim, CompleteActivity,
     Fails, ClassifyFailure, MarkReconciliation, WorkerStops, runtime
<1>4. invocation'.thread = invocation.thread
  <2>1. CASE ClassifyFailure(w)
    <3>1. PICK i : i = invocation /\ i \in InvocationRow
      BY <1>1, Zenon DEF TypeOK
    <3>2. invocation' = i \/ invocation' = [i EXCEPT !.state = "reconciliation_required"]
      BY <2>1, <3>1, Zenon DEF ClassifyFailure
    <3>3. [i EXCEPT !.state = "reconciliation_required"].thread = i.thread
      BY <3>1, Zenon DEF InvocationRow
    <3>. QED
      BY <3>1, <3>2, <3>3, Zenon
  <2>2. CASE ~ClassifyFailure(w)
    <3>1. invocation' = invocation
      BY <2>2, ZenonT(40) DEF RecoverVariation, StartSession, ChargeReservation, ChargedAlready,
         OverBudget, SettleExhausted, SettledAlready, EvaluationStep, RecoverEvaluation,
         RepeatEvaluation, EnqueueAdmission, RecordEvaluation, AdmissionStep, RecoverAdmission,
         ReadForAdmission, FinishRun, CommitAdmission, CommitDecision, SchedulerStep, Claim,
         CompleteActivity, Fails, MarkReconciliation, WorkerStops, services
    <3>. QED
      BY <3>1, Zenon
  <2>. QED
    BY <2>1, <2>2, Zenon
<1>5. worker'[w].pc \notin ThreadSteps \cup {"prepare"}
  BY <1>2, Zenon DEF ThreadSteps, FinalSteps
<1>. QED
  BY <1>2, <1>3, <1>4, <1>5, TurnLeft, Zenon

(* The provider ends turns and starts none, the operators know no thread.   *)
LEMMA OutsideTurns ==
  ASSUME Inv, TurnInv,
         (\E t \in Threads : ProviderStep(t)) \/ OperatorStep \/ UNCHANGED vars
  PROVE  TurnInv'
<1>1. TypeOK
  BY Zenon DEF Inv
<1>2. worker' = worker /\ invocation' = invocation
  BY Zenon DEF ProviderStep, TurnEnds, TurnLost, OperatorStep, Command, SettleAgain,
     ResolveReconciliation, vars, services
<1>3. ASSUME NEW s \in Threads, TurnThread(s)'
      PROVE  TurnThread(s)
  <2>1. ASSUME NEW t \in Threads, ProviderStep(t)
        PROVE  TurnThread(s)
    <3>1. provider[t].state = "running"
      BY <2>1, Zenon DEF ProviderStep, TurnEnds, TurnLost
    <3>2. s # t => provider'[s] = provider[s]
      <4>1. PICK x : provider' = [provider EXCEPT ![t] = x]
        BY <2>1, Zenon DEF ProviderStep, TurnEnds, TurnLost
      <4>. QED
        BY <1>1, <4>1, Zenon DEF TypeOK
    <3>. QED
      BY <1>3, <3>1, <3>2, Zenon DEF TurnThread
  <2>2. CASE OperatorStep \/ UNCHANGED vars
    <3>1. provider' = provider
      BY <2>2, Zenon DEF OperatorStep, Command, SettleAgain, ResolveReconciliation, vars, runtime
    <3>. QED
      BY <1>3, <3>1, Zenon DEF TurnThread
  <2>. QED
    BY <2>1, <2>2, Zenon
<1>. QED
  BY <1>2, <1>3, Zenon DEF TurnInv

INSTANCE FiniteSetTheorems

(* With a single worker, stopped and restarted anywhere, the provider gets  *)
(* at most one turn for the activity (campaign.py execute).                 *)
THEOREM SingleWorkerOneTurn ==
  ASSUME \A v, w \in Workers : v = w
  PROVE  Spec => []OneTurn
<1>1. Init => TurnInv
  <2>. SUFFICES ASSUME Init
                PROVE  TurnInv
    BY Zenon
  <2>1. \A t \in Threads : ~TurnThread(t)
    BY Zenon DEF Init, TurnThread
  <2>2. \A w \in Workers : worker[w].pc = "idle"
    BY Zenon DEF Init, Idle
  <2>3. \A w \in Workers : worker[w].pc \notin ThreadSteps \cup {"prepare"}
    BY <2>2, Zenon DEF ThreadSteps, FinalSteps
  <2>. QED
    BY <2>1, <2>2, <2>3, Zenon DEF TurnInv
<1>2. Inv /\ TurnInv /\ [Next]_vars => TurnInv'
  <2>. SUFFICES ASSUME Inv, TurnInv, [Next]_vars
                PROVE  TurnInv'
    BY Zenon
  <2>1. ASSUME NEW w \in Workers, VariationStep(w)
        PROVE  TurnInv'
    BY <2>1, ThreadTurns, FinalTurns, OtherTurns, Zenon DEF VariationStep
  <2>2. ASSUME NEW w \in Workers, EvaluationStep(w) \/ AdmissionStep(w) \/ SchedulerStep(w)
        PROVE  TurnInv'
    BY <2>2, OtherTurns, Zenon
  <2>. QED
    BY <2>1, <2>2, OutsideTurns, Zenon DEF Next
<1>3. TurnInv => OneTurn
  <2>. SUFFICES ASSUME TurnInv
                PROVE  OneTurn
    BY Zenon
  <2>1. PICK S : S = {t \in Threads : provider[t].state \in {"running", "completed", "lost"}}
    BY Zenon
  <2>2. S \subseteq {invocation.thread}
    BY <2>1, Zenon DEF TurnInv, TurnThread
  <2>3. IsFiniteSet({invocation.thread}) /\ Cardinality({invocation.thread}) = 1
    BY FS_Singleton, Zenon
  <2>4. Cardinality(S) <= 1
    BY <2>2, <2>3, FS_Subset, Zenon
  <2>. QED
    BY <2>1, <2>4, Zenon DEF OneTurn
<1>. QED
  BY <1>1, <1>2, <1>3, Invariance, PTL DEF Spec
=============================================================================
