------------------------ MODULE ActivityLeasesProofs ------------------------
(***************************************************************************)
(* Proofs about ActivityLeases for all activities, workers, operators and    *)
(* bounds.  Every interleaving of the calls' reads and writes is covered:    *)
(* the history field began says which calls were torn.                       *)
(***************************************************************************)
EXTENDS ActivityLeases, TLAPS

Current(s) == s.sequence = run.event_sequence

\* What a worker at s knows: what its check of the activity found is still so as long as no
\* event was appended since.
WorkerFact(s) ==
  /\ s.pc \in {"complete", "mark"} => s.sequence <= run.event_sequence
  /\ s.pc \in {"completing", "marking", "complete", "mark"} => s.began <= run.event_sequence
  /\ \/ s.pc = "completing" /\ s.began = run.event_sequence
     \/ s.pc = "complete" /\ s.began = s.sequence /\ Current(s)
     => /\ activities[s.activity].state = "running"
        /\ activities[s.activity].lease_epoch = s.epoch
  /\ \/ s.pc = "marking" /\ s.began = run.event_sequence
     \/ s.pc = "mark" /\ s.began = s.sequence /\ Current(s)
     => activities[s.activity].state \in {"running", "queued"}

\* The steps of an operator that has read a case, and that has read its activity.
WithCase == {"case", "activity", "resolve"}
WithRead == {"activity", "resolve"}

\* What an operator at s knows: a case it has read still exists, open or resolved.
OperatorFact(s) ==
  /\ s.pc \in {"checking", "settling", "resolve"} => s.sequence <= run.event_sequence
  /\ s.pc = "settling" /\ Current(s) => AtSafeBoundary
  /\ s.pc \in WithCase =>
       /\ s.case.state = "open"
       /\ \E c \in cases : c.id = s.case.id /\ c.activity = s.case.activity

CallsKnow ==
  /\ \A w \in Workers : WorkerFact(worker[w])
  /\ \A o \in Operators : OperatorFact(operator[o])

\* Case ids are handed out once: the next one is new.
CaseIds ==
  /\ IsFiniteSet(cases)
  /\ \A c \in cases : c.id <= Cardinality(cases)
  /\ \A c, d \in cases : c.id = d.id => c = d

\* No operator is about to resolve case c without freeing its activity.
Watched(c) ==
  \A o \in Operators :
    operator[o].pc \in WithRead /\ operator[o].case = c =>
      operator[o].read = "reconciliation_required"

\* A waiting activity has an open case whose resolution will free it.
ReconcilingIsWatched ==
  \A a \in Activities : activities[a].state = "reconciliation_required" =>
    \E c \in cases : c.activity = a /\ c.state = "open" /\ Watched(c)

\* The inductive invariant.
Inv ==
  /\ LeaseConstants
  /\ TypeOK /\ CallsKnow /\ CaseIds /\ ReconcilingIsWatched /\ BlockedHasCase
  /\ EpochsExclusive

-----------------------------------------------------------------------------
\* The fields a worker holds at each step.
LEMMA WorkerFields ==
  ASSUME NEW s \in WorkerState
  PROVE  /\ s.pc \in Working \cup {"idle", "selected"}
         /\ s.pc = "idle" => s = Idle
         /\ s.pc # "idle" => s.activity \in Activities
         /\ s.pc \in Working => s.epoch \in Nat
         /\ s.pc \in {"result", "completing", "complete"} => s.digest \in Digests
         /\ s.pc \in {"complete", "mark"} => s.sequence \in Nat
         /\ s.pc \in {"completing", "marking", "complete", "mark"} => s.began \in Nat
         /\ s.pc = "mark" => s.state \in RunState
<1>1. CASE s = Idle
  BY <1>1, Zenon DEF Idle, Working
<1>2. CASE s \in [pc : {"selected"}, activity : Activities]
  BY <1>2, Zenon DEF Working
<1>3. CASE s \in [pc : {"executing", "uncertain", "beating"}, activity : Activities,
                  epoch : Nat]
  BY <1>3, Zenon DEF Working
<1>4. CASE s \in [pc : {"result"}, activity : Activities, epoch : Nat, digest : Digests]
  BY <1>4, Zenon DEF Working
<1>5. CASE s \in [pc : {"completing"}, activity : Activities, epoch : Nat,
                  digest : Digests, began : Nat]
  BY <1>5, Zenon DEF Working
<1>6. CASE s \in [pc : {"complete"}, activity : Activities, epoch : Nat,
                  digest : Digests, began : Nat, sequence : Nat]
  BY <1>6, Zenon DEF Working
<1>7. CASE s \in [pc : {"marking"}, activity : Activities, epoch : Nat, began : Nat]
  BY <1>7, Zenon DEF Working
<1>8. CASE s \in [pc : {"mark"}, activity : Activities, epoch : Nat, began : Nat,
                  state : RunState, sequence : Nat]
  BY <1>8, Zenon DEF Working
<1> QED
  BY <1>1, <1>2, <1>3, <1>4, <1>5, <1>6, <1>7, <1>8, Zenon DEF WorkerState

\* The fields an operator's call holds at each step.
LEMMA OperatorFields ==
  ASSUME NEW s \in OperatorState
  PROVE  /\ s.pc \in {"idle", "settle", "checking", "settling"} \cup WithCase
         /\ s.pc = "idle" => s = Idle
         /\ s.pc \in {"checking", "settling"} => s.state \in {"pausing", "cancelling"}
         /\ s.pc \in {"checking", "settling", "resolve"} => s.sequence \in Nat
         /\ s.pc \in WithCase => s.case \in CaseRow /\ s.resolution \in Resolutions
         /\ s.pc \in WithRead => s.read \in ActivityState
         /\ s.pc = "resolve" => s.state \in RunState
<1>1. CASE s = Idle
  BY <1>1, Zenon DEF Idle, WithCase, WithRead
<1>2. CASE s \in [pc : {"settle"}]
  BY <1>2, Zenon DEF WithCase, WithRead
<1>3. CASE s \in [pc : {"checking", "settling"}, state : {"pausing", "cancelling"},
                  sequence : Nat]
  BY <1>3, Zenon DEF WithCase, WithRead
<1>4. CASE s \in [pc : {"case"}, case : CaseRow, resolution : Resolutions]
  BY <1>4, Zenon DEF WithCase, WithRead
<1>5. CASE s \in [pc : {"activity"}, case : CaseRow, resolution : Resolutions,
                  read : ActivityState]
  BY <1>5, Zenon DEF WithCase, WithRead
<1>6. CASE s \in [pc : {"resolve"}, case : CaseRow, resolution : Resolutions,
                  read : ActivityState, state : RunState, sequence : Nat]
  BY <1>6, Zenon DEF WithCase, WithRead
<1> QED
  BY <1>1, <1>2, <1>3, <1>4, <1>5, <1>6, Zenon DEF OperatorState

-----------------------------------------------------------------------------
(* Steps that change nothing durable: a worker's or an operator's call goes on. *)

\* A worker goes on to s, which knows what is the case and has no lease but the worker's.
LEMMA WorkerGoesOn ==
  ASSUME Inv, NEW w \in Workers, NEW s \in WorkerState, WorkerFact(s),
         s.pc \in Working => /\ worker[w].pc \in Working
                             /\ s.activity = worker[w].activity
                             /\ s.epoch = worker[w].epoch,
         WorkerGoes(w, s), UNCHANGED <<run, activities, cases, operator>>
  PROVE  Inv'
<1>1. TypeOK'
  BY Zenon DEF Inv, TypeOK, WorkerGoes
<1>2. \A v \in Workers : worker'[v] = IF v = w THEN s ELSE worker[v]
  BY Zenon DEF Inv, TypeOK, WorkerGoes
<1>3. CallsKnow'
  <2>1. ASSUME NEW v \in Workers PROVE WorkerFact(worker[v])'
    <3>1. WorkerFact(IF v = w THEN s ELSE worker[v])
      BY Zenon DEF Inv, CallsKnow
    <3> QED
      BY <1>2, <3>1, Zenon DEF WorkerFact, Current
  <2>2. ASSUME NEW o \in Operators PROVE OperatorFact(operator[o])'
    BY Zenon DEF Inv, CallsKnow, OperatorFact, Current, AtSafeBoundary
  <2> QED
    BY <2>1, <2>2, Zenon DEF CallsKnow
<1>4. CaseIds' /\ ReconcilingIsWatched' /\ BlockedHasCase'
  BY DEF Inv, CaseIds, ReconcilingIsWatched, Watched, BlockedHasCase
<1>5. EpochsExclusive'
  BY <1>2 DEF Inv, EpochsExclusive
<1> QED
  BY <1>1, <1>3, <1>4, <1>5, Zenon DEF Inv

\* An operator goes on to s, which knows what is the case; a state it has read of an
\* activity is the present one, or was read before.
LEMMA OperatorGoesOn ==
  ASSUME Inv, NEW o \in Operators, NEW s \in OperatorState, OperatorFact(s),
         s.pc \in WithRead =>
           \/ s.read = activities[s.case.activity].state
           \/ /\ operator[o].pc \in WithRead
              /\ operator[o].case = s.case
              /\ operator[o].read = s.read,
         OperatorGoes(o, s), UNCHANGED <<run, activities, cases, worker>>
  PROVE  Inv'
<1>1. TypeOK'
  BY Zenon DEF Inv, TypeOK, OperatorGoes
<1>2. \A p \in Operators : operator'[p] = IF p = o THEN s ELSE operator[p]
  BY Zenon DEF Inv, TypeOK, OperatorGoes
<1>3. CallsKnow'
  <2>1. ASSUME NEW p \in Operators PROVE OperatorFact(operator[p])'
    <3>1. OperatorFact(IF p = o THEN s ELSE operator[p])
      BY Zenon DEF Inv, CallsKnow
    <3> QED
      BY <1>2, <3>1, Zenon DEF OperatorFact, Current, AtSafeBoundary
  <2>2. ASSUME NEW w \in Workers PROVE WorkerFact(worker[w])'
    BY Zenon DEF Inv, CallsKnow, WorkerFact, Current
  <2> QED
    BY <2>1, <2>2, Zenon DEF CallsKnow
<1>4. ReconcilingIsWatched'
  <2> SUFFICES ASSUME NEW a \in Activities,
                      activities[a].state = "reconciliation_required"
               PROVE  \E c \in cases : c.activity = a /\ c.state = "open" /\ Watched(c)'
    BY Zenon DEF ReconcilingIsWatched
  <2>1. PICK c \in cases : c.activity = a /\ c.state = "open" /\ Watched(c)
    BY Zenon DEF Inv, ReconcilingIsWatched
  <2>2. Watched(c)'
    BY <1>2, <2>1, Zenon DEF Watched
  <2> QED
    BY <2>1, <2>2, Zenon
<1>5. CaseIds' /\ BlockedHasCase' /\ EpochsExclusive'
  BY Zenon DEF Inv, CaseIds, BlockedHasCase, EpochsExclusive
<1> QED
  BY <1>1, <1>3, <1>4, <1>5, Zenon DEF Inv

\* What Inv says of a worker, for the steps below.
LEMMA WorkerHas ==
  ASSUME Inv, NEW w \in Workers
  PROVE  /\ worker[w] \in WorkerState /\ WorkerFact(worker[w])
         /\ run.event_sequence \in Nat /\ run.state \in RunState
  BY Zenon DEF Inv, TypeOK, CallsKnow

\* What Inv says of an operator, for the steps below.
LEMMA OperatorHas ==
  ASSUME Inv, NEW o \in Operators
  PROVE  /\ operator[o] \in OperatorState /\ OperatorFact(operator[o])
         /\ run.event_sequence \in Nat /\ run.state \in RunState
  BY Zenon DEF Inv, TypeOK, CallsKnow

\* An idle call knows nothing and holds nothing.
LEMMA IdleIsState ==
  Idle \in WorkerState /\ Idle \in OperatorState /\ WorkerFact(Idle) /\ OperatorFact(Idle)
  /\ Idle.pc = "idle" /\ Idle.pc \notin Working \cup WithRead \cup WithCase
  BY Zenon DEF Idle, WorkerState, OperatorState, WorkerFact, OperatorFact, WithCase, WithRead,
     Working

\* The steps of a worker's loop that write nothing.
LEMMA WorkerReads ==
  ASSUME Inv, NEW w \in Workers,
         \/ \E a \in Activities : SelectActivity(w, a)
         \/ \E d \in Digests : ReturnResult(w, d)
         \/ BecomeUncertain(w) \/ ReadToComplete(w) \/ ReadRunToComplete(w)
         \/ ReadToMark(w) \/ ReadRunToMark(w) \/ WorkerRefused(w) \/ ReadToBeat(w)
         \/ WorkerStops(w)
  PROVE  Inv'
<1> DEFINE old == worker[w]
<1>1. /\ old \in WorkerState /\ WorkerFact(old)
      /\ run.event_sequence \in Nat /\ run.state \in RunState
  BY WorkerHas, Zenon
<1> USE <1>1
<1>2. /\ old.pc # "idle" => old.activity \in Activities
      /\ old.pc \in Working => old.epoch \in Nat
      /\ old.pc \in {"result", "completing", "complete"} => old.digest \in Digests
      /\ old.pc \in {"completing", "marking"} => old.began \in Nat
  BY WorkerFields, Zenon
<1>3. CASE WorkerGoes(w, Idle) /\ UNCHANGED <<run, activities, cases, operator>>
  BY <1>3, IdleIsState, WorkerGoesOn, Zenon
<1>4. ASSUME NEW a \in Activities, SelectActivity(w, a) PROVE Inv'
  <2> DEFINE s == [pc |-> "selected", activity |-> a]
  <2>1. s \in WorkerState /\ WorkerFact(s) /\ s.pc \notin Working
    BY <1>4 DEF SelectActivity, WorkerState, WorkerFact, Working
  <2>2. WorkerGoes(w, s) /\ UNCHANGED <<run, activities, cases, operator>>
    BY <1>4, Zenon DEF SelectActivity
  <2> HIDE DEF s
  <2> QED
    BY <2>1, <2>2, WorkerGoesOn, Zenon
<1>5. ASSUME NEW d \in Digests, ReturnResult(w, d) PROVE Inv'
  <2> DEFINE s == [pc |-> "result", activity |-> old.activity, epoch |-> old.epoch,
                   digest |-> d]
  <2>1. old.pc = "executing" /\ old.pc \in Working
    BY <1>5, Zenon DEF ReturnResult, Working
  <2>2. /\ s \in WorkerState /\ WorkerFact(s)
        /\ s.activity = old.activity /\ s.epoch = old.epoch
    BY <1>2, <2>1, Zenon DEF WorkerState, WorkerFact
  <2>3. WorkerGoes(w, s) /\ UNCHANGED <<run, activities, cases, operator>>
    BY <1>5, Zenon DEF ReturnResult
  <2> HIDE DEF s
  <2> QED
    BY <2>1, <2>2, <2>3, WorkerGoesOn, Zenon
<1>6. CASE BecomeUncertain(w)
  <2> DEFINE s == [pc |-> "uncertain", activity |-> old.activity, epoch |-> old.epoch]
  <2>1. old.pc = "executing" /\ old.pc \in Working
    BY <1>6, Zenon DEF BecomeUncertain, Working
  <2>2. /\ s \in WorkerState /\ WorkerFact(s)
        /\ s.activity = old.activity /\ s.epoch = old.epoch
    BY <1>2, <2>1, Zenon DEF WorkerState, WorkerFact
  <2>3. WorkerGoes(w, s) /\ UNCHANGED <<run, activities, cases, operator>>
    BY <1>6, Zenon DEF BecomeUncertain
  <2> HIDE DEF s
  <2> QED
    BY <2>1, <2>2, <2>3, WorkerGoesOn, Zenon
<1>7. CASE ReadToComplete(w)
  <2>1. old.pc = "result" /\ old.pc \in Working
    BY <1>7, Zenon DEF ReadToComplete, Working
  <2>2. UNCHANGED <<run, activities, cases, operator>>
    BY <1>7, Zenon DEF ReadToComplete
  <2>3. CASE HoldsLease(w, activities[old.activity])
    <3> DEFINE s == [pc |-> "completing", activity |-> old.activity, epoch |-> old.epoch,
                     digest |-> old.digest, began |-> run.event_sequence]
    <3>1. /\ s \in WorkerState /\ WorkerFact(s)
          /\ s.activity = old.activity /\ s.epoch = old.epoch
      BY <1>2, <2>1, <2>3, SMTT(30) DEF WorkerState, WorkerFact, HoldsLease
    <3>2. WorkerGoes(w, s)
      BY <1>7, <2>3, Zenon DEF ReadToComplete
    <3> HIDE DEF s
    <3> QED
      BY <2>1, <2>2, <3>1, <3>2, WorkerGoesOn, Zenon
  <2>4. CASE ~HoldsLease(w, activities[old.activity])
    BY <1>3, <1>7, <2>2, <2>4, Zenon DEF ReadToComplete
  <2> QED
    BY <2>3, <2>4, Zenon
<1>8. CASE ReadRunToComplete(w)
  <2> DEFINE s == [pc |-> "complete", activity |-> old.activity, epoch |-> old.epoch,
                   digest |-> old.digest, began |-> old.began,
                   sequence |-> run.event_sequence]
  <2>1. old.pc = "completing" /\ old.pc \in Working
    BY <1>8, Zenon DEF ReadRunToComplete, Working
  <2>2. /\ s \in WorkerState /\ WorkerFact(s)
        /\ s.activity = old.activity /\ s.epoch = old.epoch
    BY <1>2, <2>1, SMTT(30) DEF WorkerState, WorkerFact
  <2>3. WorkerGoes(w, s) /\ UNCHANGED <<run, activities, cases, operator>>
    BY <1>8, Zenon DEF ReadRunToComplete
  <2> HIDE DEF s
  <2> QED
    BY <2>1, <2>2, <2>3, WorkerGoesOn, Zenon
<1>9. CASE ReadToMark(w)
  <2>1. old.pc = "uncertain" /\ old.pc \in Working
    BY <1>9, Zenon DEF ReadToMark, Working
  <2>2. UNCHANGED <<run, activities, cases, operator>>
    BY <1>9, Zenon DEF ReadToMark
  <2> DEFINE refused == \/ activities[old.activity].state \notin {"running", "queued"}
                        \/ activities[old.activity].lease_epoch # old.epoch
  <2>3. CASE ~refused
    <3> DEFINE s == [pc |-> "marking", activity |-> old.activity, epoch |-> old.epoch,
                     began |-> run.event_sequence]
    <3>1. /\ s \in WorkerState /\ WorkerFact(s)
          /\ s.activity = old.activity /\ s.epoch = old.epoch
      BY <1>2, <2>1, <2>3, SMTT(30) DEF WorkerState, WorkerFact
    <3>2. WorkerGoes(w, s)
      BY <1>9, <2>3, Zenon DEF ReadToMark
    <3> HIDE DEF s
    <3> QED
      BY <2>1, <2>2, <3>1, <3>2, WorkerGoesOn, Zenon
  <2>4. CASE refused
    BY <1>3, <1>9, <2>2, <2>4, Zenon DEF ReadToMark
  <2> QED
    BY <2>3, <2>4, Zenon
<1>10. CASE ReadRunToMark(w)
  <2> DEFINE s == [pc |-> "mark", activity |-> old.activity, epoch |-> old.epoch,
                   began |-> old.began, state |-> run.state,
                   sequence |-> run.event_sequence]
  <2>1. old.pc = "marking" /\ old.pc \in Working
    BY <1>10, Zenon DEF ReadRunToMark, Working
  <2>2. /\ s \in WorkerState /\ WorkerFact(s)
        /\ s.activity = old.activity /\ s.epoch = old.epoch
    BY <1>2, <2>1, SMTT(30) DEF WorkerState, WorkerFact
  <2>3. WorkerGoes(w, s) /\ UNCHANGED <<run, activities, cases, operator>>
    BY <1>10, Zenon DEF ReadRunToMark
  <2> HIDE DEF s
  <2> QED
    BY <2>1, <2>2, <2>3, WorkerGoesOn, Zenon
<1>11. CASE ReadToBeat(w)
  <2> DEFINE s == [old EXCEPT !.pc = "beating"]
  <2>1. old.pc = "executing" /\ old.pc \in Working
    BY <1>11, Zenon DEF ReadToBeat, Working
  <2>2. old \in [pc : {"executing", "uncertain", "beating"},
                 activity : Activities, epoch : Nat]
    BY <2>1 DEF WorkerState, Idle
  <2>3. /\ s \in WorkerState /\ WorkerFact(s)
        /\ s.activity = old.activity /\ s.epoch = old.epoch
    BY <2>2, Zenon DEF WorkerState, WorkerFact
  <2>4. WorkerGoes(w, s) /\ UNCHANGED <<run, activities, cases, operator>>
    BY <1>11, Zenon DEF ReadToBeat
  <2> HIDE DEF s
  <2> QED
    BY <2>1, <2>3, <2>4, WorkerGoesOn, Zenon
<1>12. CASE WorkerRefused(w) \/ WorkerStops(w)
  BY <1>3, <1>12, Zenon DEF WorkerRefused, WorkerStops
<1> QED
  BY <1>4, <1>5, <1>6, <1>7, <1>8, <1>9, <1>10, <1>11, <1>12, Zenon

\* The steps of an operator's call that write nothing.
LEMMA OperatorReads ==
  ASSUME Inv, NEW o \in Operators,
         \/ SettleAgain(o) \/ ReadControl(o) \/ CheckBoundary(o)
         \/ \E c \in cases, r \in Resolutions : ReadCase(o, c, r)
         \/ ReadCaseActivity(o) \/ ReadCaseRun(o) \/ OperatorRefused(o)
         \/ OperatorStops(o)
  PROVE  Inv'
<1> DEFINE old == operator[o]
<1>1. /\ old \in OperatorState /\ OperatorFact(old)
      /\ run.event_sequence \in Nat /\ run.state \in RunState
  BY OperatorHas, Zenon
<1> USE <1>1
<1>2. /\ old.pc \in {"checking", "settling"} => old.state \in {"pausing", "cancelling"}
      /\ old.pc \in {"checking", "settling", "resolve"} => old.sequence \in Nat
      /\ old.pc \in WithCase => old.case \in CaseRow /\ old.resolution \in Resolutions
      /\ old.pc \in WithRead => old.read \in ActivityState
  BY OperatorFields, Zenon
<1>3. CASE OperatorGoes(o, Idle) /\ UNCHANGED <<run, activities, cases, worker>>
  BY <1>3, IdleIsState, OperatorGoesOn, Zenon
<1>4. CASE SettleAgain(o)
  <2> DEFINE s == [pc |-> "settle"]
  <2>1. s \in OperatorState /\ OperatorFact(s) /\ s.pc \notin WithRead
    BY Zenon DEF OperatorState, OperatorFact, WithCase, WithRead
  <2>2. OperatorGoes(o, s) /\ UNCHANGED <<run, activities, cases, worker>>
    BY <1>4, Zenon DEF SettleAgain
  <2> HIDE DEF s
  <2> QED
    BY <2>1, <2>2, OperatorGoesOn, Zenon
<1>5. CASE ReadControl(o)
  <2>1. UNCHANGED <<run, activities, cases, worker>>
    BY <1>5, Zenon DEF ReadControl
  <2>2. CASE run.state \in {"pausing", "cancelling"}
    <3> DEFINE s == [pc |-> "checking", state |-> run.state,
                     sequence |-> run.event_sequence]
    <3>1. s \in OperatorState /\ OperatorFact(s) /\ s.pc \notin WithRead
      BY <2>2 DEF OperatorState, OperatorFact, WithCase, WithRead
    <3>2. OperatorGoes(o, s)
      BY <1>5, <2>2, Zenon DEF ReadControl
    <3> HIDE DEF s
    <3> QED
      BY <2>1, <3>1, <3>2, OperatorGoesOn, Zenon
  <2>3. CASE run.state \notin {"pausing", "cancelling"}
    BY <1>3, <1>5, <2>1, <2>3, Zenon DEF ReadControl
  <2> QED
    BY <2>2, <2>3, Zenon
<1>6. CASE CheckBoundary(o)
  <2>1. UNCHANGED <<run, activities, cases, worker>> /\ old.pc = "checking"
    BY <1>6, Zenon DEF CheckBoundary
  <2>2. CASE AtSafeBoundary
    <3> DEFINE s == [old EXCEPT !.pc = "settling"]
    <3>1. old \in [pc : {"checking", "settling"}, state : {"pausing", "cancelling"},
                   sequence : Nat]
      BY <2>1 DEF OperatorState, Idle
    <3>2. s.sequence = old.sequence /\ s.pc = "settling" /\ s \in OperatorState
      BY <3>1, Zenon DEF OperatorState
    <3>3. OperatorFact(s) /\ s.pc \notin WithRead
      BY <2>1, <2>2, <3>2, Zenon DEF OperatorFact, WithCase, WithRead
    <3>4. OperatorGoes(o, s)
      BY <1>6, <2>2, Zenon DEF CheckBoundary
    <3> HIDE DEF s
    <3> QED
      BY <2>1, <3>2, <3>3, <3>4, OperatorGoesOn, Zenon
  <2>3. CASE ~AtSafeBoundary
    BY <1>3, <1>6, <2>1, <2>3, Zenon DEF CheckBoundary
  <2> QED
    BY <2>2, <2>3, Zenon
<1>7. ASSUME NEW c \in cases, NEW r \in Resolutions, ReadCase(o, c, r) PROVE Inv'
  <2>1. UNCHANGED <<run, activities, cases, worker>> /\ c.state = "open"
    BY <1>7, Zenon DEF ReadCase, CaseOpen
  <2>2. c \in CaseRow /\ activities[c.activity].state \in ActivityState
    BY Zenon DEF Inv, TypeOK, CaseRow, ActivityRow
  <2> DEFINE s == [pc |-> "case", case |-> c, resolution |-> r]
  <2>3. s \in OperatorState
    BY <2>2, Zenon DEF OperatorState
  <2>4. s.pc = "case" /\ s.case = c
    BY Zenon
  <2>5. OperatorGoes(o, s)
    BY <1>7, Zenon DEF ReadCase
  <2> HIDE DEF s
  <2>6. OperatorFact(s) /\ s.pc \notin WithRead
    BY <2>1, <2>4, Zenon DEF OperatorFact, WithCase, WithRead
  <2> QED
    BY <2>1, <2>3, <2>5, <2>6, OperatorGoesOn, Zenon
<1>8. CASE ReadCaseActivity(o)
  <2> DEFINE s == [pc |-> "activity", case |-> old.case, resolution |-> old.resolution,
                   read |-> activities[old.case.activity].state]
  <2>1. old.pc = "case" /\ old.pc \in WithCase
    BY <1>8, Zenon DEF ReadCaseActivity, WithCase
  <2>2. activities[old.case.activity].state \in ActivityState
    BY <1>2, <2>1, Zenon DEF Inv, TypeOK, CaseRow, ActivityRow
  <2>3. s \in OperatorState
    BY <1>2, <2>1, <2>2, Zenon DEF OperatorState
  <2>4. /\ s.pc = "activity" /\ s.case = old.case
        /\ s.read = activities[s.case.activity].state
    BY Zenon
  <2>5. OperatorGoes(o, s) /\ UNCHANGED <<run, activities, cases, worker>>
    BY <1>8, Zenon DEF ReadCaseActivity
  <2> HIDE DEF s
  <2>6. OperatorFact(s)
    BY <2>1, <2>4, Zenon DEF OperatorFact, WithCase
  <2> QED
    BY <2>3, <2>4, <2>5, <2>6, OperatorGoesOn, Zenon
<1>9. CASE ReadCaseRun(o)
  <2> DEFINE s == [pc |-> "resolve", case |-> old.case, resolution |-> old.resolution,
                   read |-> old.read, state |-> run.state,
                   sequence |-> run.event_sequence]
  <2>1. old.pc = "activity" /\ old.pc \in WithCase /\ old.pc \in WithRead
    BY <1>9, Zenon DEF ReadCaseRun, WithCase, WithRead
  <2>2. s \in OperatorState
    BY <1>2, <2>1, Zenon DEF OperatorState
  <2>3. /\ s.pc = "resolve" /\ s.case = old.case /\ s.read = old.read
        /\ s.sequence = run.event_sequence
    BY Zenon
  <2>4. OperatorGoes(o, s) /\ UNCHANGED <<run, activities, cases, worker>>
    BY <1>9, Zenon DEF ReadCaseRun
  <2> HIDE DEF s
  <2>5. OperatorFact(s)
    BY <2>1, <2>3, SMTT(30) DEF OperatorFact, WithCase
  <2> QED
    BY <2>1, <2>2, <2>3, <2>4, <2>5, OperatorGoesOn, Zenon
<1>10. CASE OperatorRefused(o) \/ OperatorStops(o)
  BY <1>3, <1>10, ZenonT(40) DEF OperatorRefused, OperatorStops
<1> QED
  BY <1>4, <1>5, <1>6, <1>7, <1>8, <1>9, <1>10, Zenon

-----------------------------------------------------------------------------
(* Steps that write.  Most append an event, after which what was read is old. *)

NewEvent == run'.event_sequence = run.event_sequence + 1

\* Once another event is appended, a call that read the run before it has an old number,
\* and keeps only the case it has read (the unique event numbers of a run).
LEMMA EventAgesCalls ==
  ASSUME Inv, NewEvent,
         \A c \in cases : \E d \in cases' : d.id = c.id /\ d.activity = c.activity,
         \A v \in Workers : worker'[v] = worker[v] \/ worker'[v].pc \in {"idle", "executing"},
         \A o \in Operators : operator'[o] = operator[o] \/ operator'[o].pc \in {"idle", "settle"}
  PROVE  CallsKnow'
<1>1. ASSUME NEW v \in Workers PROVE WorkerFact(worker[v])'
  <2>1. CASE worker'[v].pc \in {"idle", "executing"}
    BY <2>1, Zenon DEF WorkerFact
  <2>2. CASE worker'[v] = worker[v]
    <3>1. /\ worker[v].pc \in {"complete", "mark"} =>
               worker[v].sequence \in Nat /\ worker[v].sequence <= run.event_sequence
          /\ worker[v].pc \in {"completing", "marking", "complete", "mark"} =>
               worker[v].began \in Nat /\ worker[v].began <= run.event_sequence
          /\ run.event_sequence \in Nat
      BY WorkerHas, WorkerFields, Zenon DEF WorkerFact
    <3> QED
      BY <2>2, <3>1 DEF WorkerFact, Current, NewEvent
  <2> QED
    BY <2>1, <2>2, Zenon
<1>2. ASSUME NEW o \in Operators PROVE OperatorFact(operator[o])'
  <2>1. CASE operator'[o].pc \in {"idle", "settle"}
    BY <2>1, Zenon DEF OperatorFact, WithCase
  <2>2. CASE operator'[o] = operator[o]
    <3>1. /\ operator[o].pc \in {"checking", "settling", "resolve"} =>
               operator[o].sequence \in Nat /\ operator[o].sequence <= run.event_sequence
          /\ run.event_sequence \in Nat
      BY OperatorHas, OperatorFields, Zenon DEF OperatorFact
    <3>2. operator[o].pc \in WithCase =>
            /\ operator[o].case.state = "open"
            /\ \E d \in cases' : /\ d.id = operator[o].case.id
                                 /\ d.activity = operator[o].case.activity
      BY OperatorHas DEF OperatorFact
    <3> QED
      BY <2>2, <3>1, <3>2 DEF OperatorFact, Current, NewEvent
  <2> QED
    BY <2>1, <2>2, Zenon
<1> QED
  BY <1>1, <1>2, Zenon DEF CallsKnow

\* Nobody leaves a lease or takes one.
LEMMA EpochsStay ==
  ASSUME Inv,
         \A v \in Workers :
           \/ worker'[v].pc \notin Working
           \/ /\ worker[v].pc \in Working
              /\ worker'[v].activity = worker[v].activity
              /\ worker'[v].epoch = worker[v].epoch,
         \A a \in Activities : activities'[a].lease_epoch = activities[a].lease_epoch
  PROVE  EpochsExclusive'
<1>1. ASSUME NEW v \in Workers, worker[v].pc \in Working
      PROVE  worker[v].activity \in Activities
  BY <1>1, WorkerHas, WorkerFields, Zenon DEF Working
<1> QED
  BY <1>1 DEF Inv, EpochsExclusive

\* No case is opened or resolved, and no activity begins to wait.
LEMMA CasesStay ==
  ASSUME Inv, UNCHANGED cases,
         \A o \in Operators : operator'[o] = operator[o] \/ operator'[o].pc \notin WithRead,
         \A a \in Activities : activities'[a].state = "reconciliation_required" =>
                                activities[a].state = "reconciliation_required"
  PROVE  CaseIds' /\ ReconcilingIsWatched'
<1>1. CaseIds'
  BY Zenon DEF Inv, CaseIds
<1>2. ReconcilingIsWatched'
  BY DEF Inv, ReconcilingIsWatched, Watched
<1> QED
  BY <1>1, <1>2, Zenon

\* enqueue.
LEMMA EnqueueStep ==
  ASSUME Inv, NEW a \in Activities, Enqueue(a)
  PROVE  Inv'
<1>1. /\ run' = [state |-> run.state, event_sequence |-> run.event_sequence + 1]
      /\ run.event_sequence \in Nat /\ run.state \in RunState
      /\ activities[a].state = "none" /\ activities[a] \in ActivityRow
      /\ activities' = [activities EXCEPT ![a] = [activities[a] EXCEPT !.state = "queued"]]
      /\ UNCHANGED <<cases, worker, operator>>
  BY Zenon DEF Enqueue, AppendEvent, SetActivity, Inv, TypeOK
<1>2. \A b \in Activities :
        /\ activities'[b].lease_epoch = activities[b].lease_epoch
        /\ activities'[b].state = IF b = a THEN "queued" ELSE activities[b].state
  BY <1>1, Zenon DEF Inv, TypeOK, ActivityRow
<1>3. TypeOK'
  BY <1>1 DEF Inv, TypeOK, ActivityRow, ActivityState
<1>4. CallsKnow'
  BY <1>1, EventAgesCalls, Zenon DEF NewEvent
<1>5. EpochsExclusive'
  BY <1>1, <1>2, EpochsStay, Zenon
<1>6. CaseIds' /\ ReconcilingIsWatched'
  BY <1>1, <1>2, CasesStay
<1>7. BlockedHasCase'
  BY <1>1, Zenon DEF Inv, BlockedHasCase
<1> QED
  BY <1>3, <1>4, <1>5, <1>6, <1>7, Zenon DEF Inv

\* claim_next: the new epoch is above every epoch handed out.
LEMMA ClaimStep ==
  ASSUME Inv, NEW w \in Workers, ClaimActivity(w)
  PROVE  Inv'
<1> DEFINE a == worker[w].activity
           e == activities[a].lease_epoch + 1
<1>1. a \in Activities /\ worker[w].pc = "selected"
  BY WorkerHas, WorkerFields, Zenon DEF ClaimActivity
<1>2. /\ run' = [state |-> run.state, event_sequence |-> run.event_sequence + 1]
      /\ run.event_sequence \in Nat /\ run.state \in RunState
      /\ activities[a] \in ActivityRow
      /\ activities[a].state \in {"queued", "running"}
      /\ activities' = [activities EXCEPT ![a] =
           [activities[a] EXCEPT !.state = "running", !.lease_epoch = e,
                                 !.lease_owner = w, !.live = TRUE]]
      /\ worker' = [worker EXCEPT ![w] =
           [pc |-> "executing", activity |-> a, epoch |-> e]]
      /\ UNCHANGED <<cases, operator>>
  BY <1>1, Zenon DEF ClaimActivity, Eligible, AppendEvent, SetActivity, WorkerGoes, NextEpoch, Inv,
     TypeOK
<1>3. /\ e \in Nat /\ activities[a].lease_epoch \in Nat
      /\ worker'[w] = [pc |-> "executing", activity |-> a, epoch |-> e]
      /\ \A v \in Workers : v # w => worker'[v] = worker[v]
      /\ \A b \in Activities : b # a => activities'[b] = activities[b]
      /\ activities'[a].lease_epoch = e /\ activities'[a].state = "running"
  BY <1>1, <1>2 DEF Inv, TypeOK, ActivityRow
<1> HIDE DEF a, e
<1>4. TypeOK'
  <2>1. activities' \in [Activities -> ActivityRow]
    <3> DEFINE row == [activities[a] EXCEPT !.state = "running", !.lease_epoch = e,
                                            !.lease_owner = w, !.live = TRUE]
    <3>1. row \in ActivityRow
      BY <1>2, <1>3, Zenon DEF ActivityRow, ActivityState
    <3>2. activities' = [activities EXCEPT ![a] = row]
      BY <1>2, Zenon
    <3> HIDE DEF row
    <3> QED
      BY <3>1, <3>2, Zenon DEF Inv, TypeOK
  <2>2. [pc |-> "executing", activity |-> a, epoch |-> e] \in WorkerState
    BY <1>1, <1>3, Zenon DEF WorkerState
  <2>3. worker' \in [Workers -> WorkerState]
    BY <1>2, <2>2, Zenon DEF Inv, TypeOK
  <2> QED
    BY <1>2, <2>1, <2>3 DEF Inv, TypeOK
<1>5. CallsKnow'
  BY <1>2, <1>3, EventAgesCalls DEF NewEvent
<1>6. EpochsExclusive'
  <2>1. ASSUME NEW v \in Workers, worker[v].pc \in Working
        PROVE  /\ worker[v].activity \in Activities /\ worker[v].epoch \in Nat
               /\ worker[v].epoch <= activities[worker[v].activity].lease_epoch
    BY <2>1, WorkerHas, WorkerFields, Zenon DEF Working, Inv, EpochsExclusive
  <2>2. \A v \in Workers : v # w /\ worker'[v].pc \in Working =>
          /\ worker[v].epoch <= activities'[worker[v].activity].lease_epoch
          /\ worker[v].activity = a => worker[v].epoch # e
    BY <1>3, <2>1 DEF e
  <2> QED
    BY <1>3, <2>2 DEF Inv, EpochsExclusive
<1>7. CaseIds' /\ ReconcilingIsWatched'
  BY <1>2, <1>3, CasesStay, Zenon
<1>8. BlockedHasCase'
  BY <1>2, Zenon DEF Inv, BlockedHasCase
<1> QED
  BY <1>4, <1>5, <1>6, <1>7, <1>8, Zenon DEF Inv

\* heartbeat's write and the passing of an expiry change whether a lease is live.
LEMMA LivenessStep ==
  ASSUME Inv,
         \/ \E w \in Workers : CommitBeat(w)
         \/ \E a \in Activities : ExpireLease(a)
  PROVE  Inv'
<1>1. \/ /\ worker' \in [Workers -> WorkerState]
         /\ \A v \in Workers :
              \/ worker'[v] = worker[v]
              \/ /\ worker'[v].pc = "executing" /\ worker[v].pc = "beating"
                 /\ worker'[v].activity = worker[v].activity
                 /\ worker'[v].epoch = worker[v].epoch
  <2>1. ASSUME NEW w \in Workers, CommitBeat(w)
        PROVE  /\ [worker[w] EXCEPT !.pc = "executing"] \in WorkerState
               /\ worker' = [worker EXCEPT ![w] = [worker[w] EXCEPT !.pc = "executing"]]
               /\ worker[w].pc = "beating"
               /\ worker[w] \in [pc : {"executing", "uncertain", "beating"},
                                 activity : Activities, epoch : Nat]
    <3>1. worker[w].pc = "beating" /\ worker[w] \in WorkerState
      BY <2>1, WorkerHas, Zenon DEF CommitBeat
    <3>2. worker[w] \in [pc : {"executing", "uncertain", "beating"},
                         activity : Activities, epoch : Nat]
      BY <3>1 DEF WorkerState, Idle
    <3>3. [worker[w] EXCEPT !.pc = "executing"] \in WorkerState
      BY <3>2, Zenon DEF WorkerState
    <3> QED
      BY <2>1, <3>1, <3>2, <3>3, Zenon DEF CommitBeat, WorkerGoes
  <2>2. CASE \E w \in Workers : CommitBeat(w)
    <3>1. PICK w \in Workers : CommitBeat(w)
      BY <2>2, Zenon
    <3> DEFINE s == [worker[w] EXCEPT !.pc = "executing"]
    <3>2. /\ s \in WorkerState /\ worker' = [worker EXCEPT ![w] = s]
          /\ worker[w].pc = "beating"
          /\ s.pc = "executing" /\ s.activity = worker[w].activity
          /\ s.epoch = worker[w].epoch
      BY <2>1, <3>1, Zenon
    <3> HIDE DEF s
    <3> QED
      BY <3>2, Zenon DEF Inv, TypeOK
  <2>3. CASE \E a \in Activities : ExpireLease(a)
    BY <2>3, Zenon DEF ExpireLease, Inv, TypeOK
  <2> QED
    BY <2>2, <2>3, Zenon
<1>2. /\ UNCHANGED <<run, cases, operator>>
      /\ \E a \in Activities, b \in BOOLEAN :
           activities' = [activities EXCEPT ![a] = [activities[a] EXCEPT !.live = b]]
  <2>1. ASSUME NEW w \in Workers, CommitBeat(w) PROVE worker[w].activity \in Activities
    BY <2>1, WorkerHas, WorkerFields, Zenon DEF CommitBeat
  <2> QED
    BY <2>1, Zenon DEF CommitBeat, ExpireLease, SetActivity
<1>3. /\ activities' \in [Activities -> ActivityRow]
      /\ \A a \in Activities : /\ activities'[a].state = activities[a].state
                               /\ activities'[a].lease_epoch = activities[a].lease_epoch
  BY <1>2 DEF Inv, TypeOK, ActivityRow
<1>4. TypeOK'
  BY <1>1, <1>2, <1>3, Zenon DEF Inv, TypeOK
<1>5. CallsKnow'
  <2>1. ASSUME NEW v \in Workers PROVE WorkerFact(worker[v])'
    <3>1. CASE worker'[v].pc = "executing"
      BY <3>1, Zenon DEF WorkerFact
    <3>2. CASE worker'[v] = worker[v]
      BY <1>2, <1>3, <3>2, WorkerHas, WorkerFields DEF WorkerFact, Current
    <3> QED
      BY <1>1, <3>1, <3>2, Zenon
  <2>2. ASSUME NEW o \in Operators PROVE OperatorFact(operator[o])'
    <3>1. operator[o].pc \in WithCase => operator[o].case.activity \in Activities
      BY OperatorHas, OperatorFields, Zenon DEF CaseRow
    <3> QED
      BY <1>2, <1>3, <3>1, OperatorHas, Zenon DEF OperatorFact, Current, AtSafeBoundary, WithCase
  <2> QED
    BY <2>1, <2>2, Zenon DEF CallsKnow
<1>6. EpochsExclusive'
  BY <1>1, <1>3, EpochsStay, Zenon DEF Working
<1>7. CaseIds' /\ ReconcilingIsWatched'
  BY <1>2, <1>3, CasesStay, Zenon
<1>8. BlockedHasCase'
  BY <1>2, Zenon DEF Inv, BlockedHasCase
<1> QED
  BY <1>4, <1>5, <1>6, <1>7, <1>8, Zenon DEF Inv

\* A row that gives up its lease keeps its epoch.
LEMMA UnleasedRow ==
  ASSUME NEW r \in ActivityRow, NEW st \in ActivityState
  PROVE  /\ Unleased(r, st) \in ActivityRow
         /\ Unleased(r, st).state = st
         /\ Unleased(r, st).lease_epoch = r.lease_epoch
  BY Zenon DEF Unleased, ActivityRow

\* complete.
LEMMA CompleteStep ==
  ASSUME Inv, NEW w \in Workers, CommitComplete(w)
  PROVE  Inv'
<1> DEFINE a == worker[w].activity
           d == worker[w].digest
           row == [Unleased(activities[a], "completed") EXCEPT !.result_digest = d]
<1>1. /\ worker[w].pc = "complete" /\ a \in Activities /\ d \in Digests
  BY WorkerHas, WorkerFields, Zenon DEF CommitComplete
<1>2. /\ run' = [state |-> run.state, event_sequence |-> run.event_sequence + 1]
      /\ run.event_sequence \in Nat /\ run.state \in RunState
      /\ activities' = [activities EXCEPT ![a] = row]
      /\ worker' = [worker EXCEPT ![w] = Idle]
      /\ UNCHANGED <<cases, operator>>
  BY Zenon DEF CommitComplete, AppendEvent, SetActivity, WorkerGoes, Inv, TypeOK
<1>3. /\ row \in ActivityRow /\ row.state = "completed"
      /\ row.lease_epoch = activities[a].lease_epoch
  <2>1. activities[a] \in ActivityRow /\ "completed" \in ActivityState
    BY <1>1, Zenon DEF Inv, TypeOK, ActivityState
  <2> DEFINE free == Unleased(activities[a], "completed")
  <2>2. /\ free \in ActivityRow /\ free.state = "completed"
        /\ free.lease_epoch = activities[a].lease_epoch
    BY <2>1, UnleasedRow, Zenon
  <2> HIDE DEF free
  <2>3. /\ [free EXCEPT !.result_digest = d] \in ActivityRow
        /\ [free EXCEPT !.result_digest = d].state = free.state
        /\ [free EXCEPT !.result_digest = d].lease_epoch = free.lease_epoch
    BY <1>1, <2>2, Zenon DEF ActivityRow
  <2> QED
    BY <2>2, <2>3, Zenon DEF free
<1> HIDE DEF row
<1>4. /\ \A b \in Activities :
           /\ activities'[b].lease_epoch = activities[b].lease_epoch
           /\ activities'[b].state = IF b = a THEN "completed" ELSE activities[b].state
      /\ \A v \in Workers : worker'[v] = IF v = w THEN Idle ELSE worker[v]
  BY <1>1, <1>2, <1>3, Zenon DEF Inv, TypeOK
<1> HIDE DEF a, d
<1>5. TypeOK'
  BY <1>1, <1>2, <1>3, IdleIsState DEF Inv, TypeOK
<1>6. CallsKnow'
  BY <1>2, <1>4, IdleIsState, EventAgesCalls, Zenon DEF NewEvent
<1>7. EpochsExclusive'
  BY <1>4, IdleIsState, EpochsStay, Zenon
<1>8. CaseIds' /\ ReconcilingIsWatched'
  BY <1>2, <1>4, CasesStay
<1>9. BlockedHasCase'
  BY <1>2, Zenon DEF Inv, BlockedHasCase
<1> QED
  BY <1>5, <1>6, <1>7, <1>8, <1>9, Zenon DEF Inv

\* The commands, and the transition of settle_control_request.
LEMMA ControlStep ==
  ASSUME Inv, NEW o \in Operators,
         Settle(o) \/ \E t \in RunState : Command(o, t)
  PROVE  Inv'
<1>1. /\ run' \in [state : RunState, event_sequence : Nat]
      /\ run'.event_sequence = run.event_sequence + 1
      /\ run'.state # "blocked_reconciliation"
  <2>1. run.event_sequence \in Nat
    BY OperatorHas, Zenon
  <2>2. CASE Settle(o)
    BY <2>1, <2>2, SMTT(30) DEF Settle, AppendEvent, RunState
  <2>3. CASE \E t \in RunState : Command(o, t)
    <3>1. PICK t \in RunState : Command(o, t)
      BY <2>3, Zenon
    <3>2. t # "blocked_reconciliation"
      BY <3>1, Zenon DEF Command, CommandTarget
    <3> QED
      BY <2>1, <3>1, <3>2 DEF Command, AppendEvent
  <2> QED
    BY <2>2, <2>3, Zenon
<1>2. /\ UNCHANGED <<activities, cases, worker>>
      /\ operator' \in [Operators -> OperatorState]
      /\ \A p \in Operators : operator'[p] = operator[p] \/ operator'[p].pc \in {"idle", "settle"}
  BY IdleIsState DEF Settle, Command, OperatorGoes, Inv, TypeOK, OperatorState
<1>3. TypeOK'
  BY <1>1, <1>2, Zenon DEF Inv, TypeOK
<1>4. CallsKnow'
  BY <1>1, <1>2, EventAgesCalls, Zenon DEF NewEvent
<1>5. EpochsExclusive'
  BY <1>2, Zenon DEF Inv, EpochsExclusive
<1>6. CaseIds' /\ ReconcilingIsWatched'
  BY <1>2, CasesStay, Zenon DEF WithRead
<1>7. BlockedHasCase'
  BY <1>1, Zenon DEF BlockedHasCase
<1> QED
  BY <1>3, <1>4, <1>5, <1>6, <1>7, Zenon DEF Inv

-----------------------------------------------------------------------------
(* What a step may do to an activity's row, and to the run under a worker that completes. *)

\* Only the calls whose reads an event tore apart, and a resolution of a case of the
\* activity, give up a durable result.
ResultKept(a) ==
  /\ activities[a].state = "completed"
  /\ \/ activities'[a].state # "completed"
     \/ activities'[a].result_digest # activities[a].result_digest
  =>
    \/ \E w \in Workers : /\ Commits(w, "complete") \/ Commits(w, "mark")
                          /\ TornReads(w)
    \/ \E o \in Operators : /\ operator[o].pc = "resolve" /\ operator'[o] = Idle
                            /\ operator[o].case.activity = a

\* A live lease keeps its epoch.
RowKept(a) ==
  /\ activities[a].state = "running" /\ activities[a].live =>
       activities'[a].lease_epoch = activities[a].lease_epoch
  /\ ResultKept(a)

\* A completion and a mark append an event and end the worker's call.
LEMMA CommitsOfWorker ==
  ASSUME Inv, NEW w \in Workers
  PROVE  /\ CommitComplete(w) => Commits(w, "complete")
         /\ CommitMark(w) => Commits(w, "mark")
<1>1. run.event_sequence \in Nat /\ worker \in [Workers -> WorkerState]
  BY Zenon DEF Inv, TypeOK
<1>2. ASSUME NEW n, NEW s, AppendEvent(n, s) PROVE run' # run
  <2>1. run'.event_sequence = run.event_sequence + 1
    BY <1>2, Zenon DEF AppendEvent
  <2> QED
    BY <1>1, <2>1
<1> QED
  BY <1>1, <1>2, Zenon DEF CommitComplete, CommitMark, WorkerGoes, Commits

\* The writes of claim_next, complete, mark_reconciliation_required and heartbeat.
LEMMA WorkersKeepRows ==
  ASSUME Inv, NEW w \in Workers,
         ClaimActivity(w) \/ CommitComplete(w) \/ CommitMark(w) \/ CommitBeat(w),
         NEW a \in Activities
  PROVE  RowKept(a)
<1> DEFINE b == worker[w].activity
<1>1. /\ b \in Activities /\ activities[b] \in ActivityRow
      /\ activities \in [Activities -> ActivityRow]
  BY WorkerHas, WorkerFields, Zenon DEF ClaimActivity, CommitComplete, CommitMark, CommitBeat, Inv,
     TypeOK
<1>2. CASE a # b
  <2>1. activities'[a] = activities[a]
    BY <1>1, <1>2, Zenon DEF ClaimActivity, CommitComplete, CommitMark, CommitBeat, SetActivity
  <2> QED
    BY <2>1, Zenon DEF RowKept, ResultKept
<1>3. CASE a = b /\ ClaimActivity(w)
  BY <1>1, <1>3, Zenon DEF ClaimActivity, Eligible, RowKept, ResultKept
<1>4. CASE a = b /\ CommitComplete(w)
  <2>1. activities[b].state = "completed" => Commits(w, "complete") /\ TornReads(w)
    BY <1>4, WorkerHas, CommitsOfWorker, Zenon
       DEF CommitComplete, AppendEvent, WorkerFact, Current, TornReads
  <2>2. activities'[b].lease_epoch = activities[b].lease_epoch
    BY <1>1, <1>4, Zenon DEF CommitComplete, SetActivity, Unleased, ActivityRow
  <2> QED
    BY <1>4, <2>1, <2>2, Zenon DEF RowKept, ResultKept
<1>5. CASE a = b /\ CommitMark(w)
  <2>1. activities[b].state = "completed" => Commits(w, "mark") /\ TornReads(w)
    BY <1>5, WorkerHas, CommitsOfWorker, Zenon
       DEF CommitMark, AppendEvent, WorkerFact, Current, TornReads
  <2>2. activities'[b].lease_epoch = activities[b].lease_epoch
    BY <1>1, <1>5, Zenon DEF CommitMark, SetActivity, Unleased, ActivityRow
  <2> QED
    BY <1>5, <2>1, <2>2, Zenon DEF RowKept, ResultKept
<1>6. CASE a = b /\ CommitBeat(w)
  <2>1. /\ activities'[b].lease_epoch = activities[b].lease_epoch
        /\ activities'[b].state = activities[b].state
        /\ activities'[b].result_digest = activities[b].result_digest
    BY <1>1, <1>6, Zenon DEF CommitBeat, SetActivity, ActivityRow
  <2> QED
    BY <1>6, <2>1, Zenon DEF RowKept, ResultKept
<1> QED
  BY <1>2, <1>3, <1>4, <1>5, <1>6, Zenon

\* The writes of enqueue and resolve_reconciliation, and the passing of an expiry.
LEMMA OthersKeepRows ==
  ASSUME Inv, NEW a \in Activities,
         \/ \E b \in Activities : Enqueue(b) \/ ExpireLease(b)
         \/ \E o \in Operators, d \in Digests : CommitResolve(o, d)
  PROVE  RowKept(a)
<1>1. activities[a] \in ActivityRow /\ activities \in [Activities -> ActivityRow]
  BY Zenon DEF Inv, TypeOK
<1>2. ASSUME NEW b \in Activities, Enqueue(b) PROVE RowKept(a)
  BY <1>1, <1>2, Zenon DEF Enqueue, SetActivity, RowKept, ResultKept, ActivityRow
<1>3. ASSUME NEW b \in Activities, ExpireLease(b) PROVE RowKept(a)
  BY <1>1, <1>3, Zenon DEF ExpireLease, SetActivity, RowKept, ResultKept, ActivityRow
<1>4. ASSUME NEW o \in Operators, NEW d \in Digests, CommitResolve(o, d) PROVE RowKept(a)
  <2> DEFINE k == operator[o].case
  <2>1. k.activity \in Activities /\ operator[o].pc = "resolve"
    BY <1>4, OperatorHas, OperatorFields, Zenon DEF CommitResolve, WithCase, CaseRow
  <2>2. operator'[o] = Idle
    BY <1>4, Zenon DEF CommitResolve, OperatorGoes, Inv, TypeOK
  <2>3. CASE a # k.activity
    <3>1. activities'[a] = activities[a]
      BY <1>1, <1>4, <2>3, Zenon DEF CommitResolve, SetActivity
    <3> QED
      BY <3>1, Zenon DEF RowKept, ResultKept
  <2>4. CASE a = k.activity
    <3>1. activities'[a].lease_epoch = activities[a].lease_epoch
      BY <1>1, <1>4, <2>4, Zenon DEF CommitResolve, SetActivity, ActivityRow
    <3> QED
      BY <2>1, <2>2, <2>4, <3>1, Zenon DEF RowKept, ResultKept
  <2> QED
    BY <2>3, <2>4, Zenon
<1> QED
  BY <1>2, <1>3, <1>4, Zenon

\* No step takes over a live lease, and only the named ones give up a durable result.
LEMMA RowsKept ==
  ASSUME Inv, [Next]_vars, NEW a \in Activities
  PROVE  RowKept(a)
<1>1. CASE UNCHANGED activities
  BY <1>1, Zenon DEF RowKept, ResultKept
<1>2. ASSUME NEW b \in Activities, Enqueue(b) \/ ExpireLease(b) PROVE RowKept(a)
  BY <1>2, OthersKeepRows, Zenon
<1>3. ASSUME NEW w \in Workers, WorkerStep(w) \/ WorkerStops(w) PROVE RowKept(a)
  BY <1>1, <1>3, WorkersKeepRows,
     Zenon DEF WorkerStep, WorkerStops, SelectActivity, ReturnResult, BecomeUncertain,
         ReadToComplete, ReadRunToComplete, ReadToMark, ReadRunToMark, WorkerRefused, ReadToBeat
<1>4. ASSUME NEW o \in Operators,
             \/ \E t \in RunState : Command(o, t)
             \/ SettleStep(o) \/ ResolveStep(o) \/ OperatorRefused(o) \/ OperatorStops(o)
      PROVE  RowKept(a)
  BY <1>1, <1>4, OthersKeepRows,
     Zenon DEF Command, SettleStep, SettleAgain, ReadControl, CheckBoundary, Settle, ResolveStep,
         ReadCase, ReadCaseActivity, ReadCaseRun, OperatorRefused, OperatorStops
<1> QED
  BY <1>1, <1>2, <1>3, <1>4, Zenon DEF Next, vars

\* Only complete appends an event and ends a call that was about to complete.
LEMMA FenceHolds ==
  ASSUME Inv, [Next]_vars
  PROVE  CompletionFenced
<1> SUFFICES ASSUME NEW w \in Workers, worker[w].pc = "complete", worker'[w] = Idle,
                    run' # run, ~TornReads(w)
             PROVE  /\ activities[worker[w].activity].state = "running"
                    /\ activities[worker[w].activity].lease_epoch = worker[w].epoch
  BY Zenon DEF CompletionFenced, Commits
<1>1. worker[w] # Idle /\ worker \in [Workers -> WorkerState]
  BY DEF Idle, Inv, TypeOK
<1>2. CASE CommitComplete(w)
  BY <1>2, WorkerHas, Zenon DEF CommitComplete, AppendEvent, WorkerFact, Current, TornReads
<1>3. ASSUME NEW v \in Workers, v # w, WorkerStep(v) \/ WorkerStops(v) PROVE FALSE
  <2>1. \E s : worker' = [worker EXCEPT ![v] = s]
    BY <1>3, Zenon
       DEF WorkerStep, WorkerStops, SelectActivity, ClaimActivity, ReturnResult,
           BecomeUncertain, ReadToComplete, ReadRunToComplete, CommitComplete, ReadToMark,
           ReadRunToMark, CommitMark, WorkerRefused, ReadToBeat, CommitBeat, WorkerGoes
  <2> QED
    BY <1>1, <1>3, <2>1, Zenon
<1>4. CASE WorkerStep(w) \/ WorkerStops(w)
  BY <1>2, <1>4,
     Zenon DEF WorkerStep, WorkerStops, SelectActivity, ClaimActivity, ReturnResult,
         BecomeUncertain, ReadToComplete, ReadRunToComplete, ReadToMark, ReadRunToMark, CommitMark,
         WorkerRefused, ReadToBeat, CommitBeat
<1>5. CASE UNCHANGED worker
  BY <1>1, <1>5, Zenon
<1>6. ASSUME NEW o \in Operators,
             \/ \E t \in RunState : Command(o, t)
             \/ SettleStep(o) \/ ResolveStep(o) \/ OperatorRefused(o) \/ OperatorStops(o)
      PROVE  UNCHANGED worker
  BY <1>6,
     Zenon DEF Command, SettleStep, SettleAgain, ReadControl, CheckBoundary, Settle, ResolveStep,
         ReadCase, ReadCaseActivity, ReadCaseRun, CommitResolve, OperatorRefused, OperatorStops
<1>7. ASSUME NEW b \in Activities, Enqueue(b) \/ ExpireLease(b) PROVE UNCHANGED worker
  BY <1>7, Zenon DEF Enqueue, ExpireLease
<1> QED
  BY <1>3, <1>4, <1>5, <1>6, <1>7, Zenon DEF Next, vars

\* Only settle_control_request's transition appends an event and ends a call that was about
\* to settle; its number is still free, so nothing was claimed since the check.
LEMMA SettleHolds ==
  ASSUME Inv, [Next]_vars, NEW o \in Operators,
         operator[o].pc = "settling", operator'[o] = Idle, run' # run
  PROVE  /\ run'.state \in {"paused", "cancelled"}
         /\ \A a \in Activities : activities[a].state # "running"
<1>1. operator[o] # Idle /\ operator \in [Operators -> OperatorState]
  BY DEF Idle, Inv, TypeOK
<1>2. CASE Settle(o)
  <2>1. AtSafeBoundary
    BY <1>2, OperatorHas, Zenon DEF Settle, AppendEvent, OperatorFact, Current
  <2>2. run'.state \in {"paused", "cancelled"}
    BY <1>2, Zenon DEF Settle, AppendEvent
  <2> QED
    BY <2>1, <2>2, Zenon DEF AtSafeBoundary
<1>3. ASSUME NEW p \in Operators, p # o,
             \/ \E t \in RunState : Command(p, t)
             \/ SettleStep(p) \/ ResolveStep(p) \/ OperatorRefused(p) \/ OperatorStops(p)
      PROVE  FALSE
  <2>1. \E s : operator' = [operator EXCEPT ![p] = s]
    BY <1>3, Zenon
       DEF Command, SettleStep, SettleAgain, ReadControl, CheckBoundary, Settle, ResolveStep,
           ReadCase, ReadCaseActivity, ReadCaseRun, CommitResolve, OperatorRefused,
           OperatorStops, OperatorGoes
  <2> QED
    BY <1>1, <1>3, <2>1, Zenon
<1>4. CASE \/ \E t \in RunState : Command(o, t)
           \/ SettleStep(o) \/ ResolveStep(o) \/ OperatorRefused(o) \/ OperatorStops(o)
  BY <1>1, <1>2, <1>4, Zenon
     DEF Command, SettleStep, SettleAgain, ReadControl, CheckBoundary, ResolveStep, ReadCase,
         ReadCaseActivity, ReadCaseRun, CommitResolve, OperatorRefused, OperatorStops
<1>5. CASE UNCHANGED operator
  BY <1>1, <1>5, Zenon
<1>6. ASSUME NEW w \in Workers, WorkerStep(w) \/ WorkerStops(w) PROVE UNCHANGED operator
  BY <1>6, Zenon
     DEF WorkerStep, WorkerStops, SelectActivity, ClaimActivity, ReturnResult,
         BecomeUncertain, ReadToComplete, ReadRunToComplete, CommitComplete, ReadToMark,
         ReadRunToMark, CommitMark, WorkerRefused, ReadToBeat, CommitBeat
<1>7. ASSUME NEW b \in Activities, Enqueue(b) \/ ExpireLease(b) PROVE UNCHANGED operator
  BY <1>7, Zenon DEF Enqueue, ExpireLease
<1> QED
  BY <1>3, <1>4, <1>5, <1>6, <1>7, Zenon DEF Next, vars

-----------------------------------------------------------------------------
(* Steps that open and resolve cases. *)

INSTANCE FiniteSetTheorems

\* A new case has an id that no case has and no operator has read.
LEMMA OpenedCase ==
  ASSUME Inv, NEW a \in Activities, Cardinality(cases) < MaxCases, OpenCase(a)
  PROVE  \E n \in CaseRow :
           /\ n.activity = a /\ n.state = "open" /\ cases' = cases \cup {n}
           /\ n \notin cases /\ CaseIds'
           /\ \A o \in Operators : operator[o].pc \in WithCase => operator[o].case # n
<1> DEFINE n == [id |-> Cardinality(cases) + 1, activity |-> a, state |-> "open"]
<1>1. IsFiniteSet(cases) /\ Cardinality(cases) \in Nat
  BY FS_CardinalityType, Zenon DEF Inv, CaseIds
<1>2. n \in CaseRow /\ n.activity = a /\ n.state = "open" /\ n.id = Cardinality(cases) + 1
  BY <1>1 DEF CaseRow, Inv, LeaseConstants
<1>3. cases' = cases \cup {n}
  BY Zenon DEF OpenCase
<1> HIDE DEF n
<1>4. \A c \in cases : c.id \in Nat /\ c.id <= Cardinality(cases)
  BY DEF Inv, CaseIds, TypeOK, CaseRow
<1>5. n \notin cases
  BY <1>1, <1>2, <1>4
<1>6. IsFiniteSet(cases \cup {n}) /\ Cardinality(cases \cup {n}) = Cardinality(cases) + 1
  BY <1>1, <1>5, FS_AddElement, Zenon
<1>7. CaseIds'
  <2>1. IsFiniteSet(cases') /\ Cardinality(cases') = Cardinality(cases) + 1
    BY <1>3, <1>6, Zenon
  <2>2. \A c \in cases' : c.id <= Cardinality(cases')
    BY <1>1, <1>2, <1>3, <1>4, <2>1
  <2>3. \A c, d \in cases' : c.id = d.id => c = d
    BY <1>1, <1>2, <1>3, <1>4, SMTT(30) DEF Inv, CaseIds
  <2> QED
    BY <2>1, <2>2, <2>3, Zenon DEF CaseIds
<1>8. ASSUME NEW o \in Operators, operator[o].pc \in WithCase PROVE operator[o].case # n
  BY <1>1, <1>2, <1>4, <1>8, OperatorHas, SMTT(30) DEF OperatorFact
<1> QED
  BY <1>2, <1>3, <1>5, <1>7, <1>8, Zenon

\* mark_reconciliation_required.
LEMMA MarkStep ==
  ASSUME Inv, NEW w \in Workers, CommitMark(w)
  PROVE  Inv'
<1> DEFINE a == worker[w].activity
           row == Unleased(activities[a], "reconciliation_required")
<1>1. worker[w].pc = "mark" /\ a \in Activities
  BY WorkerHas, WorkerFields, Zenon DEF CommitMark
<1>2. /\ run' = [state |-> "blocked_reconciliation",
                 event_sequence |-> run.event_sequence + 1]
      /\ run.event_sequence \in Nat
      /\ activities' = [activities EXCEPT ![a] = row]
      /\ worker' = [worker EXCEPT ![w] = Idle]
      /\ UNCHANGED operator
  BY Zenon DEF CommitMark, AppendEvent, SetActivity, WorkerGoes, Inv, TypeOK
<1>3. /\ row \in ActivityRow /\ row.state = "reconciliation_required"
      /\ row.lease_epoch = activities[a].lease_epoch
  <2>1. activities[a] \in ActivityRow /\ "reconciliation_required" \in ActivityState
    BY <1>1, Zenon DEF Inv, TypeOK, ActivityState
  <2> QED
    BY <2>1, UnleasedRow, Zenon
<1> HIDE DEF row
<1>4. PICK n \in CaseRow :
        /\ n.activity = a /\ n.state = "open" /\ cases' = cases \cup {n}
        /\ n \notin cases /\ CaseIds'
        /\ \A o \in Operators : operator[o].pc \in WithCase => operator[o].case # n
  BY <1>1, OpenedCase, Zenon DEF CommitMark
<1>5. /\ \A b \in Activities :
           /\ activities'[b].lease_epoch = activities[b].lease_epoch
           /\ activities'[b].state = IF b = a THEN "reconciliation_required"
                                      ELSE activities[b].state
      /\ \A v \in Workers : worker'[v] = IF v = w THEN Idle ELSE worker[v]
  BY <1>1, <1>2, <1>3, Zenon DEF Inv, TypeOK
<1> HIDE DEF a
<1>6. TypeOK'
  BY <1>1, <1>2, <1>3, <1>4, IdleIsState, SMTT(30) DEF Inv, TypeOK, RunState
<1>7. CallsKnow'
  BY <1>2, <1>4, <1>5, IdleIsState, EventAgesCalls, Zenon DEF NewEvent
<1>8. EpochsExclusive'
  BY <1>5, IdleIsState, EpochsStay, Zenon
<1>9. ReconcilingIsWatched'
  <2> SUFFICES ASSUME NEW b \in Activities,
                      activities'[b].state = "reconciliation_required"
               PROVE  \E c \in cases' : c.activity = b /\ c.state = "open" /\ Watched(c)'
    BY Zenon DEF ReconcilingIsWatched
  <2>1. CASE b = a
    <3>1. Watched(n)'
      BY <1>2, <1>4, Zenon DEF Watched, WithRead, WithCase
    <3> QED
      BY <1>4, <2>1, <3>1, Zenon
  <2>2. CASE b # a
    <3>1. PICK c \in cases : c.activity = b /\ c.state = "open" /\ Watched(c)
      BY <1>5, <2>2, Zenon DEF Inv, ReconcilingIsWatched
    <3>2. Watched(c)'
      BY <1>2, <3>1, Zenon DEF Watched
    <3> QED
      BY <1>4, <3>1, <3>2, Zenon
  <2> QED
    BY <2>1, <2>2, Zenon
<1>10. BlockedHasCase'
  BY <1>4, Zenon DEF BlockedHasCase
<1> QED
  BY <1>4, <1>6, <1>7, <1>8, <1>9, <1>10, Zenon DEF Inv

\* The write of the case in resolve_reconciliation: another call may have resolved it.
LEMMA ResolvedCase ==
  ASSUME Inv, NEW k \in CaseRow, k.state = "open",
         \E c \in cases : c.id = k.id /\ c.activity = k.activity,
         cases' = (cases \ {k}) \cup {[k EXCEPT !.state = "resolved"]}
  PROVE  /\ CaseIds' /\ cases' \subseteq CaseRow
         /\ \A c \in cases : \E d \in cases' : d.id = c.id /\ d.activity = c.activity
         /\ \A c \in cases : c # k => c \in cases'
         /\ \A c \in cases' : (c \in cases /\ c # k) \/ c.state = "resolved"
<1> DEFINE r == [k EXCEPT !.state = "resolved"]
<1>1. /\ r \in CaseRow /\ r.id = k.id /\ r.activity = k.activity /\ r.state = "resolved"
      /\ r # k
  BY Zenon DEF CaseRow
<1>2. cases' = (cases \ {k}) \cup {r} /\ cases \subseteq CaseRow
  BY Zenon DEF Inv, TypeOK
<1>3. \A c \in CaseRow : c.id = k.id /\ c.activity = k.activity => c = k \/ c = r
  BY DEF CaseRow
<1> HIDE DEF r
<1>4. IsFiniteSet(cases) /\ Cardinality(cases) \in Nat
  BY FS_CardinalityType, Zenon DEF Inv, CaseIds
<1>5. IsFiniteSet(cases') /\ Cardinality(cases') = Cardinality(cases)
  <2>1. CASE k \in cases
    <3>1. r \notin cases
      BY <1>1, <2>1, Zenon DEF Inv, CaseIds
    <3>2. IsFiniteSet(cases \ {k}) /\ Cardinality(cases \ {k}) = Cardinality(cases) - 1
      BY <1>4, <2>1, FS_RemoveElement, Zenon
    <3>3. /\ IsFiniteSet((cases \ {k}) \cup {r})
          /\ Cardinality((cases \ {k}) \cup {r}) = Cardinality(cases \ {k}) + 1
      BY <3>1, <3>2, FS_AddElement, Zenon
    <3>4. IsFiniteSet(cases') /\ Cardinality(cases') = Cardinality(cases \ {k}) + 1
      BY <1>2, <3>3, Zenon
    <3> QED
      BY <1>4, <3>2, <3>4
  <2>2. CASE k \notin cases
    <3>1. r \in cases
      BY <1>2, <1>3, <2>2, Zenon
    <3>2. cases' = cases
      BY <1>2, <2>2, <3>1, Zenon
    <3> QED
      BY <1>4, <3>2, Zenon
  <2> QED
    BY <2>1, <2>2, Zenon
<1>6. CaseIds'
  <2>1. \A c \in cases' : c.id <= Cardinality(cases')
    BY <1>1, <1>2, <1>5, Zenon DEF Inv, CaseIds
  <2>2. \A c, d \in cases' : c.id = d.id => c = d
    <3>1. \A c \in cases : c.id = k.id => c = k \/ c = r
      BY <1>2, <1>3, Zenon DEF Inv, CaseIds
    <3> QED
      BY <1>1, <1>2, <3>1, Zenon DEF Inv, CaseIds
  <2> QED
    BY <1>5, <2>1, <2>2, Zenon DEF CaseIds
<1> QED
  BY <1>1, <1>2, <1>6, Zenon

\* resolve_reconciliation.
LEMMA ResolveWriteStep ==
  ASSUME Inv, NEW o \in Operators, NEW d \in Digests, CommitResolve(o, d)
  PROVE  Inv'
<1> DEFINE k == operator[o].case
           a == k.activity
           target == ActivityTarget(operator[o].resolution)
           state == IF operator[o].read = target THEN activities[a].state ELSE target
           digest == IF operator[o].resolution = "accept_result" THEN d
                     ELSE activities[a].result_digest
           row == [activities[a] EXCEPT !.state = state, !.result_digest = digest]
<1>1. /\ operator[o].pc = "resolve" /\ k \in CaseRow /\ a \in Activities
      /\ operator[o].resolution \in Resolutions
      /\ k.state = "open"
      /\ \E c \in cases : c.id = k.id /\ c.activity = k.activity
  BY OperatorHas, OperatorFields, Zenon DEF CommitResolve, OperatorFact, WithCase, CaseRow
<1>2. /\ run' = [state |-> RunTarget(operator[o].resolution),
                 event_sequence |-> run.event_sequence + 1]
      /\ run.event_sequence \in Nat
  BY OperatorHas, Zenon DEF CommitResolve, AppendEvent
<1>3. /\ activities' = [activities EXCEPT ![a] = row]
      /\ cases' = (cases \ {k}) \cup {[k EXCEPT !.state = "resolved"]}
      /\ operator' = [operator EXCEPT ![o] = Idle]
      /\ UNCHANGED worker
  BY Zenon DEF CommitResolve, SetActivity, OperatorGoes
<1>4. /\ RunTarget(operator[o].resolution) \in {"running", "cancelled", "failed"}
      /\ target \in {"queued", "completed", "cancelled", "failed"}
  BY <1>1, Zenon DEF Resolutions, RunTarget, ActivityTarget
<1>5. /\ row \in ActivityRow /\ row.state = state
      /\ row.lease_epoch = activities[a].lease_epoch
  <2>1. activities[a] \in ActivityRow
    BY <1>1, Zenon DEF Inv, TypeOK
  <2>2. state \in ActivityState /\ digest \in Digests \cup {None}
    BY <1>4, <2>1, Zenon DEF ActivityState, ActivityRow
  <2> HIDE DEF state, digest
  <2> QED
    BY <2>1, <2>2, Zenon DEF ActivityRow
<1> HIDE DEF row
<1>6. /\ CaseIds' /\ cases' \subseteq CaseRow
      /\ \A c \in cases : \E e \in cases' : e.id = c.id /\ e.activity = c.activity
      /\ \A c \in cases : c # k => c \in cases'
      /\ \A c \in cases' : (c \in cases /\ c # k) \/ c.state = "resolved"
  BY <1>1, <1>3, ResolvedCase, Zenon
<1>7. /\ \A b \in Activities :
           /\ activities'[b].lease_epoch = activities[b].lease_epoch
           /\ activities'[b].state = IF b = a THEN state ELSE activities[b].state
      /\ \A p \in Operators : operator'[p] = IF p = o THEN Idle ELSE operator[p]
  BY <1>1, <1>3, <1>5, Zenon DEF Inv, TypeOK
<1>8. TypeOK'
  <2>1. run' \in [state : RunState, event_sequence : Nat]
    BY <1>2, <1>4 DEF RunState
  <2>2. activities' \in [Activities -> ActivityRow]
    BY <1>1, <1>3, <1>5, Zenon DEF Inv, TypeOK
  <2>3. operator' \in [Operators -> OperatorState]
    BY <1>3, IdleIsState, Zenon DEF Inv, TypeOK
  <2> QED
    BY <1>3, <1>6, <2>1, <2>2, <2>3, Zenon DEF Inv, TypeOK
<1>9. CallsKnow'
  BY <1>2, <1>3, <1>6, <1>7, IdleIsState, EventAgesCalls, Zenon DEF NewEvent
<1>10. EpochsExclusive'
  BY <1>3, <1>7, EpochsStay, Zenon
<1>11. ReconcilingIsWatched'
  <2> SUFFICES ASSUME NEW b \in Activities,
                      activities'[b].state = "reconciliation_required"
               PROVE  \E c \in cases' : c.activity = b /\ c.state = "open" /\ Watched(c)'
    BY Zenon DEF ReconcilingIsWatched
  <2>1. /\ activities[b].state = "reconciliation_required"
        /\ b = a => operator[o].read # "reconciliation_required"
    BY <1>4, <1>7, Zenon
  <2>2. PICK c \in cases : c.activity = b /\ c.state = "open" /\ Watched(c)
    BY <2>1, Zenon DEF Inv, ReconcilingIsWatched
  <2>3. c # k
    BY <1>1, <2>1, <2>2, Zenon DEF Watched, WithRead
  <2>4. Watched(c)'
    BY <1>7, <2>2, IdleIsState, Zenon DEF Watched
  <2> QED
    BY <1>6, <2>2, <2>3, <2>4, Zenon
<1>12. BlockedHasCase'
  BY <1>2, <1>4, Zenon DEF BlockedHasCase
<1> QED
  BY <1>6, <1>8, <1>9, <1>10, <1>11, <1>12, Zenon DEF Inv

\* A run that has just been made ready, with no activity, case or call.
LEMMA InitInv == LeaseConstants /\ Init => Inv
<1> SUFFICES ASSUME LeaseConstants, Init PROVE Inv
  BY Zenon
<1>1. TypeOK
  BY Zenon DEF Init, TypeOK, RunState, ActivityRow, ActivityState,
     WorkerState, OperatorState
<1>2. CallsKnow
  BY Zenon DEF Init, CallsKnow, WorkerFact, OperatorFact, Idle, WithCase
<1>3. ReconcilingIsWatched /\ BlockedHasCase
  BY Zenon DEF Init, ReconcilingIsWatched, BlockedHasCase
<1>4. EpochsExclusive
  BY Zenon DEF Init, EpochsExclusive, Idle, Working
<1>5. CaseIds
  BY FS_EmptySet, Zenon DEF Init, CaseIds
<1> QED
  BY <1>1, <1>2, <1>3, <1>4, <1>5, Zenon DEF Inv

\* Nothing changes.
LEMMA StutterStep ==
  ASSUME Inv, UNCHANGED vars
  PROVE  Inv'
<1> USE DEF vars
<1>1. TypeOK' /\ CaseIds' /\ BlockedHasCase' /\ EpochsExclusive'
  BY Zenon DEF Inv, TypeOK, CaseIds, BlockedHasCase, EpochsExclusive
<1>2. CallsKnow'
  BY Zenon DEF Inv, CallsKnow, WorkerFact, OperatorFact, Current, AtSafeBoundary
<1>3. ReconcilingIsWatched'
  BY DEF Inv, ReconcilingIsWatched, Watched
<1> QED
  BY <1>1, <1>2, <1>3, Zenon DEF Inv

\* Every step keeps the invariant.
LEMMA NextInv == Inv /\ [Next]_vars => Inv'
<1> SUFFICES ASSUME Inv, [Next]_vars PROVE Inv'
  BY Zenon
<1>1. ASSUME NEW a \in Activities, Enqueue(a) \/ ExpireLease(a) PROVE Inv'
  BY <1>1, EnqueueStep, LivenessStep, Zenon
<1>2. ASSUME NEW w \in Workers, WorkerStep(w) \/ WorkerStops(w) PROVE Inv'
  BY <1>2, WorkerReads, ClaimStep, CompleteStep, MarkStep, LivenessStep, Zenon DEF WorkerStep
<1>3. ASSUME NEW o \in Operators,
             \/ \E t \in RunState : Command(o, t)
             \/ SettleStep(o) \/ ResolveStep(o) \/ OperatorRefused(o) \/ OperatorStops(o)
      PROVE  Inv'
  BY <1>3, OperatorReads, ControlStep, ResolveWriteStep, Zenon DEF SettleStep, ResolveStep
<1>4. CASE UNCHANGED vars
  BY <1>4, StutterStep, Zenon
<1> QED
  BY <1>1, <1>2, <1>3, <1>4, Zenon DEF Next

-----------------------------------------------------------------------------
(* The inductive invariant holds of the program, whatever its calls read in between and
   wherever workers and operators stop (ActivityService, RuntimeService). *)
THEOREM Invariance ==
  ASSUME LeaseConstants
  PROVE  Spec => []Inv
  BY InitInv, NextInv, PTL DEF Spec

(* An activity waiting for reconciliation, and a run blocked on it, have an open case, with
   stale reads and overlapping resolutions (mark_reconciliation_required,
   resolve_reconciliation). *)
THEOREM WaitingHasCase ==
  ASSUME LeaseConstants
  PROVE  Spec => [](ReconcilingHasCase /\ BlockedHasCase)
<1>1. Inv => ReconcilingHasCase /\ BlockedHasCase
  BY Zenon DEF Inv, ReconcilingIsWatched, ReconcilingHasCase
<1> QED
  BY <1>1, Invariance, PTL

(* Two workers never hold the same lease epoch of an activity, and the newest epoch handed
   out is the row's (claim_next). *)
THEOREM LeasesExclusive ==
  ASSUME LeaseConstants
  PROVE  Spec => []EpochsExclusive
<1>1. Inv => EpochsExclusive
  BY Zenon DEF Inv
<1> QED
  BY <1>1, Invariance, PTL

(* A live lease is never taken over (claim_next). *)
THEOREM LiveLeaseStays ==
  ASSUME LeaseConstants
  PROVE  Spec => LiveLeaseKept
<1>1. Inv /\ [Next]_vars => [LeaseKept]_vars
  BY RowsKept, Zenon DEF RowKept, LeaseKept
<1> QED
  BY <1>1, Invariance, PTL DEF Spec, LiveLeaseKept

(* A pause or a cancellation is settled when no activity is running: a claim between the
   check and the transition takes the event number of the transition
   (settle_control_request, claim_next). *)
THEOREM SettledAtBoundary ==
  ASSUME LeaseConstants
  PROVE  Spec => SettlesAtBoundary
<1>1. Inv /\ [Next]_vars => [BoundaryWhenSettled]_vars
  BY SettleHolds, Zenon DEF BoundaryWhenSettled
<1> QED
  BY <1>1, Invariance, PTL DEF Spec, SettlesAtBoundary

(* A result whose reads no event tore apart completes the running lease epoch it was claimed
   under, and a durable result is given up only by a call with torn reads or by an operator's
   resolution (complete, mark_reconciliation_required, resolve_reconciliation). *)
THEOREM ResultsFenced ==
  ASSUME LeaseConstants
  PROVE  Spec => FencedCompletion
<1>1. Inv /\ [Next]_vars => [ResultFenced]_vars
  <2> SUFFICES ASSUME Inv, [Next]_vars PROVE CompletionFenced /\ DurableResultKept
    BY Zenon DEF ResultFenced
  <2>1. DurableResultKept
    BY RowsKept, Zenon DEF RowKept, ResultKept, DurableResultKept
  <2> QED
    BY <2>1, FenceHolds, Zenon
<1> QED
  BY <1>1, Invariance, PTL DEF Spec, FencedCompletion
=============================================================================
