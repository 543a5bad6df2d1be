-------------------------- MODULE RunHistoryProofs --------------------------
(***************************************************************************)
(* Proofs about RunHistory for every set of clients and keys and every      *)
(* bound.  The inductive invariant adds to the checked properties what a     *)
(* service call knows of the row it read: it is no newer than the table, a   *)
(* row of the current sequence number is the current row, and the move the   *)
(* call intends is legal from the state it read.                             *)
(***************************************************************************)
EXTENDS RunHistory, TLAPS

Reading(c) == call[c].step \in {"transition", "write"}

LegalMove(s, t) == s = t \/ can_transition(RUN_TRANSITIONS, s, t)

SnapshotsAgree ==
  \A c \in Clients : Reading(c) =>
    /\ call[c].row.event_sequence <= run.event_sequence
    /\ call[c].row.event_sequence = run.event_sequence => call[c].row = run

MovesLegal ==
  \A c \in Clients :
    /\ call[c].step = "transition" =>
         can_transition(RUN_TRANSITIONS, call[c].row.state, call[c].req.target)
    /\ call[c].step = "write" => LegalMove(call[c].row.state, call[c].target)

KeysRecorded ==
  \A e \in events : e.key # NoKey => \E r \in idem : r.key = e.key

\* The inductive strengthening of the checked properties.
Inv ==
  /\ TypeOK
  /\ EventsContiguous
  /\ HistoryIsPath
  /\ OneEffectPerKey
  /\ SnapshotsAgree
  /\ MovesLegal
  /\ KeysRecorded
-----------------------------------------------------------------------------
\* A stale row cannot be written back: if the event number a call is about to insert
\* is free, the row it read is still the row of the table (uq_events_run_sequence).
LEMMA FreshSnapshot ==
  ASSUME Inv, NEW c \in Clients, Reading(c), SequenceFree(call[c].row.event_sequence + 1)
  PROVE  call[c].row = run
<1>1. call[c].row.event_sequence \in Nat /\ run.event_sequence \in Nat
  BY DEF Inv, TypeOK, Call, Idle, Reading, RunRow
<1>2. call[c].row.event_sequence <= run.event_sequence
  BY Zenon DEF Inv, SnapshotsAgree
<1>3. ~(call[c].row.event_sequence + 1 \in 1..run.event_sequence)
  BY Zenon DEF Inv, EventsContiguous, SequenceFree
<1>4. call[c].row.event_sequence = run.event_sequence
  BY <1>1, <1>2, <1>3
<1> QED
  BY <1>4, Zenon DEF Inv, SnapshotsAgree

\* Appending one event that makes a legal move from the current row keeps the history.
LEMMA AppendKeepsHistory ==
  ASSUME Inv, NEW t \in RunState, NEW k \in Keys \cup {NoKey},
         LegalMove(run.state, t),
         k # NoKey => KeyFree(k),
         run' = [state |-> t, revision |-> run.revision + 1,
                 event_sequence |-> run.event_sequence + 1],
         events' = events \cup {Event(run.event_sequence + 1, run.state, t, k)}
  PROVE  EventsContiguous' /\ HistoryIsPath' /\ OneEffectPerKey'
<1> DEFINE new == Event(run.event_sequence + 1, run.state, t, k)
<1>1. /\ run.event_sequence \in Nat
      /\ \A e \in events : e.sequence \in Nat
  BY Zenon DEF Inv, TypeOK, RunRow, EventRow
<1>2. /\ new.sequence = run.event_sequence + 1
      /\ new.from = run.state
      /\ new.to = t
      /\ new.key = k
  BY Zenon DEF Event
<1>3. /\ run'.event_sequence = run.event_sequence + 1
      /\ run'.state = t
      /\ events' = events \cup {new}
  BY Zenon
<1> HIDE DEF new
<1>4. EventsContiguous'
  BY <1>1, <1>2, <1>3 DEF Inv, EventsContiguous
<1>5. \A e \in events : e.sequence \in 1..run.event_sequence
  BY Zenon DEF Inv, EventsContiguous
<1>6. HistoryIsPath'
  <2>1. ASSUME NEW e \in events', NEW f \in events', f.sequence = e.sequence + 1
        PROVE  f.from = e.to
    <3>1. CASE f \in events
      <4>1. e \in events
        BY <1>1, <1>2, <1>3, <1>5, <2>1, <3>1
      <4> QED
        BY <4>1, <3>1, <2>1, Zenon DEF Inv, HistoryIsPath
    <3>2. CASE f = new
      <4>1. e \in events /\ e.sequence = run.event_sequence
        BY <1>1, <1>2, <1>3, <1>5, <2>1, <3>2
      <4> QED
        BY <4>1, <3>2, <1>2, Zenon DEF Inv, HistoryIsPath
    <3> QED
      BY <3>1, <3>2, <1>3, Zenon
  <2>2. ASSUME NEW e \in events'
        PROVE  e.from = e.to \/ can_transition(RUN_TRANSITIONS, e.from, e.to)
    BY <1>2, <1>3, Zenon DEF Inv, HistoryIsPath, LegalMove
  <2>3. ASSUME NEW e \in events', e.sequence = run'.event_sequence
        PROVE  e.to = run'.state
    BY <1>1, <1>2, <1>3, <1>5, <2>3
  <2> QED
    BY <2>1, <2>2, <2>3, Zenon DEF HistoryIsPath
<1>7. OneEffectPerKey'
  <2>1. ASSUME NEW e \in events, k # NoKey
        PROVE  e.key # k
    BY <2>1, Zenon DEF Inv, KeysRecorded, KeyFree
  <2> QED
    BY <1>2, <1>3, <2>1, Zenon DEF Inv, OneEffectPerKey
<1> QED
  BY <1>4, <1>6, <1>7, Zenon

\* Snapshots that were not the current row stay older than it after one more event.
LEMMA AppendKeepsSnapshots ==
  ASSUME Inv, NEW t,
         run' = [state |-> t, revision |-> run.revision + 1,
                 event_sequence |-> run.event_sequence + 1],
         \A d \in Clients : call'[d] \in {call[d], Idle}
  PROVE  SnapshotsAgree' /\ MovesLegal'
<1>1. run.event_sequence \in Nat /\ run'.event_sequence = run.event_sequence + 1
  BY Zenon DEF Inv, TypeOK, RunRow
<1> SUFFICES ASSUME NEW d \in Clients, Reading(d)'
             PROVE  /\ call'[d] = call[d]
                    /\ call[d].row.event_sequence \in Nat
                    /\ call[d].row.event_sequence <= run.event_sequence
  <2>1. \A d \in Clients : ~Reading(d)' =>
           call'[d].step # "transition" /\ call'[d].step # "write"
    BY Zenon DEF Reading
  <2>2. \A d \in Clients : call'[d] = call[d] =>
           /\ call'[d].step = "transition" =>
                can_transition(RUN_TRANSITIONS, call'[d].row.state, call'[d].req.target)
           /\ call'[d].step = "write" => LegalMove(call'[d].row.state, call'[d].target)
    BY Zenon DEF Inv, MovesLegal
  <2> QED
    BY <1>1, <2>1, <2>2 DEF SnapshotsAgree, MovesLegal
<1>2. call'[d] = call[d]
  BY DEF Reading, Idle
<1>3. Reading(d)
  BY <1>2, Zenon DEF Reading
<1>4. call[d].row.event_sequence \in Nat
  BY <1>3 DEF Inv, TypeOK, Call, Idle, Reading, RunRow
<1> QED
  BY <1>2, <1>3, <1>4, Zenon DEF Inv, SnapshotsAgree
-----------------------------------------------------------------------------
LEMMA InitInv == Init => Inv
<1> SUFFICES ASSUME Init PROVE Inv
  BY Zenon
<1>1. TypeOK
  BY DEF Init, TypeOK, RunRow, EventRow, Call, RunState, Event
<1>2. EventsContiguous
  <2>1. CASE /\ run.event_sequence = 1
             /\ events = {Event(1, "created", "created", NoKey)}
    <3>1. run.event_sequence = 1
      BY <2>1, Zenon
    <3>2. \A e \in events : e = Event(1, "created", "created", NoKey) /\ e.sequence = 1
      BY <2>1 DEF Event
    <3>3. \A n \in 1..1 : n = 1
      OBVIOUS
    <3> QED
      BY <2>1, <3>1, <3>2, <3>3 DEF EventsContiguous
  <2>2. CASE /\ run.event_sequence = 3
             /\ events = {Event(1, "created", "created", NoKey),
                          Event(2, "created", "validating", NoKey),
                          Event(3, "validating", "ready", NoKey)}
    <3>1. run.event_sequence = 3
      BY <2>2, Zenon
    <3>2. /\ Event(1, "created", "created", NoKey).sequence = 1
          /\ Event(2, "created", "validating", NoKey).sequence = 2
          /\ Event(3, "validating", "ready", NoKey).sequence = 3
      BY Zenon DEF Event
    <3>3. \A n \in 1..3 : n = 1 \/ n = 2 \/ n = 3
      OBVIOUS
    <3> QED
      BY <2>2, <3>1, <3>2, <3>3 DEF EventsContiguous
  <2> QED
    BY <2>1, <2>2 DEF Init
<1>3. HistoryIsPath
  BY DEF Init, HistoryIsPath, Event, can_transition, RUN_TRANSITIONS
<1>4. OneEffectPerKey /\ KeysRecorded
  BY DEF Init, OneEffectPerKey, KeysRecorded, Event
<1>5. SnapshotsAgree /\ MovesLegal
  BY Zenon DEF Init, SnapshotsAgree, MovesLegal, Reading, Idle
<1> QED
  BY <1>1, <1>2, <1>3, <1>4, <1>5, Zenon DEF Inv

\* Steps that only read, or roll back, touch nothing but the caller's own snapshot.
LEMMA CallOnlyKeepsHistory ==
  ASSUME Inv, UNCHANGED <<run, events, idem>>, call' \in [Clients -> Call],
         SnapshotsAgree', MovesLegal'
  PROVE  Inv'
BY Zenon DEF Inv, TypeOK, EventsContiguous, HistoryIsPath, OneEffectPerKey, KeysRecorded

LEMMA NextInv == Inv /\ [Next]_vars => Inv'
<1> SUFFICES ASSUME Inv, [Next]_vars PROVE Inv'
  BY Zenon
<1>0. TypeOK /\ SnapshotsAgree /\ MovesLegal
  BY Zenon DEF Inv
<1>1. ASSUME NEW c \in Clients, Command(c) PROVE Inv'
  <2> PICK req \in [target : CommandTargets, key : Keys \cup {NoKey},
                    expected : {run.revision, NoRevision}] : CheckIdempotency(c, req)
    BY <1>1, Zenon DEF Command
  <2>1. req \in Request
    BY <1>0, Zenon DEF TypeOK, RunRow, Request, CommandTargets, RunState
  <2>2. call' = [call EXCEPT ![c] = [step |-> "checked", req |-> req]]
    BY Zenon DEF CheckIdempotency
  <2>3. call' \in [Clients -> Call]
    BY <1>0, <2>1, <2>2, Zenon DEF TypeOK, Call
  <2>4. SnapshotsAgree' /\ MovesLegal'
    BY <1>0, <2>2 DEF TypeOK, SnapshotsAgree, MovesLegal, Reading, CheckIdempotency
  <2> QED
    BY <2>3, <2>4, CallOnlyKeepsHistory, Zenon DEF CheckIdempotency
<1>2. ASSUME NEW c \in Clients, ReadForTransition(c) PROVE Inv'
  <2>1. call[c].req \in Request /\ run \in RunRow
    BY <1>0, <1>2 DEF TypeOK, Call, Idle, ReadForTransition
  <2>2. \/ call' = [call EXCEPT ![c] = Idle]
        \/ /\ can_transition(RUN_TRANSITIONS, run.state, call[c].req.target)
           /\ call' = [call EXCEPT ![c] =
                [step |-> "transition", req |-> call[c].req, row |-> run]]
    BY <1>2, Zenon DEF ReadForTransition
  <2>3. call' \in [Clients -> Call]
    BY <1>0, <2>1, <2>2 DEF TypeOK, Call
  <2>4. run' = run
    BY <1>2, Zenon DEF ReadForTransition
  <2>5. SnapshotsAgree'
    BY <1>0, <2>1, <2>2, <2>4 DEF TypeOK, RunRow, SnapshotsAgree, Reading, Idle
  <2>6. MovesLegal'
    BY <1>0, <2>1, <2>2, <2>4 DEF TypeOK, MovesLegal, LegalMove, Idle
  <2> QED
    BY <1>2, <2>3, <2>5, <2>6, CallOnlyKeepsHistory, Zenon DEF ReadForTransition
<1>3. ASSUME NEW c \in Clients, ReadForWrite(c) PROVE Inv'
  <2>1. run \in RunRow
    BY <1>0, Zenon DEF TypeOK
  <2> PICK t \in WriteTargets(run.state) :
        call' = [call EXCEPT ![c] = [step |-> "write", target |-> t, row |-> run]]
    BY <1>3, Zenon DEF ReadForWrite
  <2>2. t \in RunState /\ LegalMove(run.state, t)
    BY <2>1, Zenon DEF WriteTargets, LegalMove, RunRow, RunState
  <2>3. call' \in [Clients -> Call]
    BY <1>0, <2>1, <2>2, Zenon DEF TypeOK, Call
  <2>4. SnapshotsAgree' /\ MovesLegal'
    BY <1>0, <1>3, <2>1, <2>2
    DEF TypeOK, RunRow, SnapshotsAgree, MovesLegal, Reading, ReadForWrite, LegalMove
  <2> QED
    BY <1>3, <2>3, <2>4, CallOnlyKeepsHistory, Zenon DEF ReadForWrite
<1>4. ASSUME NEW c \in Clients, Rollback(c) PROVE Inv'
  <2>1. call' = [call EXCEPT ![c] = Idle]
    BY <1>4, Zenon DEF Rollback, Return
  <2>2. call' \in [Clients -> Call]
    BY <1>0, <2>1, Zenon DEF TypeOK, Call
  <2>3. SnapshotsAgree' /\ MovesLegal'
    BY <1>0, <1>4, <2>1, Zenon DEF TypeOK, SnapshotsAgree, MovesLegal, Reading, Rollback, Idle
  <2> QED
    BY <1>4, <2>2, <2>3, CallOnlyKeepsHistory, Zenon DEF Rollback
<1>5. ASSUME NEW c \in Clients, CommitTransition(c) PROVE Inv'
  <2> DEFINE req == call[c].req
  <2>1. req \in Request /\ Reading(c)
    BY <1>0, <1>5 DEF TypeOK, Call, Idle, CommitTransition, Reading
  <2>2. call[c].row = run
    BY <1>5, <2>1, FreshSnapshot, Zenon DEF CommitTransition
  <2>3. /\ run' = [state |-> req.target, revision |-> run.revision + 1,
                   event_sequence |-> run.event_sequence + 1]
        /\ events' = events \cup
                       {Event(run.event_sequence + 1, run.state, req.target, req.key)}
        /\ idem' = IF req.key = NoKey THEN idem
                   ELSE idem \cup {[key |-> req.key, target |-> req.target]}
        /\ KeyFree(req.key)
        /\ call' = [call EXCEPT ![c] = Idle]
    BY <1>5, <2>2, Zenon DEF CommitTransition, Return
  <2>4. req.target \in RunState /\ req.key \in Keys \cup {NoKey}
    BY <2>1, Zenon DEF Request
  <2>5. LegalMove(run.state, req.target)
    BY <1>0, <1>5, <2>2, Zenon DEF MovesLegal, CommitTransition, LegalMove
  <2>6. EventsContiguous' /\ HistoryIsPath' /\ OneEffectPerKey'
    BY <2>3, <2>4, <2>5, AppendKeepsHistory, Zenon
  <2>7. \A d \in Clients : call'[d] \in {call[d], Idle}
    BY <1>0, <2>3, Zenon DEF TypeOK
  <2>8. SnapshotsAgree' /\ MovesLegal'
    BY <2>3, <2>7, AppendKeepsSnapshots, Zenon
  <2>9. TypeOK'
    BY <1>0, <2>3, <2>4 DEF TypeOK, RunRow, EventRow, IdempotencyRow, Event, Call
  <2>10. KeysRecorded'
    <3>1. idem \subseteq idem'
      BY <2>3, Zenon
    <3>2. ASSUME NEW e \in events', e.key # NoKey
          PROVE  \E r \in idem' : r.key = e.key
      <4>1. CASE e \in events
        BY <3>1, <3>2, <4>1, Zenon DEF Inv, KeysRecorded
      <4>2. CASE e = Event(run.event_sequence + 1, run.state, req.target, req.key)
        <5>1. e.key = req.key
          BY <4>2, Zenon DEF Event
        <5>2. [key |-> req.key, target |-> req.target] \in idem'
          BY <2>3, <3>2, <5>1, Zenon
        <5> QED
          BY <5>1, <5>2, Zenon
      <4> QED
        BY <2>3, <4>1, <4>2, Zenon
    <3> QED
      BY <3>2, Zenon DEF KeysRecorded
  <2> QED
    BY <2>6, <2>8, <2>9, <2>10, Zenon DEF Inv
<1>6. ASSUME NEW c \in Clients, CommitWrite(c) PROVE Inv'
  <2> DEFINE t == call[c].target
  <2>1. t \in RunState /\ Reading(c)
    BY <1>0, <1>6 DEF TypeOK, Call, Idle, CommitWrite, Reading
  <2>2. call[c].row = run
    BY <1>6, <2>1, FreshSnapshot, Zenon DEF CommitWrite
  <2>3. /\ run' = [state |-> t, revision |-> run.revision + 1,
                   event_sequence |-> run.event_sequence + 1]
        /\ events' = events \cup {Event(run.event_sequence + 1, run.state, t, NoKey)}
        /\ idem' = idem
        /\ call' = [call EXCEPT ![c] = Idle]
    BY <1>6, <2>2, Zenon DEF CommitWrite, Return
  <2>4. LegalMove(run.state, t)
    BY <1>0, <1>6, <2>2, Zenon DEF MovesLegal, CommitWrite
  <2>5. EventsContiguous' /\ HistoryIsPath' /\ OneEffectPerKey'
    BY <2>1, <2>3, <2>4, AppendKeepsHistory, Zenon
  <2>6. \A d \in Clients : call'[d] \in {call[d], Idle}
    BY <1>0, <2>3, Zenon DEF TypeOK
  <2>7. SnapshotsAgree' /\ MovesLegal'
    BY <2>3, <2>6, AppendKeepsSnapshots, Zenon
  <2>8. TypeOK'
    BY <1>0, <2>1, <2>3 DEF TypeOK, RunRow, EventRow, Event, Call
  <2>9. KeysRecorded'
    BY <2>3 DEF Inv, KeysRecorded, Event
  <2> QED
    BY <2>5, <2>7, <2>8, <2>9, Zenon DEF Inv
<1>7. ASSUME ClaimEvent PROVE Inv'
  <2>1. /\ run' = [state |-> run.state, revision |-> run.revision + 1,
                   event_sequence |-> run.event_sequence + 1]
        /\ events' = events \cup
                       {Event(run.event_sequence + 1, run.state, run.state, NoKey)}
        /\ idem' = idem
        /\ call' = call
    BY <1>0, <1>7, Zenon DEF ClaimEvent, TypeOK, RunRow
  <2>2. run.state \in RunState /\ LegalMove(run.state, run.state)
    BY <1>0, Zenon DEF TypeOK, RunRow, LegalMove
  <2>3. EventsContiguous' /\ HistoryIsPath' /\ OneEffectPerKey'
    BY <2>1, <2>2, AppendKeepsHistory, Zenon
  <2>4. SnapshotsAgree' /\ MovesLegal'
    BY <2>1, AppendKeepsSnapshots, Zenon
  <2>5. TypeOK'
    BY <1>0, <2>1, <2>2 DEF TypeOK, RunRow, EventRow, Event
  <2>6. KeysRecorded'
    BY <2>1 DEF Inv, KeysRecorded, Event
  <2> QED
    BY <2>3, <2>4, <2>5, <2>6, Zenon DEF Inv
<1>8. CASE UNCHANGED vars
  BY <1>8, Zenon DEF vars, Inv, TypeOK, EventsContiguous, HistoryIsPath, OneEffectPerKey,
              SnapshotsAgree, MovesLegal, KeysRecorded, Reading
<1> QED
  BY <1>1, <1>2, <1>3, <1>4, <1>5, <1>6, <1>7, <1>8, Zenon DEF Next

\* Every reachable state satisfies the inductive invariant.
THEOREM Invariance == Spec => []Inv
<1> QED
  BY InitInv, NextInv, PTL DEF Spec

\* Type correctness of the run row, its events, the keys and the calls in flight.
THEOREM TypeCorrect == Spec => []TypeOK
<1>1. Inv => TypeOK
  BY Zenon DEF Inv
<1> QED
  BY <1>1, Invariance, PTL

\* Concurrent writers leave neither a gap nor a duplicate in a run's event numbers.
THEOREM EventsAreContiguous == Spec => []EventsContiguous
<1>1. Inv => EventsContiguous
  BY Zenon DEF Inv
<1> QED
  BY <1>1, Invariance, PTL

\* The event history is a path of RUN_TRANSITIONS that ends in the row's state: no
\* writer of the run row, guarded by a compare-and-swap or only by the event's unique
\* index, ever overwrites a state it did not read.
THEOREM HistoryIsAPath == Spec => []HistoryIsPath
<1>1. Inv => HistoryIsPath
  BY Zenon DEF Inv
<1> QED
  BY <1>1, Invariance, PTL

\* Repetitions of a command under one idempotency key leave at most one event.
THEOREM KeysHaveOneEffect == Spec => []OneEffectPerKey
<1>1. Inv => OneEffectPerKey
  BY Zenon DEF Inv
<1> QED
  BY <1>1, Invariance, PTL

\* completed, cancelled and failed are final.
THEOREM TerminalStatesAreFinal == Spec => TerminalIsFinal
<1>1. ASSUME Inv, [Next]_vars, run.state \in TerminalRunState
      PROVE  run'.state = run.state
  <2> USE <1>1
  <2>1. \A t \in RunState : ~can_transition(RUN_TRANSITIONS, run.state, t)
    BY Zenon DEF TerminalRunState, can_transition, RUN_TRANSITIONS
  <2>2. TypeOK /\ MovesLegal
    BY Zenon DEF Inv
  <2>3. ASSUME NEW c \in Clients, CommitTransition(c) PROVE FALSE
    <3>1. Reading(c) /\ call[c].req.target \in RunState
      BY <2>2, <2>3 DEF TypeOK, Call, Idle, Request, CommitTransition, Reading
    <3>2. call[c].row = run
      BY <2>3, <3>1, FreshSnapshot, Zenon DEF CommitTransition
    <3>3. call[c].step = "transition"
      BY <2>3, Zenon DEF CommitTransition
    <3>4. can_transition(RUN_TRANSITIONS, run.state, call[c].req.target)
      BY <2>2, <3>2, <3>3, Zenon DEF MovesLegal
    <3> QED
      BY <2>1, <3>1, <3>4, Zenon
  <2>4. ASSUME NEW c \in Clients, CommitWrite(c) PROVE run'.state = run.state
    <3>1. Reading(c) /\ call[c].target \in RunState
      BY <2>2, <2>4 DEF TypeOK, Call, Idle, CommitWrite, Reading
    <3>2. call[c].row = run
      BY <2>4, <3>1, FreshSnapshot, Zenon DEF CommitWrite
    <3>3. call[c].target = run.state
      BY <2>1, <2>2, <2>4, <3>1, <3>2, Zenon DEF MovesLegal, LegalMove, CommitWrite
    <3> QED
      BY <2>4, <3>2, <3>3, Zenon DEF CommitWrite
  <2>5. CASE ClaimEvent
    BY <2>2, <2>5, Zenon DEF ClaimEvent, TypeOK, RunRow
  <2>6. CASE \E c \in Clients : \/ Command(c) \/ ReadForTransition(c)
                               \/ ReadForWrite(c) \/ Rollback(c)
    BY <2>6, Zenon DEF Command, CheckIdempotency, ReadForTransition, ReadForWrite, Rollback
  <2>7. CASE UNCHANGED vars
    BY <2>7, Zenon DEF vars
  <2> QED
    BY <2>3, <2>4, <2>5, <2>6, <2>7, Zenon DEF Next
<1>2. Inv /\ [Next]_vars => [run.state \in TerminalRunState => run'.state = run.state]_vars
  BY <1>1, Zenon
<1> QED
  BY <1>2, Invariance, PTL DEF Spec, TerminalIsFinal
=============================================================================
