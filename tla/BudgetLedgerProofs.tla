------------------------- MODULE BudgetLedgerProofs -------------------------
(***************************************************************************)
(* Proofs about BudgetLedger for all clients, keys, amounts, limits and        *)
(* bounds, and every interleaving of the calls' reads and commits with each    *)
(* other and with other services' events.                                      *)
(***************************************************************************)
EXTENDS BudgetLedger, TLAPS

\* What a call holds is current as long as no event was recorded since it began.
CallCurrent(c) ==
  /\ call[c].step # "idle" => Proceeds(call[c].op, call[c].row, call[c].amount)
  /\ call[c].step \in {"reservation", "ledger"} =>
       /\ call[c].began <= sequence
       /\ call[c].began = sequence => call[c].row = reservations[call[c].key]
  /\ call[c].step = "ledger" /\ call[c].began = sequence => call[c].ledger = ledger
  /\ call[c].step = "run" =>
       /\ call[c].sequence <= sequence
       /\ call[c].began = call[c].sequence /\ call[c].sequence = sequence =>
            call[c].row = reservations[call[c].key] /\ call[c].ledger = ledger

CallsCurrent == \A c \in Clients : CallCurrent(c)

\* The ledger a call read was within the limit, column by column.
ReadsWithinLimit ==
  \A c \in Clients : call[c].step \in {"ledger", "run"} =>
    call[c].ledger.used <= Limit /\ call[c].ledger.reserved <= Limit

\* The inductive invariant.
Inv == BudgetConstants /\ TypeOK /\ CallsCurrent /\ ColumnsWithinLimit /\ ReadsWithinLimit

LEMMA InitInv == BudgetConstants /\ Init => Inv
<1> SUFFICES ASSUME BudgetConstants, Init PROVE Inv
  BY Zenon
<1> USE DEF BudgetConstants
<1>1. TypeOK
  BY Zenon DEF Init, TypeOK, Ledger, Reservation, ReservationState, Call
<1>2. CallsCurrent /\ ReadsWithinLimit
  BY Zenon DEF Init, CallsCurrent, CallCurrent, ReadsWithinLimit, Idle
<1>3. ColumnsWithinLimit
  BY DEF Init, ColumnsWithinLimit
<1> QED
  BY <1>1, <1>2, <1>3, Zenon DEF Inv

\* The fields a call holds at each of its steps.
LEMMA CallFields ==
  ASSUME BudgetConstants, TypeOK, NEW c \in Clients, call[c].step # "idle"
  PROVE  /\ call[c].key \in Keys
         /\ call[c].amount \in Nat
         /\ call[c].row \in Reservation
         /\ call[c].began \in Nat
         /\ call[c].step \in {"reservation", "ledger", "run"}
         /\ call[c].step \in {"ledger", "run"} => call[c].ledger \in Ledger
         /\ call[c].step = "run" => call[c].sequence \in Nat
<1>1. call[c] \in Call /\ call[c] # Idle
  BY DEF TypeOK, Idle
<1>2. CASE call[c].step = "reservation"
  BY <1>1, <1>2, Zenon DEF Call, BudgetConstants
<1>3. CASE call[c].step = "ledger"
  BY <1>1, <1>3, Zenon DEF Call, BudgetConstants
<1>4. CASE call[c].step = "run"
  BY <1>1, <1>4, Zenon DEF Call, BudgetConstants
<1> QED
  BY <1>1, <1>2, <1>3, <1>4, Zenon DEF Call

\* A call that is left alone while an event is recorded no longer has the current number.
LEMMA OthersKeep ==
  ASSUME BudgetConstants, TypeOK, CallsCurrent, NEW d \in Clients, call'[d] = call[d],
         sequence' = sequence + 1
  PROVE  CallCurrent(d)'
<1>1. CASE call[d].step = "idle"
  BY <1>1, Zenon DEF CallCurrent
<1>2. CASE call[d].step # "idle"
  <2>1. /\ CallCurrent(d) /\ sequence \in Nat /\ call[d].began \in Nat
        /\ call[d].step = "run" => call[d].sequence \in Nat
    BY <1>2, CallFields, Zenon DEF TypeOK, CallsCurrent
  <2>2. Proceeds(call[d].op, call[d].row, call[d].amount)
    BY <1>2, <2>1, Zenon DEF CallCurrent
  <2>3. Proceeds(call'[d].op, call'[d].row, call'[d].amount)
    BY <2>2, Zenon
  <2>4. call[d].step \in {"reservation", "ledger"} =>
          call[d].began <= sequence' /\ call[d].began # sequence'
    BY <2>1 DEF CallCurrent
  <2>5. call[d].step = "run" => call[d].sequence <= sequence' /\ call[d].sequence # sequence'
    BY <2>1 DEF CallCurrent
  <2> QED
    BY <2>3, <2>4, <2>5, Zenon DEF CallCurrent
<1> QED
  BY <1>1, <1>2, Zenon

\* A commit returns its own call and leaves every other call with an old number.
LEMMA CommitKeepsCalls ==
  ASSUME BudgetConstants, TypeOK, CallsCurrent, ReadsWithinLimit, NEW c \in Clients, Return(c),
         sequence' = sequence + 1
  PROVE  CallsCurrent' /\ ReadsWithinLimit'
<1>1. ASSUME NEW d \in Clients PROVE call'[d] = Idle \/ call'[d] = call[d]
  BY Zenon DEF TypeOK, Return
<1>2. ASSUME NEW d \in Clients PROVE CallCurrent(d)'
  <2>1. CASE call'[d] = Idle
    <3>1. call'[d].step = "idle"
      BY <2>1 DEF Idle
    <3> QED
      BY <3>1 DEF CallCurrent
  <2>2. CASE call'[d] = call[d]
    BY <2>2, OthersKeep, Zenon
  <2> QED
    BY <1>1, <2>1, <2>2, Zenon
<1>3. ReadsWithinLimit'
  BY <1>1 DEF ReadsWithinLimit, Idle
<1> QED
  BY <1>2, <1>3, Zenon DEF CallsCurrent

\* reserve writes a reserved column that it checked, or leaves the one that is there.
LEMMA ReserveKeeps ==
  ASSUME Inv, NEW c \in Clients, CommitReserve(c)
  PROVE  Inv'
<1> DEFINE read == call[c].ledger
<1>1. /\ call[c].step = "run" /\ call[c].key \in Keys /\ call[c].amount \in Nat
      /\ read \in Ledger /\ ledger \in Ledger /\ Limit \in Nat /\ sequence \in Nat
  BY CallFields, Zenon DEF Inv, BudgetConstants, TypeOK, CommitReserve
<1>2. /\ read.used + read.reserved + call[c].amount <= Limit
      /\ ledger'.used = ledger.used
      /\ ledger'.reserved \in {ledger.reserved, read.reserved + call[c].amount}
      /\ ledger' = [used |-> ledger'.used, reserved |-> ledger'.reserved]
  BY Zenon DEF CommitReserve, FitsLimit, SetLedger, Written
<1>3. sequence' = sequence + 1 /\ Return(c)
  BY Zenon DEF CommitReserve, EventInserted
<1>4. /\ ledger' \in Ledger
      /\ ColumnsWithinLimit'
  BY <1>1, <1>2 DEF Inv, Ledger, ColumnsWithinLimit
<1>5. TypeOK'
  BY <1>1, <1>3, <1>4 DEF Inv, TypeOK, Reservation, ReservationState, Call,
     CommitReserve, SetReservation, Return
<1> QED
  BY <1>3, <1>4, <1>5, CommitKeepsCalls, Zenon DEF Inv

\* complete writes two columns whose sum it checked.
LEMMA CompleteKeeps ==
  ASSUME Inv, NEW c \in Clients, CommitComplete(c)
  PROVE  Inv'
<1> DEFINE read == call[c].ledger
           e == call[c].row.estimated
<1>1. /\ call[c].step = "run" /\ call[c].key \in Keys /\ call[c].amount \in Nat
      /\ read \in Ledger /\ ledger \in Ledger /\ Limit \in Nat /\ sequence \in Nat
      /\ call[c].row \in Reservation
  BY CallFields, Zenon DEF Inv, BudgetConstants, TypeOK, CommitComplete
<1>2. /\ e <= read.reserved
      /\ read.used + call[c].amount + (read.reserved - e) <= Limit
      /\ ledger'.used \in {ledger.used, read.used + call[c].amount}
      /\ ledger'.reserved \in {ledger.reserved, read.reserved - e}
      /\ ledger' = [used |-> ledger'.used, reserved |-> ledger'.reserved]
  BY Zenon DEF CommitComplete, SetLedger, Written
<1>3. sequence' = sequence + 1 /\ Return(c)
  BY Zenon DEF CommitComplete, EventInserted
<1>4. ledger' \in Ledger /\ ColumnsWithinLimit'
  BY <1>1, <1>2 DEF Inv, Ledger, Reservation, ColumnsWithinLimit
<1>5. TypeOK'
  BY <1>1, <1>3, <1>4 DEF Inv, TypeOK, Reservation, ReservationState, Call,
     CommitComplete, SetReservation, Return
<1> QED
  BY <1>3, <1>4, <1>5, CommitKeepsCalls, Zenon DEF Inv

\* release writes less than the reserved column it read, which was within the limit.
LEMMA ReleaseKeeps ==
  ASSUME Inv, NEW c \in Clients, CommitRelease(c)
  PROVE  Inv'
<1> DEFINE read == call[c].ledger
           e == call[c].row.estimated
<1>1. /\ call[c].step = "run" /\ call[c].key \in Keys
      /\ read \in Ledger /\ ledger \in Ledger /\ Limit \in Nat /\ sequence \in Nat
      /\ call[c].row \in Reservation /\ read.reserved <= Limit
  BY CallFields, Zenon DEF Inv, BudgetConstants, TypeOK, ReadsWithinLimit, CommitRelease
<1>2. /\ e <= read.reserved
      /\ ledger'.used = ledger.used
      /\ ledger'.reserved \in {ledger.reserved, read.reserved - e}
      /\ ledger' = [used |-> ledger'.used, reserved |-> ledger'.reserved]
  BY Zenon DEF CommitRelease, SetLedger, Written
<1>3. sequence' = sequence + 1 /\ Return(c)
  BY Zenon DEF CommitRelease, EventInserted
<1>4. ledger' \in Ledger /\ ColumnsWithinLimit'
  BY <1>1, <1>2 DEF Inv, Ledger, Reservation, ColumnsWithinLimit
<1>5. TypeOK'
  BY <1>1, <1>3, <1>4 DEF Inv, TypeOK, Reservation, ReservationState, Call,
     CommitRelease, SetReservation, Return
<1> QED
  BY <1>3, <1>4, <1>5, CommitKeepsCalls, Zenon DEF Inv

\* observe and hold leave the ledger alone.
LEMMA UnguardedKeeps ==
  ASSUME Inv, NEW c \in Clients, CommitUnguarded(c)
  PROVE  Inv'
<1>1. /\ call[c].key \in Keys /\ call[c].amount \in Nat /\ sequence \in Nat
      /\ sequence' = sequence + 1 /\ Return(c) /\ ledger' = ledger
  BY CallFields, Zenon DEF Inv, TypeOK, CommitUnguarded
<1>2. TypeOK'
  BY <1>1 DEF Inv, TypeOK, Reservation, ReservationState, Call, CommitUnguarded,
     SetReservation, Return
<1>3. ColumnsWithinLimit'
  BY <1>1, Zenon DEF Inv, ColumnsWithinLimit
<1> QED
  BY <1>1, <1>2, <1>3, CommitKeepsCalls, Zenon DEF Inv

\* Steps that only read touch nothing but the caller's own snapshot.
LEMMA ReadKeeps ==
  ASSUME Inv, NEW c \in Clients,
         Begin(c) \/ ReadLedger(c) \/ ReadRun(c) \/ Rollback(c)
  PROVE  Inv'
<1> DEFINE Within(r) == r.step \in {"ledger", "run"} =>
                          r.ledger.used <= Limit /\ r.ledger.reserved <= Limit
<1>1. UNCHANGED <<ledger, reservations, sequence>>
  BY Zenon DEF Begin, ReadReservation, ReadLedger, ReadRun, Rollback
<1>2. ColumnsWithinLimit' /\ ledger' \in Ledger /\ sequence' \in Nat
      /\ reservations' \in [Keys -> Reservation]
  BY <1>1, Zenon DEF Inv, TypeOK, ColumnsWithinLimit
<1>3. ASSUME NEW v \in Call, call' = [call EXCEPT ![c] = v], CallCurrent(c)', Within(v)
      PROVE  Inv'
  <2>1. \A d \in Clients : d # c => call'[d] = call[d]
    BY <1>3, Zenon DEF Inv, TypeOK
  <2>2. ASSUME NEW d \in Clients, d # c PROVE CallCurrent(d)'
    <3>1. CallCurrent(d) /\ call'[d] = call[d]
      BY <2>1, <2>2, Zenon DEF Inv, CallsCurrent
    <3>2. Proceeds(call[d].op, call[d].row, call[d].amount)
            <=> Proceeds(call'[d].op, call'[d].row, call'[d].amount)
      BY <3>1, Zenon
    <3> QED
      BY <1>1, <3>1, <3>2, Zenon DEF CallCurrent
  <2>3. call' \in [Clients -> Call] /\ call'[c] = v
    BY <1>3, Zenon DEF Inv, TypeOK
  <2>4. ReadsWithinLimit'
    BY <1>3, <2>1, <2>3, Zenon DEF Inv, ReadsWithinLimit
  <2> QED
    BY <1>2, <1>3, <2>2, <2>3, <2>4, Zenon DEF Inv, TypeOK, CallsCurrent
<1>4. CASE Begin(c)
  <2> PICK op \in LedgerOps \cup {"observe", "hold"}, k \in Keys, amount \in Amounts :
             ReadReservation(c, op, k, amount)
    BY <1>4, Zenon DEF Begin
  <2>1. reservations[k] \in Reservation /\ sequence \in Nat
    BY Zenon DEF Inv, TypeOK
  <2> DEFINE v == [step |-> "reservation", op |-> op, key |-> k, amount |-> amount,
                   row |-> reservations[k], began |-> sequence]
  <2>2. v \in Call /\ call' = [call EXCEPT ![c] = v] /\ Within(v)
    BY <2>1, Zenon DEF ReadReservation, Call
  <2>3. call'[c] = v
    BY <2>2, Zenon DEF Inv, TypeOK
  <2>4. Proceeds(call'[c].op, call'[c].row, call'[c].amount)
    BY <2>3 DEF ReadReservation
  <2>5. CallCurrent(c)'
    BY <1>1, <2>1, <2>3, <2>4 DEF CallCurrent
  <2> QED
    BY <1>3, <2>2, <2>5, Zenon
<1>5. CASE ReadLedger(c)
  <2> DEFINE v == [step |-> "ledger", op |-> call[c].op, key |-> call[c].key,
                   amount |-> call[c].amount, row |-> call[c].row,
                   began |-> call[c].began, ledger |-> ledger]
  <2>1. call[c] \in Call /\ call[c].step = "reservation" /\ call[c].op \in LedgerOps
    BY <1>5, Zenon DEF Inv, TypeOK, ReadLedger
  <2>2. v \in Call /\ call' = [call EXCEPT ![c] = v]
    BY <1>5, <2>1 DEF Inv, TypeOK, Call, Idle, ReadLedger
  <2>3. call'[c] = v /\ CallCurrent(c) /\ Within(v)
    BY <2>2, Zenon DEF Inv, TypeOK, CallsCurrent, ColumnsWithinLimit
  <2>4. Proceeds(call'[c].op, call'[c].row, call'[c].amount)
    BY <2>1, <2>3 DEF CallCurrent
  <2>5. CallCurrent(c)'
    BY <1>1, <2>1, <2>3, <2>4 DEF CallCurrent
  <2> QED
    BY <1>3, <2>2, <2>3, <2>5, Zenon
<1>6. CASE ReadRun(c)
  <2> DEFINE v == [step |-> "run", op |-> call[c].op, key |-> call[c].key,
                   amount |-> call[c].amount, row |-> call[c].row,
                   began |-> call[c].began, ledger |-> call[c].ledger,
                   sequence |-> sequence]
  <2>1. call[c] \in Call /\ call[c].step = "ledger"
    BY <1>6, Zenon DEF Inv, TypeOK, ReadRun
  <2>2. v \in Call /\ call' = [call EXCEPT ![c] = v]
    BY <1>6, <2>1 DEF Inv, TypeOK, Call, Idle, ReadRun
  <2>3. call'[c] = v /\ CallCurrent(c) /\ sequence \in Nat /\ Within(v)
    BY <2>1, <2>2, Zenon DEF Inv, TypeOK, CallsCurrent, ReadsWithinLimit
  <2>4. Proceeds(call'[c].op, call'[c].row, call'[c].amount)
    BY <2>1, <2>3 DEF CallCurrent
  <2>5. CallCurrent(c)'
    BY <1>1, <2>1, <2>3, <2>4 DEF CallCurrent
  <2> QED
    BY <1>3, <2>2, <2>3, <2>5, Zenon
<1>7. CASE Rollback(c)
  <2>1. Idle \in Call /\ call' = [call EXCEPT ![c] = Idle] /\ Within(Idle)
    BY <1>7, Zenon DEF Rollback, Return, Call, Idle
  <2>2. CallCurrent(c)'
    BY <2>1, Zenon DEF Inv, TypeOK, CallCurrent, Idle
  <2> QED
    BY <1>3, <2>1, <2>2, Zenon
<1> QED
  BY <1>4, <1>5, <1>6, <1>7, Zenon

LEMMA NextInv == Inv /\ [Next]_vars => Inv'
<1> SUFFICES ASSUME Inv, [Next]_vars PROVE Inv'
  BY Zenon
<1>1. CASE OtherEvent
  <2>1. UNCHANGED <<ledger, reservations, call>> /\ sequence' = sequence + 1
        /\ sequence \in Nat
    BY <1>1, Zenon DEF OtherEvent, Inv, TypeOK
  <2>2. ASSUME NEW d \in Clients PROVE CallCurrent(d)'
    BY <2>1, OthersKeep, Zenon DEF Inv
  <2>3. TypeOK' /\ ColumnsWithinLimit' /\ ReadsWithinLimit'
    BY <2>1 DEF Inv, TypeOK, ColumnsWithinLimit, ReadsWithinLimit
  <2> QED
    BY <2>2, <2>3, Zenon DEF Inv, CallsCurrent
<1>2. CASE UNCHANGED vars
  <2>1. UNCHANGED <<ledger, reservations, sequence, call>>
    BY <1>2, Zenon DEF vars
  <2>2. ASSUME NEW d \in Clients PROVE CallCurrent(d)'
    <3>1. CallCurrent(d)
      BY Zenon DEF Inv, CallsCurrent
    <3>2. Proceeds(call[d].op, call[d].row, call[d].amount)
            <=> Proceeds(call'[d].op, call'[d].row, call'[d].amount)
      BY <2>1, Zenon
    <3> QED
      BY <2>1, <3>1, <3>2, Zenon DEF CallCurrent
  <2> QED
    BY <2>1, <2>2, Zenon DEF Inv, TypeOK, ColumnsWithinLimit, ReadsWithinLimit, CallsCurrent
<1> QED
  BY <1>1, <1>2, ReadKeeps, ReserveKeeps, CompleteKeeps, ReleaseKeeps, UnguardedKeeps, Zenon
  DEF Next, Commit

\* Type correctness of the ledger, the reservations and the calls in flight: no sum
\* underflows.
THEOREM TypeCorrect ==
  ASSUME BudgetConstants
  PROVE  Spec => []TypeOK
<1>1. Inv => TypeOK
  BY Zenon DEF Inv
<1> QED
  BY <1>1, InitInv, NextInv, PTL DEF Spec

\* Whatever overlaps, neither column of the ledger passes the run's limit
\* (BudgetService.reserve, complete and release).
THEOREM ColumnsStayWithinLimit ==
  ASSUME BudgetConstants
  PROVE  Spec => []ColumnsWithinLimit
<1>1. Inv => ColumnsWithinLimit
  BY Zenon DEF Inv
<1> QED
  BY <1>1, InitInv, NextInv, PTL DEF Spec

\* A call that commits on reads of one moment commits on the current rows: the event
\* number it inserts is the one after the row it read last.
LEMMA UntornIsCurrent ==
  ASSUME Inv, NEW c \in Clients, call[c].step # "idle", call'[c] = Idle, ~TornCallEnds,
         call[c].step = "run" => call[c].sequence = sequence
  PROVE  /\ call[c].row = reservations[call[c].key]
         /\ call[c].step = "run" => call[c].ledger = ledger
         /\ Proceeds(call[c].op, call[c].row, call[c].amount)
<1>1. ~TornReads(c)
  BY DEF TornCallEnds, Idle
<1>2. CallCurrent(c) /\ call[c].step \in {"reservation", "ledger", "run"}
  BY CallFields, Zenon DEF Inv, CallsCurrent
<1>3. CASE call[c].step = "run"
  BY <1>1, <1>2, <1>3 DEF TornReads, CallCurrent
<1>4. CASE call[c].step # "run"
  BY <1>1, <1>2, <1>4, Zenon DEF TornReads, CallCurrent
<1> QED
  BY <1>3, <1>4, Zenon

\* A step that does not commit leaves the ledger and the reservations alone.
LEMMA OnlyCommitsWrite ==
  ASSUME [Next]_vars, \A c \in Clients : ~Commit(c)
  PROVE  UNCHANGED <<ledger, reservations>>
BY Zenon DEF Next, Begin, ReadReservation, ReadLedger, ReadRun, Rollback, OtherEvent, vars

\* The run's limit is passed only by the commit of a call whose reads an event tore apart
\* (BudgetService.reserve and complete check the limit on the ledger they read).
THEOREM LimitHolds ==
  ASSUME BudgetConstants
  PROVE  Spec => LimitLostByTornReads
<1>1. ASSUME Inv, [Next]_vars, WithinLimit, ~TornCallEnds
      PROVE  WithinLimit'
  <2> USE <1>1
  <2>0. ledger.used \in Nat /\ ledger.reserved \in Nat /\ Limit \in Nat
    BY Zenon DEF Inv, BudgetConstants, TypeOK, Ledger
  <2>1. ASSUME NEW c \in Clients, Return(c) PROVE call'[c] = Idle
    BY <2>1, Zenon DEF Inv, TypeOK, Return
  <2>2. ASSUME NEW c \in Clients, CommitReserve(c) PROVE WithinLimit'
    <3>1. call[c].ledger = ledger /\ call[c].amount \in Nat
      BY <2>1, <2>2, UntornIsCurrent, CallFields, Zenon
      DEF Inv, CommitReserve, EventInserted
    <3>2. /\ ledger.used + ledger.reserved + call[c].amount <= Limit
          /\ ledger'.used = ledger.used
          /\ ledger'.reserved \in {ledger.reserved, ledger.reserved + call[c].amount}
      BY <2>2, <3>1, Zenon DEF CommitReserve, FitsLimit, SetLedger, Written
    <3> QED
      BY <2>0, <3>1, <3>2 DEF WithinLimit
  <2>3. ASSUME NEW c \in Clients, CommitComplete(c) PROVE WithinLimit'
    <3>1. call[c].ledger = ledger /\ call[c].amount \in Nat
          /\ call[c].row.estimated \in Nat
      BY <2>1, <2>3, UntornIsCurrent, CallFields, Zenon
      DEF Inv, Reservation, CommitComplete, EventInserted
    <3>2. /\ ledger.used + call[c].amount + (ledger.reserved - call[c].row.estimated) <= Limit
          /\ ledger' = [used |-> ledger.used + call[c].amount,
                        reserved |-> ledger.reserved - call[c].row.estimated]
      BY <2>3, <3>1, Zenon DEF CommitComplete, SetLedger, Written
    <3> QED
      BY <3>2, Zenon DEF WithinLimit
  <2>4. ASSUME NEW c \in Clients, CommitRelease(c) PROVE WithinLimit'
    <3>1. call[c].ledger = ledger /\ call[c].row.estimated \in Nat
      BY <2>1, <2>4, UntornIsCurrent, CallFields, Zenon
      DEF Inv, Reservation, CommitRelease, EventInserted
    <3>2. ledger' = [used |-> ledger.used, reserved |-> ledger.reserved - call[c].row.estimated]
      BY <2>4, <3>1, Zenon DEF CommitRelease, SetLedger, Written
    <3> QED
      BY <2>0, <3>1, <3>2 DEF WithinLimit
  <2>5. ASSUME NEW c \in Clients, CommitUnguarded(c) PROVE WithinLimit'
    BY <2>5, Zenon DEF CommitUnguarded, WithinLimit
  <2>6. ASSUME \A c \in Clients : ~Commit(c) PROVE WithinLimit'
    BY <2>6, OnlyCommitsWrite, Zenon DEF WithinLimit
  <2> QED
    BY <2>2, <2>3, <2>4, <2>5, <2>6, Zenon DEF Commit
<1>2. Inv /\ [Next]_vars => [LimitLossIsTorn]_vars
  BY <1>1, Zenon DEF LimitLossIsTorn
<1> QED
  BY <1>2, InitInv, NextInv, PTL DEF Spec, LimitLostByTornReads

\* A completed or released reservation is changed only by the commit of a call whose reads
\* an event tore apart: any other retry of complete, release, observe or hold finds it
\* settled.
THEOREM SettledHolds ==
  ASSUME BudgetConstants
  PROVE  Spec => SettledLostByTornReads
<1>1. ASSUME Inv, [Next]_vars, ~TornCallEnds, NEW k \in Keys,
             reservations[k].state \in {"completed", "released"}
      PROVE  reservations'[k] = reservations[k]
  <2> USE <1>1
  <2>1. ASSUME NEW c \in Clients, NEW r, SetReservation(call[c].key, r),
               reservations[call[c].key].state \in {"none", "reserved", "held"}
        PROVE  reservations'[k] = reservations[k]
    BY <2>1, Zenon DEF Inv, TypeOK, SetReservation
  <2>2. ASSUME NEW c \in Clients, CommitReserve(c)
        PROVE  reservations'[k] = reservations[k]
    BY <2>1, <2>2, Zenon DEF CommitReserve
  <2>3. ASSUME NEW c \in Clients, Return(c), call[c].step # "idle",
               call[c].step = "run" => call[c].sequence = sequence,
               call[c].op \in {"complete", "release", "observe", "hold"}
        PROVE  reservations[call[c].key].state \in {"none", "reserved", "held"}
    <3>1. call'[c] = Idle
      BY <2>3, Zenon DEF Inv, TypeOK, Return
    <3>2. /\ call[c].row = reservations[call[c].key]
          /\ Proceeds(call[c].op, call[c].row, call[c].amount)
      BY <2>3, <3>1, UntornIsCurrent, Zenon
    <3> QED
      BY <2>3, <3>2, Zenon DEF Proceeds, Active
  <2>4. ASSUME NEW c \in Clients, CommitComplete(c)
        PROVE  reservations'[k] = reservations[k]
    BY <2>1, <2>3, <2>4, Zenon DEF CommitComplete, EventInserted
  <2>5. ASSUME NEW c \in Clients, CommitRelease(c)
        PROVE  reservations'[k] = reservations[k]
    BY <2>1, <2>3, <2>5, Zenon DEF CommitRelease, EventInserted
  <2>6. ASSUME NEW c \in Clients, CommitUnguarded(c)
        PROVE  reservations'[k] = reservations[k]
    BY <2>1, <2>3, <2>6, Zenon DEF CommitUnguarded
  <2>7. ASSUME \A c \in Clients : ~Commit(c) PROVE reservations'[k] = reservations[k]
    BY <2>7, OnlyCommitsWrite, Zenon
  <2> QED
    BY <2>2, <2>4, <2>5, <2>6, <2>7, Zenon DEF Commit
<1>2. Inv /\ [Next]_vars =>
        [(\E k \in Keys : /\ reservations[k].state \in {"completed", "released"}
                          /\ reservations'[k] # reservations[k]) => TornCallEnds]_vars
  BY <1>1, Zenon
<1> QED
  BY <1>2, InitInv, NextInv, PTL DEF Spec, SettledLostByTornReads
=============================================================================
