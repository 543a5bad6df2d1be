---------------------------- MODULE BudgetLedger ----------------------------
(***************************************************************************)
(* BudgetService: one run's budget ledger and its reservations, under        *)
(* concurrent service calls.  A call reads its reservation, then the ledger,  *)
(* then the run row, each in a read of its own (the driver opens no           *)
(* transaction before the first write), and commits one write that fails if   *)
(* the event number after the run row it read is taken.                       *)
(*                                                                            *)
(* began is a history field: the run's event number at the call's first read.  *)
(* It tells the calls whose reads are torn by an event from those whose reads  *)
(* are of one moment, and no guard looks at it.                                *)
(*                                                                            *)
(* Usage has ten dimensions that the code adds and compares one by one; the   *)
(* model has one.                                                             *)
(***************************************************************************)
EXTENDS Naturals, FiniteSetsExt

CONSTANTS
  Clients,        \* concurrent service calls on the ledger
  Keys,           \* activity keys: a run has at most one reservation of each
  Amounts,        \* estimates and actual usage a caller may report
  Limit,          \* BudgetSpec of the run
  MaxEvents       \* bound on the event sequence, for model checking only

\* What the theorems assume of the constants.
BudgetConstants ==
  /\ Amounts \subseteq Nat
  /\ Limit \in Nat
  /\ MaxEvents \in Nat

VARIABLES
  ledger,        \* BudgetLedgerRow: used, reserved
  reservations,  \* BudgetReservationRow per key; state "none" before the insert
  sequence,      \* RunRow.event_sequence
  call           \* what each client has read so far

vars == <<ledger, reservations, sequence, call>>

Ledger == [used : Nat, reserved : Nat]

ReservationState == {"none", "reserved", "held", "completed", "released"}

\* actual is the reported usage; 0 while actual_json is null.
Reservation == [state : ReservationState, estimated : Nat, actual : Nat]

Active == {"reserved", "held"}

Idle == [step |-> "idle"]

LedgerOps == {"reserve", "complete", "release"}

Call ==
  {Idle}
    \cup [step : {"reservation"}, op : LedgerOps \cup {"observe", "hold"}, key : Keys,
          amount : Amounts, row : Reservation, began : Nat]
    \cup [step : {"ledger"}, op : LedgerOps, key : Keys, amount : Amounts,
          row : Reservation, began : Nat, ledger : Ledger]
    \cup [step : {"run"}, op : LedgerOps, key : Keys, amount : Amounts,
          row : Reservation, began : Nat, ledger : Ledger, sequence : Nat]

\* Every row, file and call in flight has its type (the rows of BudgetService: no sum underflows).
TypeOK ==
  /\ ledger \in Ledger
  /\ reservations \in [Keys -> Reservation]
  /\ sequence \in Nat
  /\ call \in [Clients -> Call]

Init ==
  /\ ledger = [used |-> 0, reserved |-> 0]
  /\ reservations = [k \in Keys |-> [state |-> "none", estimated |-> 0, actual |-> 0]]
  /\ sequence = 3
  /\ call = [c \in Clients |-> Idle]
-----------------------------------------------------------------------------
ProceedsAgain(op, row, amount) ==
  CASE op = "reserve" -> row.state = "none"
    [] op \in {"complete", "release"} -> row.state # "none"
    [] op = "observe" ->
         row.state \in Active /\ row.actual <= amount /\ amount <= row.estimated
    [] op = "hold" -> row.state = "reserved"

\* The checks each operation makes on the reservation it read.  When they fail the
\* call returns the prior outcome or raises, and changes nothing.
Proceeds(op, row, amount) ==
  CASE op = "reserve" -> row.state = "none"
    [] op \in {"complete", "release"} -> row.state \in Active
    [] op = "observe" ->
         row.state \in Active /\ row.actual <= amount /\ amount <= row.estimated
    [] op = "hold" -> row.state = "reserved"

\* First read of a call: the reservation of the activity key.
ReadReservation(c, op, k, amount) ==
  /\ call[c] = Idle
  /\ Proceeds(op, reservations[k], amount)
  /\ call' = [call EXCEPT ![c] =
       [step |-> "reservation", op |-> op, key |-> k, amount |-> amount,
        row |-> reservations[k], began |-> sequence]]
  /\ UNCHANGED <<ledger, reservations, sequence>>

\* Second read: the ledger row.
ReadLedger(c) ==
  /\ call[c].step = "reservation"
  /\ call[c].op \in LedgerOps
  /\ call' = [call EXCEPT ![c] =
       [step |-> "ledger", op |-> call[c].op, key |-> call[c].key,
        amount |-> call[c].amount, row |-> call[c].row, began |-> call[c].began,
        ledger |-> ledger]]
  /\ UNCHANGED <<ledger, reservations, sequence>>

\* Third read: the run row, whose event_sequence numbers the event to insert.
ReadRun(c) ==
  /\ call[c].step = "ledger"
  /\ call' = [call EXCEPT ![c] =
       [step |-> "run", op |-> call[c].op, key |-> call[c].key,
        amount |-> call[c].amount, row |-> call[c].row, began |-> call[c].began,
        ledger |-> call[c].ledger, sequence |-> sequence]]
  /\ UNCHANGED <<ledger, reservations, sequence>>

\* An UPDATE sets only the columns whose value the call changed.
Written(read, new, current) == IF new = read THEN current ELSE new

\* uq_events_run_sequence: the event of a call that read an old run row is refused.
EventInserted(c) ==
  /\ sequence < MaxEvents
  /\ call[c].sequence = sequence
  /\ sequence' = sequence + 1

Return(c) == call' = [call EXCEPT ![c] = Idle]

SetReservation(k, row) == reservations' = [reservations EXCEPT ![k] = row]

SetLedger(read, used, reserved) ==
  ledger' = [used |-> Written(read.used, used, ledger.used),
             reserved |-> Written(read.reserved, reserved, ledger.reserved)]

FitsLimitIgnoringUsed(l, amount) == l.reserved + amount <= Limit

\* reserve_usage, on the ledger the call read.
FitsLimit(l, amount) == l.used + l.reserved + amount <= Limit

\* reserve: insert the reservation (unique per activity key) and grow the reserved sum.
CommitReserve(c) ==
  LET k == call[c].key
      amount == call[c].amount
      read == call[c].ledger IN
    /\ call[c].step = "run" /\ call[c].op = "reserve"
    /\ FitsLimit(read, amount)
    /\ reservations[k].state = "none"
    /\ EventInserted(c)
    /\ SetReservation(k, [state |-> "reserved", estimated |-> amount, actual |-> 0])
    /\ SetLedger(read, read.used, read.reserved + amount)
    /\ Return(c)

\* complete: move the estimate out of reserved and the actual usage into used; refused
\* on underflow and when the result would not fit the limit.
CommitComplete(c) ==
  LET k == call[c].key
      amount == call[c].amount
      read == call[c].ledger
      estimated == call[c].row.estimated IN
    /\ call[c].step = "run" /\ call[c].op = "complete"
    /\ estimated <= read.reserved
    /\ read.used + amount + (read.reserved - estimated) <= Limit
    /\ EventInserted(c)
    /\ SetReservation(k, [state |-> "completed", estimated |-> reservations[k].estimated,
                          actual |-> amount])
    /\ SetLedger(read, read.used + amount, read.reserved - estimated)
    /\ Return(c)

\* release: give the estimate back; an observed usage stays on the row.
CommitRelease(c) ==
  LET k == call[c].key
      read == call[c].ledger
      estimated == call[c].row.estimated IN
    /\ call[c].step = "run" /\ call[c].op = "release"
    /\ estimated <= read.reserved
    /\ EventInserted(c)
    /\ SetReservation(k, [reservations[k] EXCEPT !.state = "released"])
    /\ SetLedger(read, read.used, read.reserved - estimated)
    /\ Return(c)

\* observe and hold_for_reconciliation write the reservation before they read the run
\* row, so that read is inside the write transaction and its event is never refused.
CommitUnguarded(c) ==
  LET k == call[c].key IN
    /\ call[c].step = "reservation" /\ call[c].op \in {"observe", "hold"}
    /\ sequence < MaxEvents
    /\ sequence' = sequence + 1
    /\ SetReservation(k, IF call[c].op = "hold"
                         THEN [reservations[k] EXCEPT !.state = "held"]
                         ELSE [reservations[k] EXCEPT !.actual = call[c].amount])
    /\ Return(c)
    /\ UNCHANGED ledger

\* A refused event, a budget or underflow error, a busy timeout or a crash.
Rollback(c) ==
  /\ call[c] # Idle
  /\ Return(c)
  /\ UNCHANGED <<ledger, reservations, sequence>>

\* Some other service call appends an event to the run.
OtherEvent ==
  /\ sequence < MaxEvents
  /\ sequence' = sequence + 1
  /\ UNCHANGED <<ledger, reservations, call>>

Begin(c) ==
  \E op \in LedgerOps \cup {"observe", "hold"}, k \in Keys, amount \in Amounts :
    ReadReservation(c, op, k, amount)

Commit(c) ==
  CommitReserve(c) \/ CommitComplete(c) \/ CommitRelease(c) \/ CommitUnguarded(c)

Next ==
  \/ \E c \in Clients : Begin(c) \/ ReadLedger(c) \/ ReadRun(c) \/ Commit(c) \/ Rollback(c)
  \/ OtherEvent

Spec == Init /\ [][Next]_vars
-----------------------------------------------------------------------------
\* What the completed reservations cost, and what the active ones still promise.
Charged ==
  MapThenSumSet(LAMBDA k : reservations[k].actual,
                {k \in Keys : reservations[k].state = "completed"})

Promised ==
  MapThenSumSet(LAMBDA k : reservations[k].estimated,
                {k \in Keys : reservations[k].state \in Active})

\* The two columns of the ledger are the sums they stand for: no reservation is charged
\* twice or lost.
LedgerBalances == ledger.used = Charged /\ ledger.reserved = Promised

\* What the ledger says is used and promised fits the limit.
WithinLimit == ledger.used + ledger.reserved <= Limit

\* An event fell between the reads of the call: for observe and hold, which read the run
\* row inside their write, between the one read and the write.
TornReads(c) ==
  call[c].began # IF call[c].step = "run" THEN call[c].sequence ELSE sequence

\* The step commits or gives up a call whose reads are torn.
TornCallEnds == \E c \in Clients : call[c] # Idle /\ call'[c] = Idle /\ TornReads(c)

(* The columns come apart from the reservations only when a call commits whose reads are
   torn: the event number refuses every call that read one moment and commits in another,
   a retried completion or release included (BudgetService, _append_run_event). *)
BalanceLossIsTorn == LedgerBalances /\ ~LedgerBalances' => TornCallEnds
BalanceLostByTornReads == [][BalanceLossIsTorn]_vars

(* The ledger passes the limit only when a call commits whose reads are torn: reserve and
   complete check the limit on the ledger they overwrite (reserve_usage, complete). *)
LimitLossIsTorn == WithinLimit /\ ~WithinLimit' => TornCallEnds
LimitLostByTornReads == [][LimitLossIsTorn]_vars

\* A completed or released reservation changes only when a call commits whose reads are
\* torn: a retry finds it settled.
SettledLostByTornReads ==
  [][(\E k \in Keys : /\ reservations[k].state \in {"completed", "released"}
                      /\ reservations'[k] # reservations[k]) => TornCallEnds]_vars

\* Torn or not, neither column of the ledger alone ever passes the limit: complete and
\* reserve check what they write, and release only subtracts.
ColumnsWithinLimit == ledger.used <= Limit /\ ledger.reserved <= Limit

(* What the reservation protocol promises: an activity is rejected if the hard limit would
   be exceeded, so what was charged and what is promised fit it (reserve). *)
ReservationsWithinLimit == Charged + Promised <= Limit
=============================================================================
