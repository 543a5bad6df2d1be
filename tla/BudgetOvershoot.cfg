CONSTANTS
  Clients = {c1, c2}
  Keys = {k1, k2}
  Amounts = {0, 1, 2}
  Limit = 3
  MaxEvents = 7
CHECK_DEADLOCK FALSE
SPECIFICATION Spec
INVARIANT ReservationsWithinLimit
