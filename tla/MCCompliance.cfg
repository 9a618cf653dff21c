\* Runs and polls of two checks overlap; calls throw or die.
SPECIFICATION FairSpec
CONSTANTS
  None = None
  Window = Window
  Callers = {p1, p2}
  Checks = {c1}
  Capacity = 1
  MaxFaults = 2
INVARIANTS
  TypeOK
  ChargedRunsDelivered
  RefundedRunsDeliverNothing
  ReservationsHaveOwners
PROPERTIES
  VerdictIsFinal
  ExtractionSettles
\* Every check ends; nothing is left to run or to poll.
CHECK_DEADLOCK FALSE
