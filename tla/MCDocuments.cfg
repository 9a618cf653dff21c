\* A browser and the driver move one document; it is edited or reprocessed, or
\* a call throws or dies; the contract is signed at any time.
SPECIFICATION FairSpec
CONSTANTS
  None = None
  Window = Window
  Driver = Driver
  Callers = {p1}
  Documents = {1}
  Keys = {k1, k2}
  Capacity = 1
  MaxUpsets = 1
  MaxJobs = 2
INVARIANTS
  TypeOK
  ClausesWrittenOnce
  OneClauseJob
  ChargedUploadsDelivered
  RefundedUploadsDeliverNothing
  ReservationsHaveOwners
PROPERTIES
  TerminalIsFinal
  SignedClausesStay
  NothingIsStuck
\* Every document ends; nothing is left to run or to poll.
CHECK_DEADLOCK FALSE
