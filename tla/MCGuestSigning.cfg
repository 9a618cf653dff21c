\* A guest with two slips or two guests with one each: two guest requests and one
\* of a host share three connections, and one of them may die.
SPECIFICATION FairSpec
CONSTANTS
  None = None
  Callers = {p1, p2, p3}
  Hosts = {p3}
  Guests = {g1, g2}
  Slips = {s1, s2}
  PoolSize = 3
  MaxFaults = 1
INVARIANTS
  TypeOK
  ExecutedSlipsNameThePin
  VoidOrExecute
PROPERTIES
  RevokedGuestsSignNothing
  CallsReturn
\* Every slip is used up; nothing is left to do.
CHECK_DEADLOCK FALSE
