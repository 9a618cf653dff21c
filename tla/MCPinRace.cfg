\* An accept races the pin: the comment in accept against the code.
SPECIFICATION Spec
CONSTANTS
  None = None
  Callers = {p1, p2}
  Clauses = {c1}
  Redlines = {r1}
  Bodies = {b1, b2}
  InitBody = b1
  InitLanes = {"DRAFT"}
  Ops = {"propose", "accept", "sign"}
  MaxVersion = 2
  MaxFaults = 0
INVARIANTS
  PinFreezesText
\* All ids used and the lane at its end: nothing is left to call.
CHECK_DEADLOCK FALSE
