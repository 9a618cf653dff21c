\* A proposal races agree: the comment on applyTransition against the code.
SPECIFICATION Spec
CONSTANTS
  None = None
  Callers = {p1, p2}
  Clauses = {c1}
  Redlines = {r1, r2}
  Bodies = {b1, b2}
  InitBody = b1
  InitLanes = {"SHARED"}
  Ops = {"propose", "reject", "agree"}
  MaxVersion = 1
  MaxFaults = 0
INVARIANTS
  AgreedIsClear
\* All ids used and the lane at its end: nothing is left to call.
CHECK_DEADLOCK FALSE
