\* Two callers decide the redlines of one clause, share the contract and sign it.
SPECIFICATION Spec
CONSTANTS
  None = None
  Callers = {p1, p2}
  Clauses = {c1}
  Redlines = {r1, r2}
  Bodies = {b1, b2}
  InitBody = b1
  InitLanes = {"DRAFT"}
  Ops = {"propose", "accept", "reject", "withdraw", "counter", "edit", "share", "sign"}
  MaxVersion = 3
  MaxFaults = 1
SYMMETRY Symmetry
INVARIANTS
  TypeOK
  PinnedRowsAreLive
  LinearHistory
  AcceptedIsPromoted
  CounteredHasOneChild
  NoCircularWait
PROPERTIES
  DecisionsAreFinal
  SignedStaysSettled
\* All ids used and the lane at its end: nothing is left to call.
CHECK_DEADLOCK FALSE
