\* The lane under its guarded transitions; calls return (no symmetry: liveness).
SPECIFICATION FairSpec
CONSTANTS
  None = None
  Callers = {p1, p2, p3}
  Clauses = {c1}
  Redlines = {r1, r2}
  Bodies = {b1, b2}
  InitBody = b1
  InitLanes = {"SHARED"}
  Ops = {"propose", "reject", "counter", "agree", "ready", "sign"}
  MaxVersion = 2
  MaxFaults = 1
PROPERTIES
  LaneFollowsMap
  CallsReturn
\* All ids used and the lane at its end: nothing is left to call.
CHECK_DEADLOCK FALSE
