\* Two runs overlap, each with two pollers, while a person works on the rows;
\* one statement throws or one process dies.
SPECIFICATION FairSpec
CONSTANTS
  None = None
  Window = Window
  Finalizes = {f1, f2}
  Humans = {h1}
  Findings = 1
  Capacity = 2
  MaxCalls = 2
  MaxFaults = 1
INVARIANTS
  TypeOK
  RefundedRunsSaveNothing
PROPERTIES
  RunsSettle
  HumanWorkSurvives
\* Every run ends; nothing is left to do.
CHECK_DEADLOCK FALSE
