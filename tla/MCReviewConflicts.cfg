\* One run on its own: its two pollers against the comment on the clear.
SPECIFICATION Spec
CONSTANTS
  None = None
  Window = Window
  Finalizes = {f1}
  Humans = {h1}
  Findings = 2
  Capacity = 1
  MaxCalls = 1
  MaxFaults = 0
PROPERTIES
  RunsKeepTheirConflicts
\* Every run ends; nothing is left to do.
CHECK_DEADLOCK FALSE
