\* Two callers and the sweeper race for the capacity of one window; a meter that
\* fails open hands out the all-zero reservation.
SPECIFICATION Spec
CONSTANTS
  Unset = Unset
  NoOpKey = NoOpKey
  Workers = {w1, w2}
  Sweepers = {s1}
  Keys = {k1, k2}
  Windows = {m1}
  Amounts = {1, 2}
  Limits = {1}
  DefaultLimit = 2
  FailOpen = TRUE
  BatchSize = 1
  MaxFaults = 1
SYMMETRY Symmetry
INVARIANTS
  TypeOK
  BalanceMatchesLedger
  LosersAreInformed
PROPERTIES
  ImplementsQuota
