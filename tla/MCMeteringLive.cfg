\* Calls return and abandoned reservations are swept (no symmetry: liveness).
SPECIFICATION FairSpec
CONSTANTS
  Unset = Unset
  NoOpKey = NoOpKey
  Workers = {w1, w2}
  Sweepers = {s1}
  Keys = {k1, k2}
  Windows = {m1}
  Amounts = {1}
  Limits = {}
  DefaultLimit = 1
  FailOpen = FALSE
  BatchSize = 1
  MaxFaults = 1
PROPERTIES
  CallsReturn
  ReservationsSettle
