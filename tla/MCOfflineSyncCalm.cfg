\* A till that has recorded every sale of the instance and heard back stops.
SPECIFICATION CalmSpec
CONSTANTS
  a = a
  b = b
  c = c
  s1 = s1
  s2 = s2
  Sales = {a, b, c}
  NoSale = NoSale
  MaxSeq = 3
  BatchSize = 2
  Sessions = {s1}
  NoKey = NoKey
  Keys <- MCKeys
  OnAChain = TRUE
  GateShuts = FALSE
  NoSession = NoSession
  m1 = m1
  m2 = m2
  Mounts = {m1}
  MaxReplacements = 0
INVARIANTS
  RefusedIsNotRung
PROPERTIES
  EverySaleReachesTheServer
CHECK_DEADLOCK FALSE
