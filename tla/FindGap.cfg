SPECIFICATION Spec
CONSTANTS
  a = a
  b = b
  c = c
  s1 = s1
  s2 = s2
  Sales = {a, b}
  NoSale = NoSale
  MaxSeq = 2
  BatchSize = 2
  Sessions = {s1}
  NoKey = NoKey
  Keys <- MCKeys
  OnAChain = TRUE
  GateShuts = FALSE
  NoSession = NoSession
  m1 = m1
  m2 = m2
  Mounts = {m1}
  MaxReplacements = 0
INVARIANTS
  NoGapBehindASale
CHECK_DEADLOCK FALSE
