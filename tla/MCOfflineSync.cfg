\* A till that has recorded every sale of the instance and heard back stops.
SPECIFICATION Spec
CONSTANTS
  a = a
  b = b
  c = c
  s1 = s1
  s2 = s2
  Sales = {a, b, c}
  NoSale = NoSale
  MaxSeq = 2
  BatchSize = 2
  Sessions = {s1, s2}
  NoKey = NoKey
  Keys <- MCKeys
  OnAChain = TRUE
  GateShuts = TRUE
  NoSession = NoSession
  m1 = m1
  m2 = m2
  Mounts = {m1, m2}
  MaxReplacements = 1
SYMMETRY Symm
INVARIANTS
  NumbersRunOn
  InFlightIsPending
  SettledIsRung
  KeyNamesOneBatch
  OnlyRefusedAreOvertaken
  FirstMachineOnRecord
  MayDiscardToCursor
PROPERTIES
  VerdictIsKept
  DeliversSales
CHECK_DEADLOCK FALSE
