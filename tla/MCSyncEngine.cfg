SPECIFICATION PushedSpec
CONSTANTS
  a = a
  b = b
  c = c
  k1 = k1
  k2 = k2
  k3 = k3
  s1 = s1
  s2 = s2
  Sales = {a, b, c}
  NoSale = NoSale
  MaxSeq = 3
  Sessions = {s1, s2}
  NoKey = NoKey
  Keys = {k1, k2, k3}
  OnAChain = TRUE
  GateShuts = TRUE
INVARIANTS
  NoSaleRungTwice
  ChainUnbroken
  CursorVouches
PROPERTIES
  VerdictStands
  EveryPushEnds
