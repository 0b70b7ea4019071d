SPECIFICATION LiveSpec
CONSTANTS
  v1 = v1
  s1 = s1
  Variants = {v1}
  Warehouses = {1, 2}
  FirstHome = 1
  Slots = {s1}
  MaxMoves = 0
  MaxRestarts = 0
  NoRow = NoRow
PROPERTIES
  StockFiguresArrive
