\* Every document of the instance ended, the database has nothing to do.
SPECIFICATION Spec
CONSTANTS
  Variants = {1, 2}
  MaxTxns = 3
  MaxSessions = 2
  Documents <- MCDocuments
  Openings <- MCOpenings
  OldCost = 2
  NewCost = 4
INVARIANTS
  TypeOK
  FrozenIsComplete
  TieOut
  DrawnOnce
  NoHoleBesideStock
  NeverOverReturned
  SalesQueue
CHECK_DEADLOCK FALSE
