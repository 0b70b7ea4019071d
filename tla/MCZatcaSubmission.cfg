\* Every invoice of the instance settled, the workers have nothing to do.
SPECIFICATION CalmSpec
CONSTANTS
  w1 = w1
  w2 = w2
  d1 = d1
  Jobs = {1, 2}
  Workers = {w1, w2}
  KeyOf <- OneDevice
  NoJob = 0
  SlowWorkers = TRUE
  DuplicatesRefused = TRUE
INVARIANTS
  TypeOK
  NeverDropped
  SettledByAuthority
  SettledOnRecord
  FirstTriedInOrder
PROPERTIES
  EveryInvoiceSettles
CHECK_DEADLOCK FALSE
