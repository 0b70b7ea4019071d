\* Requests are numbered, and the instance ends when the last has been answered.
SPECIFICATION Spec
CONSTANTS
  Attempts = {a1}
  MaxRequests = 4
INVARIANTS
  ChargedOnce
  RowTellsTrue
PROPERTIES
  EveryAttemptAnswered
CHECK_DEADLOCK FALSE
