\* Requests are numbered, and the instance ends when the last has been answered.
SPECIFICATION Spec
CONSTANTS
  Attempts = {a1}
  MaxRequests = 2
INVARIANTS
  NothingToSendBack
CHECK_DEADLOCK FALSE
