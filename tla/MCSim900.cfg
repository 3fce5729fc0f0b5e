SPECIFICATION LiveSpec
CONSTANTS
  Cancels = TRUE
  Requests = 2
  MaxSlow = 4
  MaxLost = 2
INVARIANTS
  PostTrue NoFalseFailure SessionClosed
PROPERTIES
  Recovers
