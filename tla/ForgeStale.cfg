SPECIFICATION ForgeSafety
CONSTANTS
  MaxRequests = 4
INVARIANTS FreshAnswer
