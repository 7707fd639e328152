SPECIFICATION Spec
CONSTANTS
  k = k
  Codes = {k}
  Scopes = {"push"}
  MaxTokens = 3
  MaxPending = 2
  MaxCrashes = 1
INVARIANTS
  OneTokenEach
  LoggedOutStaysOut
  NoDanglingSubscription
CHECK_DEADLOCK FALSE
