SPECIFICATION FairSpec
CONSTANTS
  MaxRows = 3
  Recipient <- TwoThenOne
  BatchLimit = 2
  MaxRetries = 2
  ExpBackoff <- Unit
  Hints <- Past
  NoHint = NoHint
  Overflowing = {"b"}
  MaxLosses = 1
  MaxAborts = 1
  MaxLag = 1
INVARIANTS
  RedeliveryBounded
  FirstAttemptsInOrder
PROPERTIES
  KeepsPromise
  
