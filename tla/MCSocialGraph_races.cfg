SPECIFICATION GraphSpec
CONSTANTS
  MaxFollows = 1
  MaxRequests = 2
  MaxBlocks = 1
  Slots = {s1, s2}
INVARIANTS
  BlockedHasNoFollower
  
  DeletedIsForgotten
  RejectedIsNotFollower
SYMMETRY Symmetry
CHECK_DEADLOCK FALSE
