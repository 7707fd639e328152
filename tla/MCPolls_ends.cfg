SPECIFICATION Spec
CONSTANTS
  p1 = p1
  t1 = t1
  a1 = a1
  b1 = b1
  y1 = y1
  n1 = n1
  Own = {p1}
  Theirs = {t1}
  Place <- Ids
  Options = {y1, n1}
  Actors = {a1, b1}
  Batch = 1
  MaxRequests = 2
  MaxRemoved = 1
INVARIANTS
  TallyIsFair
  
  
PROPERTIES
  EndedPollsAreNoticed
CHECK_DEADLOCK FALSE
