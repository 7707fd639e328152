SPECIFICATION Spec
CONSTANTS
  p1 = p1
  r1 = r1
  n1 = n1
  k1 = k1
  l1 = l1
  b1 = b1
  s1 = s1
  a1 = a1
  f1 = f1
  None = None
  Posts = {p1, r1}
  Ours = {k1}
  Notes = {n1}
  Likes = {l1}
  Boosts = {b1}
  Sources = {s1}
  About <- Around
  By <- Author
  Boosting = {k1}
  Peers = {a1, f1}
  Signing = {a1}
  MaxRequests = 3
  MaxRepeats = 1
  MaxMoves = 1
  MaxCrashes = 1
INVARIANTS
  
  
  DeletionReachesCopies
  
CHECK_DEADLOCK FALSE
