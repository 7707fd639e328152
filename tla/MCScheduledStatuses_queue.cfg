SPECIFICATION FairSpec
CONSTANTS
  p1 = p1
  p2 = p2
  c1 = c1
  c2 = c2
  m1 = m1
  Posts = {p1, p2}
  At <- AtOneNow
  Media = {m1}
  MediaOf <- FirstWithMedia
  Clients = {c1, c2}
  Calls = {"put", "delete", "delete_media"}
  MaxId = 2
  MaxTime = 2
  MaxAsks = 2
  MaxCalls = 1
  MaxErrors = 1
  MaxDrops = 1
  BatchSize = 2
  MaxTries = 2
  BaseDelay = 1
INVARIANTS PublishedOnce OnlyCancellingLoses
PROPERTY EventuallySettled
CHECK_DEADLOCK FALSE
