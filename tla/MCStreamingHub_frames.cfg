SPECIFICATION Spec
CONSTANTS
  c1 = c1
  c2 = c2
  t1 = t1
  t2 = t2
  NoTask = NoTask
  Rows = {1, 2}
  Post <- Two
  Clients = {c1, c2}
  First <- HomeAndTag
  Wanted <- Public
  Pumps = {t1, t2}
  QueueSize = 2
  MaxStreams = 2
  MaxConnections = 2
  SeedTrack = 1
  TrackLimit = 1
  FetchLimit = 1
  MaxChanges = 1
  MaxCalls = 2
  MaxFaults = 1
SYMMETRY Tasks
INVARIANTS
  OnePump
  CleanStream
  DeletesAreTold
  
CHECK_DEADLOCK FALSE
