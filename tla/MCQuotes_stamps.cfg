SPECIFICATION Spec
CONSTANTS
  p1 = p1
  q1 = q1
  t1 = t1
  None = None
  Posts = {p1}
  Ours = {q1}
  Theirs = {t1}
  Quotable = {p1}
  Policies = {"public", "followers", "manual", "nobody"}
  MaxStamps = 2
  MaxRequests = 3
  MaxRepeats = 1
INVARIANTS
  ShownQuoteStands
  QuotesCountAgrees
  AcceptedIsAnnounced
CHECK_DEADLOCK FALSE
