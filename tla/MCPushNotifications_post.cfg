SPECIFICATION FairSpec
CONSTANTS
  t1 = t1
  t2 = t2
  Tokens = {t1}
  MaxNotifications = 2
  Kind <- KindPost
  Calls = {}
  MaxCalls = 0
  MaxPosts = 1
  MaxLosses = 0
  BatchSize = 1
  MaxRetries = 2
  MaxBacklog = 2
  MaxCatchUp = 1

PROPERTY EventuallyPushed
