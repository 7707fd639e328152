SPECIFICATION FairSpec
CONSTANTS
  t1 = t1
  t2 = t2
  Tokens = {t1}
  MaxNotifications = 4
  Kind <- KindFour
  Calls = {"update", "unsubscribe", "revoke", "expire", "remove"}
  MaxCalls = 1
  MaxPosts = 1
  MaxLosses = 1
  BatchSize = 1
  MaxRetries = 2
  MaxBacklog = 3
  MaxCatchUp = 2

INVARIANTS NeverAgain FirstCopiesInOrder 
PROPERTY PushedUnlessPoisoned
