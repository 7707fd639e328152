SPECIFICATION FairSpec
CONSTANTS
  MaxRows = 3
  About <- TwiceAndReport
  Anonymous <- Reports
  MaxRetries = 2
  ExpBackoff <- Growing
  MaxInterruptions = 2
  MaxLag = 1
INVARIANTS
  AppliedOnce
  ProcessedWasApplied
PROPERTY EventuallySettled
