SPECIFICATION FairSpec
CONSTANTS
  Node = {1, 2, 3}
  First = 1
  Priority <- Equal
  MaxTimeline = 3
  Budget <- ManyEvents
INVARIANT TypeOK
PROPERTIES
  OnlyOneIsStopped
  SplitResolves
CHECK_DEADLOCK FALSE
