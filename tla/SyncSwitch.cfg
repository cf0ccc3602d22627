SPECIFICATION FairSpec
CONSTANTS
  Standby = {1, 2}
  Sync = {1}
  Patience = 2
  Near = 1
  MaxWal = 3
  Budget <- Losses
INVARIANT MarkIsKnown
PROPERTIES
  CommitsResume
  SyncReturns
CHECK_DEADLOCK FALSE
