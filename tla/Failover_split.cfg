SPECIFICATION FairSpec
CONSTANTS
  MonitorInterval = 2
  Primary = 10
  Standby = {1, 2, 3}
  Witness = {}
  Priority <- PriorityOfThree
  Location <- OneLocation
  Manual = {}
  Topologies <- Splits
  Consensus = FALSE
  CheckType = "ping"
  MaxLsn = 1
  Budget <- CommandMayFail
INVARIANTS
  TypeOK
  AtMostOnePromoted
  PromotedIsFurthest
PROPERTIES
  ImplementsRole
  FailoverCompletes
CHECK_DEADLOCK FALSE
