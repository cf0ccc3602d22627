SPECIFICATION Spec
CONSTANTS
  MonitorInterval = 2
  Primary = 10
  Standby = {1, 2}
  Witness = {9}
  Priority <- PriorityOfTwo
  Location <- OneLocation
  Manual = {}
  Topologies <- SplitsBesideWitness
  Consensus = FALSE
  CheckType = "ping"
  MaxLsn = 1
  Budget <- Faults
INVARIANTS
  NoticeNamesPrimary
  FollowersStayFollowers
CONSTRAINT FewFaults
CHECK_DEADLOCK FALSE
