SPECIFICATION BdrFairSpec
CONSTANTS
  BdrNode = {1, 2}
  MaxFaults = 2
INVARIANT HandlerIsReleased
PROPERTIES
  FailureIsHandled
  MonitoringResumes
CHECK_DEADLOCK FALSE
