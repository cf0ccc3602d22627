SPECIFICATION ElectionSpec
CONSTANTS
  MonitorInterval = 2
  Me = 2
  Standbys = {1, 3}
  Witnesses = {9}
  Locations = {"dc1", "dc2"}
  PrimaryLocation = "dc1"
  Lsns <- MCLsns
  Priorities <- MCPriorities
  Consensus = TRUE
  Validation = TRUE
INVARIANTS
  CandidateIsBest
  WinIsJustified
  LoserHasWinner
CHECK_DEADLOCK FALSE
