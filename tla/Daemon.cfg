SPECIFICATION Spec
CONSTANTS
  Pid = {p1, p2}
  Unknown = Unknown
  MaxLaunches = 3
  MaxRestarts = 2
  MaxFaults = 1
INVARIANTS TypeOK OneRepmgrd
PROPERTIES RepmgrdIsKnown
CHECK_DEADLOCK FALSE
