\* Three servers.
SPECIFICATION Spec
CONSTANTS
  Node = {p, q, r}
  None = None
  Usable = {p, q}
  Operated = {p, r}
  Primary = p
  Standby = q
  MaxSlots = 2
  MaxLsn = 1
  MaxCommands = 2
  MaxFaults = 1
INVARIANTS
  TypeOK
PROPERTIES
  SuccessIsUsable
  RejoinCanAttach
  FollowFreesOldSlot
CHECK_DEADLOCK FALSE
