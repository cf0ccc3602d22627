\* A clone from Barman with --force on a running server.
SPECIFICATION Spec
CONSTANTS
  Node = {p, q, r}
  None = None
  Usable = {p, q}
  Operated = {p, r}
  Primary = p
  Standby = q
  MaxSlots = 2
  MaxLsn = 1
  MaxCommands = 1
  MaxFaults = 1
CHECK_DEADLOCK FALSE
PROPERTY ActiveDirectoryIsKept
