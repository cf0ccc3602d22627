SPECIFICATION Spec
CONSTANTS
  Session = {s1, s2}
  Own = 1
  Other = {2}
  Called <- Everything
  Budget <- SomeEvents
SYMMETRY Sessions
INVARIANTS
  TypeOK
  NoticeIsWhole
  NoForeignPause
  PauseIsKept
CHECK_DEADLOCK FALSE
