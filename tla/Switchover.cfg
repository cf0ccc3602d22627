SPECIFICATION FairSpec
CONSTANTS
  Node = {1, 2, 3}
  Old = 1
  Candidate = 3
  MaxWal = 1
  Starts <- MCStarts
  Options <- MCOptions
  MaxEvents = 1
INVARIANTS
  OnePrimary
  NothingIsLost
  VipMoves
  PausesAreRestored
PROPERTY OldPrimaryReturns
CHECK_DEADLOCK FALSE
