SPECIFICATION Spec
CONSTANTS
  Data = {1, 2}
  Witness = 3
  None = None
  Initial = 1
  MaxCommands = 2
  MaxPromotions = 1
  MaxFaults = 1
INVARIANTS TypeOK OneActivePrimary
PROPERTIES PrimaryKeepsItsRecord WitnessFollows
CHECK_DEADLOCK FALSE
