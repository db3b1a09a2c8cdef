SPECIFICATION FairSpec
CONSTANTS
  MaxSlot = 3
  Slot <- MCSlot
  Hash = {h1}
  None = None
  Err = Err
  Dead = Dead
PROPERTIES FallsBackOnFailure
CHECK_DEADLOCK FALSE
