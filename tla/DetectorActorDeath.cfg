SPECIFICATION FairSpec
CONSTANTS
  MaxSlot = 3
  Slot <- MCSlot
  Hash = {h1}
  None = None
  Err = Err
  Dead = Dead
CHECK_DEADLOCK FALSE
PROPERTIES ActorDeathExits
