SPECIFICATION FairSpec
CONSTANTS
  MaxSlot = 3
  Slot <- MCSlot
  Hash = {h1}
  None = None
  Err = Err
  Dead = Dead
INVARIANTS TypeOK OneOutstandingJob FreshJobIsWanted EmissionIsCurrent DrainedAgreement
PROPERTIES EmitterSpec FinalityAccepted
CHECK_DEADLOCK FALSE
