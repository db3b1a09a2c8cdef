SPECIFICATION Spec
CONSTANTS
  MaxSlot = 31
  MAX_REQUEST_LIGHT_CLIENT_UPDATES = 4
  MAX_TREE_DEPTH = 1
  period <- Period
  finalized <- Finalized
  Checkpoint <- Checkpoints
  Depositors <- Locked
  None = None
INVARIANTS TypeOK HeadIsOnChain HeadIsRecoverable GoodDataIsAccepted WindowIsSound
PROPERTIES HeadMoves
CHECK_DEADLOCK FALSE
