SPECIFICATION FairSpec
CONSTANTS
  Chain = {c1, c2}
  Task = {t1}
  MaxBlock = 2
  MaxRestarts = 1
  None = None
INVARIANTS TypeOK EventsSeenOnce AnswersAreFinal CachedAnswersAreReal
PROPERTIES GivesUpSettledOnly TrackedIsSettled
CHECK_DEADLOCK FALSE
