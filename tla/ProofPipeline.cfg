SPECIFICATION Spec
CONSTANTS
  MaxSlot = 2
  MaxJobs = 2
  MaxBlock = 2
  None = None
  Nothing = Nothing
INVARIANTS TypeOK ResultsHaveJobs DecodedAsExpected AnswersAreProved ExitZeroMeansSaved
PROPERTIES JobsEnd ReceivedIsSaved
CHECK_DEADLOCK FALSE
