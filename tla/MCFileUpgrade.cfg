SPECIFICATION FairSpec
CONSTANTS
  MaxSegments = 2
  WaitRounds = 2
  MaxOps = 3
  MaxFaults = 2
  MaxReports = 2
  None = None
INVARIANTS OneUpgrade AnswerIsCurrent
PROPERTIES SuccessIsReported UpgradeEnds
CHECK_DEADLOCK FALSE
