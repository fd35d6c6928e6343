CONSTANTS
  Files <- MCFiles
  ThresholdRatio = 60
SPECIFICATION Spec
INVARIANTS
  GraphFollowsFile
  ExpansionIsFaithful
  AnswersAreTests
  UnsatMeansUntestable
  SensitizedIsDifferent
