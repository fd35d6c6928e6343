CONSTANTS
  Files <- Small
  ThresholdRatio = 60
SPECIFICATION Spec
INVARIANTS
  UnsatMeansRedundant
