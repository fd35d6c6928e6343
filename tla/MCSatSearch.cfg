SPECIFICATION SatSpec
CONSTANTS
  KeepSize = 2
  KeepGlue = 1
  PoSize = 4
  ElimOccLim = 4
  ElimRoundsInit = 2
  ElimRounds = 1
  MaxReduces = 3
  MaxRestarts = 1
  Efforts = {1, 9}
  Formulas <- SearchFormulas
INVARIANTS
  NothingMissed
  ReasonsHold
  QueueInOrder
PROPERTIES
  LearnsNew
