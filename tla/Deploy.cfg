SPECIFICATION Spec
CONSTANTS
  i1 = i1
  i2 = i2
  b1 = b1
  Icons <- SomeIcons
  Backgrounds <- SomeBackgrounds
  None = None
  Broken = Broken
  MaxRuns = 4
SYMMETRY Interchangeable
CHECK_DEADLOCK FALSE
INVARIANTS SuccessDeploys ImagesSurviveAnAccident
