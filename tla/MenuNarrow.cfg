SPECIFICATION Spec
CONSTANTS
  WordModulus = 2048
  Resolution = 1024
  IconWidth = 156
  PointerWidth = 50
  Counts = {4}
  Names = {Windows, Ubuntu, Apple}
  Apple = Apple
  LoadableNames = {Windows, Ubuntu, Apple}
INVARIANTS RunsWhatIsShown
CHECK_DEADLOCK FALSE
