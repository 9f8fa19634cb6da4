SPECIFICATION FairSpec
CONSTANTS
  WordModulus = 2048
  Resolution = 1024
  IconWidth = 156
  PointerWidth = 50
  Counts = {1, 2, 3, 4, 5, 6}
  Names = {Windows, Ubuntu, Apple}
  Apple = Apple
  LoadableNames = {Windows, Apple}
INVARIANTS OnePointer RunsACollectedEntry
PROPERTY MenuAppears
CHECK_DEADLOCK FALSE
