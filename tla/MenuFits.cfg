SPECIFICATION FairSpec
CONSTANTS
  WordModulus = 2048
  Resolution = 1280
  IconWidth = 156
  PointerWidth = 50
  Counts = {1, 2, 3, 4}
  Names = {Windows, Ubuntu, Apple}
  Apple = Apple
  LoadableNames = {Windows, Ubuntu, Apple}
INVARIANTS CursorOnSelection RunsWhatIsShown
PROPERTY ImplementsCarousel
CHECK_DEADLOCK FALSE
