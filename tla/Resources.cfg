SPECIFICATION FairSpec
CONSTANTS
  BootCounts = {0, 1, 2, 3}
  MaxKeywords = 4
  FailingAt = {"watchdog", "root", "gop", "name", "background", "entries", "iconSize", "icons", "drawIcon", "pointer", "pointerBuffers"}
INVARIANTS BreakReleasesAll NothingFreedTwice LateCleanupIsExact ReaderCleansUp
PROPERTY StartupEnds
CHECK_DEADLOCK FALSE
