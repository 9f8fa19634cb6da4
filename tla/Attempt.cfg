SPECIFICATION FairSpec
CONSTANTS
  Loaders = 3
  MaxFiles = 2
  MaxDisks = 3
  Mishaps = {"noFileSystem", "noBlockIo", "unreadable", "invalid"}
INVARIANTS MenuIsQuiet DiskOutlivesImage NoDiskDestroyedTwice DisksAreReleased
PROPERTY AttemptEnds
