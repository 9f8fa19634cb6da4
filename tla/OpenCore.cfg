SPECIFICATION FairSpec
CONSTANTS
  Launchers <- LauncherPaths
  AppLength = 12
  FailingAt = {"loadedImage", "fileSystem", "fullName", "openVolume", "openFile", "fileSize", "fileData", "relativePath", "absolutePath", "load"}
INVARIANTS LoopHoldsNothing ImageIsConsistent RewriteStaysInside
PROPERTY LaunchEnds
CHECK_DEADLOCK FALSE
