SPECIFICATION SessionSpec
CONSTANTS
  Menus <- SomeMenus
  Loaders = 2
  MaxFiles = 1
  MaxDisks = 2
  Mishaps = {"noFileSystem", "noBlockIo", "unreadable", "invalid"}
  Launchers <- SomeLaunchers
  AppLength = 12
  FailingAt = {"fileSystem", "openFile", "relativePath", "absolutePath", "load"}
INVARIANT MenuIsQuiet
PROPERTY EnterLeadsSomewhere
CHECK_DEADLOCK FALSE
