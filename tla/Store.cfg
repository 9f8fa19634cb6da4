SPECIFICATION FairSpec
CONSTANTS
  MaxNumber = 2
  UserContents = {u}
  AutoContents = {a}
  Corrupt = Corrupt
  Missing = Missing
  None = None
INVARIANTS NoDuplicateNumbers OnlyAccidentsDangle FreeNumberIsFree BootCurrentIsBooted
PROPERTIES UserOptionsSurvive OperationsEnd
