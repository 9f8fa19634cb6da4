SPECIFICATION Spec
CONSTANTS
  A = A
  B = B
  Shift = Shift
  Codes <- SomeCodes
  ContinueCodes <- SomeContinueCodes
  Boots = {b1}
  Contents = {c1, c2}
  Missing = Missing
  None = None
  Consoles = {k1, k2}
  Flaky = {}
  SupportCount = 2
  MaxNumber = 1
  MaxStarts = 1
  MaxHotkeys = 3
SYMMETRY Exchanges
INVARIANTS StoppedWhileBooting
PROPERTIES BootsWhatWasTyped ValidOptionsSurvive
