SPECIFICATION Spec
CONSTANTS
  sata = sata
  usb = usb
  P = P
  Q = Q
  N = N
  Paths <- SomePaths
  Wanted = {P, Q, N}
  Watched = P
  Limit = 2
  Invalid = Invalid
  None = None
PROPERTIES ImplementsHistory StaysWithDisk ConnectsAllAsLastResort
