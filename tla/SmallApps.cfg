SPECIFICATION AppSpec
CONSTANTS
  Opaque = 3
  Word = 5
  MaxOptions = 5
  Sizes <- SomeSizes
  ScreenWidth = 4
  ScreenHeight = 2
  Pixels <- SomePixels
  Backdrops <- SomeBackdrops
  None = None
INVARIANTS ReleasesAll MisusesOnlyUnyielded ShowsPicture
