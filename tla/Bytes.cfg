SPECIFICATION Spec
CONSTANTS
  Radix = 4
  WordBytes = 2
  Space = 1
  Scratch = 1
  Pinned = 100
  Counts <- Few
  Numbers <- Ints
  Texts <- Words
  MaxRegions = 3
  MaxWrites = 1
PROPERTY ImplementsRegions
VIEW View
