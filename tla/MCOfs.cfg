SPECIFICATION Spec
CONSTANTS
  a = a b = b c = c
  Name = {a, b, c}
  Matches <- Begins
  NoName = NoName
  DataStart = 1
  DataEnd = 14
  TableSize = 4
  Block = 2
  Jump = 4
  Sizes = {2, 3}
  MaxLba = 2
  MaxAstray = 0
INVARIANTS DiskInv ReadsBack RestartFindsAll
PROPERTY CrashSparesOthers
