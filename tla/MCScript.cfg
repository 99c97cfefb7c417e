SPECIFICATION FairSpec
CONSTANTS
  Text <- Texts
  Block = 5
  MaxNest = 2
  Width = 8
  MaxTrue = 2
INVARIANTS ScriptInv PoolMatches
PROPERTIES RunsTheLines Ends
\* A script that is over stops.
CHECK_DEADLOCK FALSE
