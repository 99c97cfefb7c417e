SPECIFICATION Spec
CONSTANTS
  HeapStart = 3
  HeapSize = 15
  HeaderSize = 2
  MaxRequest = 4
INVARIANTS IInv BlocksSafe FullyReclaimed
PROPERTY BlocksStay
