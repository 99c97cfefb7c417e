SPECIFICATION ListSpec
CONSTANTS
  Node = {n1, n2, n3, n4}
  Value = {a, b}
  Null = Null
INVARIANT ListInv
\* A list that has lost a node has no defined next call.
CHECK_DEADLOCK FALSE
