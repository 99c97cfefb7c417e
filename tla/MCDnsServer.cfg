SPECIFICATION Spec
CONSTANTS
  Domain = {"a", "*.a"}
  Version = {1}
  Unfit <- UnfitOverrides
  Name = {"a"}
  Wild <- WildPairs
  Handler = {1, 2}
  MaxLen = 2
  MaxBusy = 2
INVARIANT ServerInv
PROPERTIES PromiseKept QueriesEnd
