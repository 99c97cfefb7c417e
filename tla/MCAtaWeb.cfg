SPECIFICATION Spec
CONSTANTS
  Sector = {1, 2}
  DataFrom = 1
  Value = {0, 1}
  MaxQueue = 2
INVARIANTS CacheComplete Coherent StoreCatchesUp
PROPERTY DurablePrefix
