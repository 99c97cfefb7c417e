SPECIFICATION Spec
CONSTANTS
  Host = {h}
  Broadcast = Broadcast
  Task = {t}
  Typed = Typed
  Ring = 2
  CacheMax = 2
  Heard = {"arp response", "ping"}
  Attempts = 1
INVARIANTS ReceiveInv SendInOrder
PROPERTY PingsDirect
\* The model ends where Sends have mixed.
CHECK_DEADLOCK FALSE
