SPECIFICATION FairSpec
CONSTANTS
  a = a
  b = b
  c = c
  d = d
  NoItem = NoItem
  Items <- MCItems4
  Stored <- MCStored4
  Incomplete <- MCIncomplete4
  MacReadable = TRUE
  MaxReqs = 2
  MaxCrash = 1
  MaxUnplug = 1
INVARIANTS TypeOK NoLostWakeup InitWithoutWorker StopIsHeard
PROPERTIES SocketOutlivesWorker RestartCompletes ListDrains
