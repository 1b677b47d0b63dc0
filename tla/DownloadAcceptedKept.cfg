SPECIFICATION Spec
CONSTANTS
  a = a
  b = b
  c = c
  d = d
  NoItem = NoItem
  Items <- MCItems2
  Stored <- MCStored2
  Incomplete <- MCNone
  MacReadable = TRUE
  MaxReqs = 2
  MaxCrash = 0
  MaxUnplug = 0
INVARIANT AcceptedKept
