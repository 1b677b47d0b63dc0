SPECIFICATION Spec
CONSTANTS
  Lens <- MCLong
  Cuts <- MCWhole
  Garbage <- MCGarbage
  MaxMsgs = 2
  BufLen = 1204
  RecvMax = 2400
INVARIANT CompleteHandled
