SPECIFICATION Spec
CONSTANTS
  Lens <- MCShort
  Cuts <- MCCuts
  Garbage <- MCGarbage
  MaxMsgs = 5
  BufLen = 1204
  RecvMax = 2400
INVARIANTS TypeOK CompleteHandled PartialNotHandled
