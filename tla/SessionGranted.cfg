SPECIFICATION Spec
CONSTANTS
  a1 = a1
  a2 = a2
  n1 = n1
  n2 = n2
  NoAddr = NoAddr
  NoName = NoName
  Addrs <- MCAddr1
  Names <- MCNames
  MaxNet = 1
  MaxAsked = 1
  MaxFault = 0
  MaxPush = 0
  MaxDeny = 1
  MaxRename = 0
INVARIANTS RegisteredMeansGranted
