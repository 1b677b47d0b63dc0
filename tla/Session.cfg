SPECIFICATION FairSpec
CONSTANTS
  a1 = a1
  a2 = a2
  n1 = n1
  n2 = n2
  NoAddr = NoAddr
  NoName = NoName
  Addrs <- MCAddr2
  Names <- MCNames
  MaxNet = 2
  MaxAsked = 1
  MaxFault = 2
  MaxPush = 1
  MaxDeny = 1
  MaxRename = 1
INVARIANTS TypeOK NameReported CountsThisConnection RegisteredOnThisConnection
PROPERTIES PassesPhases ReconnectsUnlessLockedOut
