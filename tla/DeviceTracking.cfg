CONSTANTS
  d = d
  h = h
  NoMac = NoMac
  Macs <- MCMacs
  Hidden <- MCHidden
  MaxQueue = 2
  MaxEvent = 3
SPECIFICATION FairSpec
INVARIANTS TypeOK OncePerDeparture
PROPERTIES ImplementsDepartures DepartureReported TcpdumpKnown
CHECK_DEADLOCK FALSE
