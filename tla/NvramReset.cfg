CONSTANTS
  Real = Real
  Default = Default
  Others = {Other}
  None = None
  MaxEvent = 3
SPECIFICATION FairSpec
INVARIANTS TypeOK SerialKept InitialisedIsComplete IdleIsInitialised
PROPERTIES EndsInitialised
CHECK_DEADLOCK FALSE
