SPECIFICATION FairSpec
CONSTANTS
  Services <- MCServices
  NoRunLimit = 4
  BlockLimit = 2
  QosLimit = 2
  FtpCycle = 3
  FtpAt = 2
  PppWait = 2
  RunMax = 1
  MaxLead = 2
  MaxLag = 3
  MaxEvent = 3
INVARIANT TypeOK
PROPERTIES NoFalseAlarm Recovers
CHECK_DEADLOCK FALSE
