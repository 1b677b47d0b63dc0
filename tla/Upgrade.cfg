CONSTANTS
  c1 = c1
  c2 = c2
  NoCgi = NoCgi
  Cgis <- MCCgis
  MaxRetry = 1
  MaxEvent = 4
SPECIFICATION FairSpec
INVARIANTS TypeOK SafeFlash ResultOfThisRequest RecordsFollowFlash AnswerOwed VerdictOwed
PROPERTIES RequestAnswered UpgradeEnds
CHECK_DEADLOCK FALSE
