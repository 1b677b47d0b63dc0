SPECIFICATION FairSpec
CONSTANTS
  x = x
  y = y
  Addrs <- MCAddrs
  NoIp = NoIp
  FirstPings = 1
  HostPings = 2
  WanTimes <- MCWanTimes
  MaxWan = 3
  MaxRestart = 1
  MaxIntr = 1
INVARIANT TypeOK
PROPERTY SettlesOnTruth
