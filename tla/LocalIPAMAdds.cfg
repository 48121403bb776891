SPECIFICATION Spec
CONSTANTS
  a1 = a1  a2 = a2  a3 = a3  c1 = c1  c2 = c2  c3 = c3
  Att = {a1, a2}
  Container = {c1, c2}
  Cid <- Two
  IfPrefix = {}
  Blocks <- LowHigh
  Cached <- CacheLow
  Filed <- NoFiles
  Num = 2
  RangeSets = 1
  AllocGW = FALSE
  Mortal = {a1}
  Errors = FALSE
  Gateway = 1
  Reserves = {}
  GatewayId = gateway
  None = None
  NoIP = NoIP
INVARIANTS TypeOK InUseReserved FailedKeepsNone
PROPERTIES SearchComplete RoundRobin
