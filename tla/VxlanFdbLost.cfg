SPECIFICATION FairSpec
CONSTANTS
  n1 = n1
  n2 = n2
  a1 = a1
  a2 = a2
  a3 = a3
  Node = {n1, n2}
  Watcher = {n1}
  Vxlan = {v1}
  Addr = {a1, a2, a3}
  Home <- OwnAddress
  Failing = {n2}
  MaxFaults = 2
  Foreign = Foreign
  Empty = Empty
  None = None
INVARIANT NothingLost
CHECK_DEADLOCK FALSE
