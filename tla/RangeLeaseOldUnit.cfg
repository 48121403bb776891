SPECIFICATION Spec
CONSTANTS
  n1 = n1  n2 = n2  w1 = w1  w2 = w2  w3 = w3
  W = 4
  Node = {n1, n2}
  Worker = {w1, w2}
  NodeOf <- OneEach
  Daemons = {n1}
  Leftover <- OldUnit
  Departing = {}
  Mortal = {n1, w1}
  RangeStart = 3
  RangeEnd = 7
  Subnet = 0
  Bits = 1
  None = None
  Orphan = Orphan
  Controller = Controller
INVARIANT LeasesDisjoint
