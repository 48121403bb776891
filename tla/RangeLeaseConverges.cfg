SPECIFICATION FairSpec
CONSTANTS
  n1 = n1  n2 = n2  w1 = w1  w2 = w2  w3 = w3
  W = 4
  Node = {n1}
  Worker = {w1, w2}
  NodeOf <- Pair
  Daemons = {n1}
  Leftover <- NoneLeft
  Departing = {}
  Mortal = {w1}
  RangeStart = 3
  RangeEnd = 7
  Subnet = 0
  Bits = 1
  None = None
  Orphan = Orphan
  Controller = Controller
INVARIANTS LeasesDisjoint
PROPERTIES CheckConverges
