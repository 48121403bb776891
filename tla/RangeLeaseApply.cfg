SPECIFICATION FairSpec
CONSTANTS
  n1 = n1  n2 = n2  w1 = w1  w2 = w2  w3 = w3
  W = 4
  Node = {n1, n2}
  Worker = {w1, w2, w3}
  NodeOf <- TwoOnOne
  Daemons = {}
  Leftover <- NoneLeft
  Departing = {}
  Mortal = {w1, w2, w3}
  RangeStart = 3
  RangeEnd = 9
  Subnet = 0
  Bits = 1
  None = None
  Orphan = Orphan
  Controller = Controller
INVARIANTS GrantFree Exclusive
PROPERTIES NoTakeover WaiterServed ImplementsTable
