SPECIFICATION FairSpec
CONSTANTS
  c1 = c1  c2 = c2  c3 = c3  a1 = a1  a2 = a2  a3 = a3
  Cont = {c1, c2}
  Net = {"red", "blue"}
  NetOf <- Each
  Conf <- Shared
  Addr = {a1, a2, a3}
  Faulty = {c1, c2}
  Checked = {}
  Changes = 1
  None = None
PROPERTY AddressFreed
CHECK_DEADLOCK FALSE
