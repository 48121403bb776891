SPECIFICATION Spec
CONSTANTS
  c1 = c1  c2 = c2  c3 = c3  a1 = a1  a2 = a2  a3 = a3
  Cont = {c1, c2}
  Net = {"red", "blue"}
  NetOf <- Each
  Conf <- Shared
  Addr = {a1, a2, a3}
  Faulty = {}
  Checked = {}
  Changes = 0
  None = None
INVARIANT OneGateway
CHECK_DEADLOCK FALSE
