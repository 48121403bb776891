SPECIFICATION Spec
CONSTANTS
  c1 = c1  c2 = c2  c3 = c3  a1 = a1  a2 = a2  a3 = a3
  Cont = {c1, c2, c3}
  Net = {"red", "blue"}
  NetOf <- TwoAndOne
  Conf <- Shared
  Addr = {a1, a2, a3}
  Faulty = {c1}
  Checked = {c1}
  Changes = 1
  None = None
INVARIANTS TypeOK UpLeased GatewayKept UpConnected CleanDel
CHECK_DEADLOCK FALSE
