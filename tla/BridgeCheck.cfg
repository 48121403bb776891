SPECIFICATION Spec
CONSTANTS
  c1 = c1  c2 = c2  c3 = c3  a1 = a1  a2 = a2  a3 = a3
  Cont = {c1}
  Net = {"red"}
  NetOf <- One
  Conf <- Shared
  Addr = {a1, a2, a3}
  Faulty = {}
  Checked = {c1}
  Changes = 0
  None = None
PROPERTY CheckAccepts
CHECK_DEADLOCK FALSE
