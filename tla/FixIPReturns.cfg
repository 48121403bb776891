SPECIFICATION Spec
CONSTANTS
  p1 = p1  p2 = p2
  Pod = {p1, p2}
  Net = {"net1"}
  Att <- InNet1
  Num <- OneOf
  Addr = {3, 4}
  Range <- Small
  Longer <- Single
  Rank <- Names
  Stale <- Clean
  Outages = FALSE
  Returns = TRUE
  None = None
  Orphan = Orphan
INVARIANT Exclusive
