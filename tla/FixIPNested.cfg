SPECIFICATION Spec
CONSTANTS
  p1 = p1  p2 = p2
  Pod = {p1, p2}
  Net = {"net1", "net10"}
  Att <- InBoth
  Num <- OneOf
  Addr = {2, 3, 4}
  Range <- Small
  Longer <- Nested
  Rank <- Names
  Stale <- Clean
  Outages = FALSE
  Returns = FALSE
  None = None
  Orphan = Orphan
INVARIANT Exclusive
