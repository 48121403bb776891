SPECIFICATION FairSpec
CONSTANTS
  p1 = p1  p2 = p2
  Pod = {p1, p2}
  Net = {"net1"}
  Att <- InNet1
  Num <- OneOrTwo
  Addr = {2, 3, 4}
  Range <- Small
  Longer <- Single
  Rank <- Names
  Stale <- MaybeOld
  Outages = FALSE
  Returns = FALSE
  None = None
  Orphan = Orphan
INVARIANTS TypeOK Exclusive OneKey
PROPERTY Freed
