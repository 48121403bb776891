SPECIFICATION FairSpec
CONSTANTS
  c1 = c1  c2 = c2
  Sandbox = {c1, c2}
  Conf <- Cluster
  NADs <- Nets
  Dir <- ConfFiles
  Paths <- NoPaths
  Devices <- VFs
  Pods <- Forms
  PodNs = "app"
  IfName = "net0"
  Eth <- EthNames
  BadRequest = BadRequest
  Outages = TRUE
  DelFails = FALSE
  Mortal = TRUE
  Failed = Failed
  None = None
INVARIANTS TypeOK Recoverable DelClean UndoComplete StatusTrue DevicesDistinct
PROPERTY Cleaned
CHECK_DEADLOCK FALSE
