SPECIFICATION Spec
CONSTANTS
  c1 = c1  c2 = c2
  Sandbox = {c1, c2}
  Conf <- Cluster
  NADs <- Nets
  Dir <- ConfFiles
  Paths <- NoPaths
  Devices <- VFs
  Pods <- FormTwo
  PodNs = "app"
  IfName = "net0"
  Eth <- EthNames
  BadRequest = BadRequest
  Outages = TRUE
  DelFails = TRUE
  Mortal = FALSE
  Failed = Failed
  None = None
INVARIANT DelClean
CHECK_DEADLOCK FALSE
