SPECIFICATION Spec
CONSTANTS
  Ports = {1, 2}
  Ids = {"c1", "c3", "mix"}
  NoId = "none"
  None = None
  Heads <- MCHeads
  Mixed = {}
  BadValues = FALSE
  AtPowerOn <- NothingSaved
  MaxOutbox = 1
  MaxBoots = 0
  Configs = {"c1", "c3"}
  PortOf <- MCPortOf
  Fitting = {"c1", "c3"}
  MaxLinkFaults = 0
  MaxServerFaults = 0
PROPERTIES
  StatusForward
