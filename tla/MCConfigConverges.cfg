SPECIFICATION FairSpec
CONSTANTS
  Ports = {1, 2}
  Ids = {"c1", "c3", "mix"}
  NoId = "none"
  None = None
  Heads <- MCHeads
  Mixed = {}
  BadValues = FALSE
  AtPowerOn <- NothingSaved
  MaxOutbox = 1
  MaxBoots = 1
  Configs = {"c1", "c3"}
  PortOf <- MCPortOf
  Fitting = {"c1"}
  MaxLinkFaults = 1
  MaxServerFaults = 1
INVARIANTS
  RunningIsStored
  PushedIsPublished
PROPERTIES
  Converges
