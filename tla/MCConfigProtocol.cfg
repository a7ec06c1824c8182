SPECIFICATION Spec
CONSTANTS
  Ports = {1, 2}
  Ids = {"c1", "c3", "mix"}
  NoId = "none"
  None = None
  Heads <- MCHeads
  Mixed <- MixedHead
  BadValues = FALSE
  AtPowerOn <- NothingSaved
  MaxOutbox = 1
  MaxBoots = 1
  Configs = {"c1", "c3"}
  PortOf <- MCPortOf
  Fitting = {"c1", "c3"}
  MaxLinkFaults = 1
  MaxServerFaults = 0
INVARIANTS
  TypeOK
  RetainedRuns
  AppliedWasRun
  AckSurvivesDevice
