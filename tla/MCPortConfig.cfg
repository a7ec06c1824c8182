SPECIFICATION ConfigSpec
CONSTANTS
  Ports = {1, 2}
  Ids = {"c0", "c1", "c4"}
  NoId = "none"
  None = None
  Messages <- PushedMessages
  Garbled <- MixedText
  MaxSlots = 1
  RawSlots = 2
  Saved <- OneSaved
  MaxOutbox = 1
  MaxBoots = 1
INVARIANTS
  ConfigTypeOK
  RamMatchesNvs
PROPERTIES
  NoRewrite
  AppliedMeansRunning
  ImplementsDevice
