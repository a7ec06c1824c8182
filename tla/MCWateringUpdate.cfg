SPECIFICATION Spec
CONSTANTS
  Ports = {1}
  Ids = {"c1", "c2", "c3"}
  NoId = "none"
  None = None
  Messages <- Update
  Garbled = {}
  MaxSlots = 2
  RawSlots = 2
  Saved <- TwiceAMinute
  MaxOutbox = 1
  MaxBoots = 1
  QueueLen = 2
  FaultThreshold = 2
  DayMinutes = 2
  Readings <- FailOrDry
INVARIANTS
  OncePerMark
  RestartRestores
  QuiescentGreen
PROPERTIES
  ImplementsDevice
