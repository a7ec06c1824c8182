SPECIFICATION FairSpec
CONSTANTS
  Ports = {1}
  Ids = {"c1", "c2", "c3"}
  NoId = "none"
  None = None
  Messages <- NoUpdate
  Garbled = {}
  MaxSlots = 2
  RawSlots = 2
  Saved <- OneSlot
  MaxOutbox = 1
  MaxBoots = 0
  QueueLen = 2
  FaultThreshold = 2
  DayMinutes = 2
  Readings <- FailOrDry
PROPERTIES
  DailyWatering
