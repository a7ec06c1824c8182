SPECIFICATION FairSpec
CONSTANTS
  Ports = {1, 2}
  Ids = {"c1", "c2", "c3"}
  NoId = "none"
  None = None
  Messages <- NoUpdate
  Garbled = {}
  MaxSlots = 3
  RawSlots = 3
  Saved <- EveryMinute
  MaxOutbox = 1
  MaxBoots = 0
  QueueLen = 2
  FaultThreshold = 2
  DayMinutes = 2
  Readings <- FailOrDry
INVARIANTS
  TypeOK
  OncePerMinute
  DeadSensorDose
  QuiescentGreen
PROPERTIES
  PumpStops
  DailyWatering
