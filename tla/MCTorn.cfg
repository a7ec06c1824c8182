SPECIFICATION ConfigSpec
CONSTANTS
  Ports = {1, 2}
  Ids = {"c0", "c1"}
  NoId = "none"
  None = None
  Messages <- OneUpdate
  Garbled = {}
  MaxSlots = 8
  RawSlots = 7
  Saved <- OneSaved
  MaxOutbox = 1
  MaxBoots = 1
INVARIANTS
  IdNamesBody
