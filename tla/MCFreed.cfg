SPECIFICATION Spec
CONSTANTS
  Forms = {"good", "wrong"}
  Good = {"good"}
  Nothing = Nothing
  HoldThreshold = 2
  MaxBoots = 0
  MaxDrops = 0
INVARIANTS
  StopsLiveServer
