SPECIFICATION FairSpec
CONSTANTS
  Forms = {"good", "wrong"}
  Good = {"good"}
  Nothing = Nothing
  HoldThreshold = 2
  MaxBoots = 1
  MaxDrops = 1
INVARIANTS
  TypeOK
  SignalsLiveGroup
  SuccessIsReal
  RadioKept
  ProvisioningOver
  EraseIsFinal
PROPERTIES
  Reachable
  ProvisioningEnds
