SPECIFICATION FairSpec
CONSTANTS
  Worlds <- MCWorlds
  Cameras <- MCCameras
  Rotations <- MCRotations
  Leans <- MCLeans
  Unusable <- MCUnusable
  None = None
INVARIANTS
  TypeOK
  NothingCompounds
  CleanIsTheGames
  SwitchedOffDrawsStock
  NeverMakesUnusable
  InterfaceFollowsCamera
  NoSilentRefusal
  NoFrameBeforeItsState
PROPERTIES
  StockRenderSpec
  OffReturnsToStock
