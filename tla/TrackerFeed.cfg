SPECIFICATION FairSpec
CONSTANTS
  MaxPacket <- MCMaxPacket
  MaxPresses <- MCMaxPresses
  None = None
INVARIANTS
  TypeOK
  NoPressLost
  NeverChargedForAGap
  NothingSurvivesSuppression
  HalvesOfOnePacket
PROPERTIES
  HoldsThroughGaps
  RequestIsApplied
  CatchesUp
