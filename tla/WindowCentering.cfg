SPECIFICATION FairSpec
CONSTANTS
  Axes <- MCAxes
  Work <- MCWork
  Monitor <- MCMonitor
  Points <- MCPoints
  Extents <- MCExtents
  Placeholder <- MCPlaceholder
  kPollAttempts <- MCPollAttempts
  kSettlePolls <- MCSettlePolls
  None = None
INVARIANTS
  TypeOK
  GameLandsCentered
  MoveCentersIt
PROPERTY BootstrapEnds
