SPECIFICATION Spec
CONSTANTS
  Axes <- MCAxes
  Work <- MCWork
  Monitor <- MCMonitor
  Points <- MCPoints
  Extents <- MCExtents
  Placeholder <- MCPlaceholder
  kPollAttempts <- MCPollAttempts
  kSettlePolls <- MCSettlePolls
  None = None
PROPERTY LeftWhereItIs
