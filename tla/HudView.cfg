SPECIFICATION Spec
CONSTANTS
  Threads = {t1, t2}
  Elements = {e1, e2}
  Views = {view}
  Poses = {aimed, turnedAway}
  OffScreen = {turnedAway}
  None = None
SYMMETRY ThreadAndElementSymmetry
INVARIANTS
  CapturedIsLive
  VisibilityIsTheEngines
  DrawnWhereItAims
  OneReticleComesBack
PROPERTIES
  StockInterfaceSpec
