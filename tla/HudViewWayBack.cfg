SPECIFICATION Spec
CONSTANTS
  Threads = {t1}
  Elements = {e1, e2}
  Views = {view}
  Poses = {aimed}
  OffScreen = {}
  None = None
PROPERTY OffReticleComesBack
