SPECIFICATION Spec
CONSTANTS
  Worlds = {w1}
  Cameras = {camera}
  Rotations = {turned}
  Leans = {leaned}
  Unusable = {}
  None = None
INVARIANT InterfaceSameCamera
