SPECIFICATION Spec
CONSTANTS
  MaxPacket = 1
  MaxPresses = 1
  None = None
INVARIANT DisabledHalfIsStill
