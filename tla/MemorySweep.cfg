SPECIFICATION Spec
CONSTANTS
  Limit <- MCLimit
  Heaps = {A, B}
  Layouts <- MCLayouts
  Blocks <- MCBlocks
  kSlice = 6
  window = 2
  A = A
  B = B
  None = None
  kChangeBound = 2
SYMMETRY Symmetry
CHECK_DEADLOCK FALSE
INVARIANTS
  StillBlockIsFound
  AnswerIsNotACopy
