SPECIFICATION Spec
CONSTANTS
  NumIndices = 3
  Generations = 2
  Containers = {scene}
  OpLimit = 4
  MaxOps = 4
INVARIANT RefsNameTheirEntity
CHECK_DEADLOCK FALSE
