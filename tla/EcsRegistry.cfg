SPECIFICATION Spec
CONSTANTS
  NumIndices = 3
  Generations = 2
  Containers = {scene, camera}
  OpLimit = 4
  MaxOps = 3
INVARIANTS TypeOK SetsLinked CountsMatch
CHECK_DEADLOCK FALSE
