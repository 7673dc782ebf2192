SPECIFICATION Spec
CONSTANTS
  NumIndices = 3
  Generations = 2
  Values = {v1, v2}
  Foreign <- MCForeign
  MaxCreates = 3
INVARIANTS TypeOK CrossLinked StaleHandlesAreDead
PROPERTY RefinesHandleMap
