SPECIFICATION Spec
CONSTANTS
  NumNodes = 3
  Generations = 2
  MaxOps = 6
  Kinds = {"Slot", "Button"}
INVARIANTS TypeOK DeadAreTheHoles ChildrenAreLinked ListenersAreOwn OnlySelectedShows
PROPERTY RefinesTree
CHECK_DEADLOCK FALSE
