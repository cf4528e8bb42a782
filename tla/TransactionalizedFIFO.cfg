SPECIFICATION Spec
CONSTANTS
  depth = 3
  Data = {0, 1}
INVARIANTS SpaceIsExact
PROPERTIES HeldEntriesKept ReadDataIsNext ImplementsQueue
