SPECIFICATION Spec
CONSTANTS
  Addr = {1, 2, 3}
  World = 8
  Simulation = 9
  Name = {0, 1}
  MaxStep = 1
  MaxObject = 5
  MaxStart = 2
INVARIANTS IdsUnique PointersCurrent NothingFails OnlyCollisionsLeft
PROPERTIES PersistSpec
