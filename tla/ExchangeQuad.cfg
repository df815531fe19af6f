SPECIFICATION CornerSpec
CONSTANTS
  p1 = p1
  p2 = p2
  WorldSize = 4
  Dim = 2
  Particle <- OneParticle
  bc <- Quad
  NumCommRound = 2
  NumStep = 1
INVARIANTS
  GuardListEmptied
  NeighboursInStep
  PortsQuiet
PROPERTIES
  EveryStepEnds
CHECK_DEADLOCK FALSE
