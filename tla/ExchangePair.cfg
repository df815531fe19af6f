SPECIFICATION Spec
CONSTANTS
  p1 = p1
  p2 = p2
  WorldSize = 2
  Dim = 2
  Particle <- TwoParticles
  bc <- Slab2
  NumCommRound = 2
  NumStep = 2
INVARIANTS
  TypeOK
  ParticleInOnePlace
  SizesMatch
  AbsorbedChargeOnce
PROPERTIES
  SendBufferStable
  MigrationSpec
