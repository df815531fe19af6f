SPECIFICATION Spec
CONSTANTS
  NumStep = 2
  MaxCrash = 1
INVARIANTS
  DeviceCurrent
  DumpsCurrent
  StampMeansCurrent
