SPECIFICATION Spec
CONSTANTS
  NumStep = 1
  MaxCrash = 1
INVARIANTS HostEventsReachDevice
