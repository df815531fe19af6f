SPECIFICATION FairSpec
CONSTANTS
  NPipeline = 4
  DispatchToHost = 1
  NumDispatch = 2
  MaxSpurious = 1
INVARIANTS TypeOK JobsRunOnce DestroyedUnused
PROPERTIES AssignedJobKept ForkJoinSpec EverythingReturns
CHECK_DEADLOCK FALSE
