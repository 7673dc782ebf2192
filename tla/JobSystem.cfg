SPECIFICATION FairSpec
CONSTANTS
  NumWorkers = 2
  Capacity = 3
  MaxJobs = 3
VIEW LiveState
INVARIANTS TypeOK HandedIsHeldOrFreed JobOwnership NothingOutlivesDestroy
PROPERTIES JobsAreServed ExitIsConfirmed
CHECK_DEADLOCK FALSE
