SPECIFICATION FairSpec
CONSTANTS
  NumWorkers = 1
  Capacity = 2
  MaxJobs = 1
PROPERTY ShutdownCompletes
CHECK_DEADLOCK FALSE
