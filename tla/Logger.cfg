SPECIFICATION FairSpec
CONSTANTS
  Printers = {systems, worker}
  SystemsThread = systems
  LogBufferSize = 1
  MaxLines = 5
INVARIANTS EachLineOnce PendingHasItsJob
PROPERTY LinesReachTheFile
CHECK_DEADLOCK FALSE
