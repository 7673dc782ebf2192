SPECIFICATION FairSpec
CONSTANTS
  NumFrames = 2
  MaxSize = 1
  Names = {sprite}
  NumWorkers = 2
  JobRoom = 1
  RingRoom = 1
  MaxTextures = 2
  Objects = {sign}
INVARIANTS
  TypeOK SpareSemaphoreIsIdle FrameSlotIsFree FramesReadLiveTextures
  RegistryIsLive JobsEndBeforeDiscard OnlyUnnamedImagesLeak
PROPERTIES LoadsSettle ShutdownEnds
CHECK_DEADLOCK FALSE
