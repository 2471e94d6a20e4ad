SPECIFICATION Spec
CONSTANTS
  Frames <- ReadRequests
  MaxFrames = 1
  MaxLost = 0
  RxLimit = 12
  Timeout = 2
  OwnAddress = 1
  IsrPreemptsTick = TRUE
  MasterOutwaitsStore = TRUE
INVARIANTS
  PendingFrameKept
