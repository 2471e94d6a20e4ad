SPECIFICATION Spec
CONSTANTS
  Frames <- WriteRequests
  MaxFrames = 2
  MaxLost = 0
  RxLimit = 12
  Timeout = 1
  OwnAddress = 1
  IsrPreemptsTick = FALSE
  MasterOutwaitsStore = FALSE
INVARIANTS
  StoredAsAnswered
