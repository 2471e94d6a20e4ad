SPECIFICATION Spec
CONSTANTS
  Frames <- BaudRequests
  MaxFrames = 2
  MaxLost = 0
  RxLimit = 12
  Timeout = 1
  OwnAddress = 1
  IsrPreemptsTick = FALSE
  MasterOutwaitsStore = TRUE
INVARIANTS
  ReplyFromFirstByte
