SPECIFICATION FairSpec
CONSTANTS
  Frames <- WrapRequests
  MaxFrames = 1
  MaxLost = 0
  RxLimit = 12
  Timeout = 1
  OwnAddress = 1
  IsrPreemptsTick = FALSE
  MasterOutwaitsStore = TRUE
PROPERTIES
  ReceiverRecovers
