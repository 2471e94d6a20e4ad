SPECIFICATION FairSpec
CONSTANTS
  Frames <- ReadRequests
  MaxFrames = 2
  MaxLost = 1
  RxLimit = 12
  Timeout = 1
  OwnAddress = 1
  IsrPreemptsTick = FALSE
  MasterOutwaitsStore = FALSE
PROPERTIES
  RequestServed
  ReceiverRecovers
