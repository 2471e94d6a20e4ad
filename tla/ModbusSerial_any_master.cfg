SPECIFICATION Spec
CONSTANTS
  Frames <- FramedRequests
  MaxFrames = 2
  MaxLost = 1
  RxLimit = 12
  Timeout = 1
  OwnAddress = 1
  IsrPreemptsTick = FALSE
  MasterOutwaitsStore = FALSE
INVARIANTS
  TypeOK
  PendingFrameKept
  ReplyFromCheckedFrame
  ReplyFromFirstByte
PROPERTIES
  ReplyNotCut
  AnswersInOrder
