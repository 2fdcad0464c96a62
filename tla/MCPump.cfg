SPECIFICATION FairSpec
CONSTANTS
  SendBuffer = 2
  MaxFrames = 5
INVARIANTS
  TypeOK
  NoSilentGap
  AcceptedBeforeCloseDelivered
PROPERTIES
  ImplementsDelivery
  ClosedEnds
  AcceptedFramesGoOut
