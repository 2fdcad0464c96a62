SPECIFICATION Spec
CONSTANTS
  SendBuffer = 2
  MaxFrames = 5
INVARIANTS
  TerminalFrameReachesClient
