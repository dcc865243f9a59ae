SPECIFICATION FairServerSpec
CONSTANTS
  Freqs <- Targets
  Rates <- Bands
  InitialRate = 20
  Depth = 1
  MaxChanges = 2
  MaxBlocks = 3
  MaxDrops = 1
INVARIANTS
  ChangesReachCapture
  OldestDroppedAndCounted
PROPERTY DroppedCaptureEnds
CHECK_DEADLOCK FALSE
