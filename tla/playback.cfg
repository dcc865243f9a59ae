SPECIFICATION FairPlaybackSpec
CONSTANTS
  ChanDepth = 1
  BurstLen <- Bursts
  MaxCycles = 4
INVARIANTS
  UnkeyAfterLastSample
PROPERTY CycleEnds
