SPECIFICATION FairSpec
CONSTANTS
  Us = us
  Others = {other}
  NoChannel = none
  Rig = rig
  MaxSends = 3
  MaxForeign = 1
  MaxLost = 1
INVARIANTS
  IssuedOnceInOrder
  QuietMeansReleased
PROPERTIES
  NothingStale
  SendEnds
