SPECIFICATION Spec
CONSTANTS
  Payload <- Payloads
  Lanes = 2
  PreambleFlags = 1
  PostambleFlags = 1
  MaxLevels = 112
  Window = 3
  Noise <- Noises
  Idle = {0, 82}
  FlipAt = {14, 38, 46}
  MaxSent = 2
  MaxNoise = 1
  MaxFlips = 1
INVARIANTS ReceivedWasSent IntactReceived CloseCopiesMerged
CHECK_DEADLOCK FALSE
