SPECIFICATION FairSpec
CONSTANTS
  Channel = {c1}
  a = a
  b = b
  AudioDev = {a}
  PttDev = {p}
  Binding <- OneRig
  Worker = {w1, w2}
  NoChannel = NoChannel
  NoDevice = NoDevice
  NoBinding = NoBinding
  NoWorker = NoWorker
  QueueDepth = 2
  MaxTx = 2
  MaxKeyed = 1
  Mode = {"tx"}
  ManualKey = {}
  Fault = {"encode", "key", "submit", "unkey"}
  MayExit = FALSE
INVARIANTS
  NoStuckTransmitter
  FirstAcceptedFirstServed
PROPERTIES
  ServicePromise
  CancelledEnds
  StartedCompletes
  QueuedIsServed
