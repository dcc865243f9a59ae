SPECIFICATION Spec
CONSTANTS
  Channel = {c1}
  a = a
  b = b
  AudioDev = {a}
  PttDev = {p}
  Binding <- OneRig
  Worker = {w1}
  NoChannel = NoChannel
  NoDevice = NoDevice
  NoBinding = NoBinding
  NoWorker = NoWorker
  QueueDepth = 1
  MaxTx = 1
  MaxKeyed = 2
  Mode = {"none", "tx"}
  ManualKey = {c1}
  Fault = {}
  MayExit = FALSE
INVARIANT NoStuckTransmitter
