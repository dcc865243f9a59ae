SPECIFICATION Spec
CONSTANTS
  Channel = {c1, c2}
  a = a
  b = b
  AudioDev = {a}
  PttDev = {p}
  Binding <- OneRig
  Worker = {w1, w2}
  NoChannel = NoChannel
  NoDevice = NoDevice
  NoBinding = NoBinding
  NoWorker = NoWorker
  QueueDepth = 1
  MaxTx = 2
  MaxKeyed = 2
  Mode = {"tx"}
  ManualKey = {}
  Fault = {}
  MayExit = FALSE
SYMMETRY Symmetric
INVARIANTS
  InterlockExact
PROPERTY LeaseKeepsRigClear
