SPECIFICATION Spec
CONSTANTS
  Channel = {c1, c2}
  a = a
  b = b
  AudioDev = {a, b}
  PttDev = {p, a}
  Binding <- SplitRig
  Worker = {w1}
  NoChannel = NoChannel
  NoDevice = NoDevice
  NoBinding = NoBinding
  NoWorker = NoWorker
  QueueDepth = 1
  MaxTx = 2
  MaxKeyed = 2
  Mode = {"none"}
  ManualKey = {c1, c2}
  Fault = {"key", "submit", "unkey", "gone"}
  MayExit = TRUE
SYMMETRY Symmetric
INVARIANTS
  NoStuckTransmitter
  JobLedger
\* The process may exit at any time, and then nothing happens any more.
CHECK_DEADLOCK FALSE
