CONSTANTS
    Caller = {g1, g2}
    Addr = {a1}
    MaxStarts = 2
    Client = {h1}
    Script <- HostScript
    ReadSizes = {5, 10}
    QueueSize = 1
    Ring = 1
    MaxAir = 2
SPECIFICATION FairSpec
INVARIANTS EntryIsRunning HostFramesInOrder AirFramesGapless
PROPERTY StoppedConnectionsClose
