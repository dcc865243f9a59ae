SPECIFICATION Spec
CONSTANTS
    a1 = a1
    a2 = a2
    a3 = a3
    Icao = {a1, a2, a3}
    Signals <- MCSignals
    ChunkSizes = {2, 5}
    Guard = 3
    Short = 2
    Long = 3
    RosterCap = 2
    Ttl = 12
    ClientTtl = 12
    PairWindow = 2
    Reach = 10
    PrunePeriod = 2
    Ring = 1
    Gaps = {3, 10}
    Delays = {14}
    MaxFaults = 1
    NoData = NoData
    Elsewhere = Elsewhere
    NoHalf = NoHalf
    NoTrack = NoTrack
    NoContact = NoContact
INVARIANTS
    HeardInTurn
    NothingInvented
    NoGhostPosition
    ViewAgrees
CHECK_DEADLOCK FALSE
