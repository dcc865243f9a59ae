SPECIFICATION FairSpec
CONSTANTS
    usb = usb
    card = card
    ft8 = ft8
    adsb = adsb
    None = None
    Devices <- MCDevices
    Exclusive <- MCExclusive
    TxDevices <- MCTxDevices
    Sdrs <- MCSdrs
    Modes <- MCModes
    Adsb = adsb
    Rates <- MCRates
    MaxRate = 48
INVARIANTS
    ReconnectKeepsFeed
    AckedIsDurable
PROPERTIES
    RefusalKeepsFeed
    AckedFeedRuns
    RestartReopens
    GoneDeviceUnbound
