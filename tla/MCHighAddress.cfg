\* a number at register 0x400 or above
CONSTANTS
    SendWait = 1
    ReconnectDelay = 1
    TidModulus = 4
    TidWraps = FALSE
    Window = 1
    Units <- MCUnits
    Controllers = {c1}
    Unit <- One
    RangeList <- OneRange
    CustomRanges = {}
    CustomPayload <- MCCustomPayload
    RawBytes <- MCRawBytes
    Key <- MCKey
    Oversized = {}
    SkipUpdates <- NoSkip
    Numbers = {n1}
    Home <- HomeC1
    RangeOf <- RangeR1
    AddressHigh <- HighAddress
    Values = {v1}
    NoValue = NoValue
    Garbage = Garbage
    MaxRetries = 0
    SendCountModulus = 256
    Throttle = 0
    OfflineSkip = 0
    CounterModulus = 4
    AllowDuplicates = FALSE
    Exceptions = FALSE
    Repeats = FALSE
    Preemptive = FALSE
    MaxQueue = 3
    MaxIncoming = 2
    Nobody = Nobody
    c1 = c1
    c2 = c2
    r1 = r1
    r2 = r2
    r3 = r3
    r4 = r4
    n1 = n1
    v1 = v1
    v2 = v2
    bytes = bytes
SPECIFICATION Spec
PROPERTIES OfflineOnlyWhenSilent
