\* two controllers share the bus, with allow_duplicate_commands and
\* offline_skip_updates; the server may refuse or ignore a request or answer late,
\* callbacks run between the handlers, nothing is written
CONSTANTS
    SendWait = 1
    ReconnectDelay = 0
    TidModulus = 5
    TidWraps = FALSE
    Window = 1
    Units <- MCUnits
    Controllers = {c1, c2}
    Unit <- OneAndTwo
    RangeList <- TwoAndOne
    CustomRanges = {}
    CustomPayload <- MCCustomPayload
    RawBytes <- MCRawBytes
    Key <- MCKey
    Oversized = {}
    SkipUpdates <- SkipOne
    Numbers = {}
    Home <- HomeC1
    RangeOf <- RangeR1
    AddressHigh <- LowAddress
    Values = {v1}
    NoValue = NoValue
    Garbage = Garbage
    MaxRetries = 1
    SendCountModulus = 256
    Throttle = 0
    OfflineSkip = 2
    CounterModulus = 4
    AllowDuplicates = TRUE
    Exceptions = TRUE
    Repeats = FALSE
    Preemptive = FALSE
    MaxQueue = 3
    MaxIncoming = 2
    Nobody = Nobody
    c1 = c1
    c2 = c2
    r1 = r1
    r2 = r2
    r3 = r3
    r4 = r4
    n1 = n1
    v1 = v1
    v2 = v2
    bytes = bytes
SPECIFICATION Spec
INVARIANTS OnlyFrontInFlight OnlineRangesPollOnTime AnsweringDeviceIsOnline
PROPERTIES SendSpacing
