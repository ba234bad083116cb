\* one controller that reads a range and writes a number, with callbacks that
\* interrupt the main task (as on the ESP32); the server may refuse or ignore a
\* request, answer late or twice, and the connection may be lost
CONSTANTS
    SendWait = 1
    ReconnectDelay = 0
    TidModulus = 5
    TidWraps = FALSE
    Window = 1
    Units <- MCUnits
    Controllers = {c1}
    Unit <- One
    RangeList <- OneRange
    CustomRanges = {}
    CustomPayload <- MCCustomPayload
    RawBytes <- MCRawBytes
    Key <- MCKey
    Oversized = {}
    SkipUpdates <- NoSkip
    Numbers = {n1}
    Home <- HomeC1
    RangeOf <- RangeR1
    AddressHigh <- LowAddress
    Values = {v1}
    NoValue = NoValue
    Garbage = Garbage
    MaxRetries = 1
    SendCountModulus = 256
    Throttle = 0
    OfflineSkip = 0
    CounterModulus = 4
    AllowDuplicates = FALSE
    Exceptions = TRUE
    Repeats = TRUE
    Preemptive = TRUE
    MaxQueue = 3
    MaxIncoming = 2
    Nobody = Nobody
    c1 = c1
    c2 = c2
    r1 = r1
    r2 = r2
    r3 = r3
    r4 = r4
    n1 = n1
    v1 = v1
    v2 = v2
    bytes = bytes
SPECIFICATION Spec
INVARIANTS TypeOK NoDuplicateCommands OnlyFrontInFlight
PROPERTIES SentCommandsGetTheirAnswer ImplementsCommandQueues
