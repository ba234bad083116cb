\* a range, a range of too many registers and two that are read by custom commands,
\* one of them without a payload; the transaction ids wrap, and a send count of 3
\* values is the smallest that can exceed a limit of one repeat
CONSTANTS
    SendWait = 0
    ReconnectDelay = 0
    TidModulus = 2
    TidWraps = TRUE
    Window = 1
    Units <- MCUnits
    Controllers = {c1}
    Unit <- One
    RangeList <- FourRanges
    CustomRanges = {r2, r4}
    CustomPayload <- MCCustomPayload
    RawBytes <- MCRawBytes
    Key <- MCKey
    Oversized = {r3}
    SkipUpdates <- NoSkip
    Numbers = {}
    Home <- HomeC1
    RangeOf <- RangeR1
    AddressHigh <- LowAddress
    Values = {v1}
    NoValue = NoValue
    Garbage = Garbage
    MaxRetries = 1
    SendCountModulus = 3
    Throttle = 0
    OfflineSkip = 0
    CounterModulus = 4
    AllowDuplicates = FALSE
    Exceptions = FALSE
    Repeats = FALSE
    Preemptive = FALSE
    MaxQueue = 3
    MaxIncoming = 2
    Nobody = Nobody
    c1 = c1
    c2 = c2
    r1 = r1
    r2 = r2
    r3 = r3
    r4 = r4
    n1 = n1
    v1 = v1
    v2 = v2
    bytes = bytes
SPECIFICATION FairSpec
INVARIANTS NoDuplicateCommands
PROPERTIES CommandsLeaveTheQueue ResponsesAreProcessed OfflineOnlyWhenSilent
