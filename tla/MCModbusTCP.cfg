\* two devices, one frame per direction, transaction ids that wrap
CONSTANTS
    SendWait = 1
    ReconnectDelay = 1
    TidModulus = 3
    TidWraps = TRUE
    Window = 1
    Units <- MCUnits
SPECIFICATION TCPSpec
INVARIANTS TCPTypeOK ConnectedIffOpen
PROPERTIES SendSpacing AlwaysReconnects BusIsReleased
