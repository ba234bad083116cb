\* Setup ends, so the system may stop.
SPECIFICATION Spec
CONSTANTS
    Sensors <- MCSensors
    Orders <- MCOrders
    Items <- MCItems
    ByteModulus = 8
INVARIANTS TypeOK EverySensorInOneRange OwnRegistersAreRead SensorsAreFound LowestSkip
PROPERTY SetupEnds
CHECK_DEADLOCK FALSE
