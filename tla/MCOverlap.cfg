\* Sensors that share some of their registers.
SPECIFICATION Spec
CONSTANTS
    Sensors <- MCSensors
    Orders <- MCOrders
    Items <- MCItems
    ByteModulus = 8
INVARIANT ReadsItsRegisters
CHECK_DEADLOCK FALSE
