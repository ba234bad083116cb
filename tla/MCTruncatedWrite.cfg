SPECIFICATION Spec
CONSTANTS
    Configurations <- MCConfigurations
    Addresses <- MCAddresses
    Unit = 17
    Tid <- MCTid
    Words <- MCWords
    Numbers <- MCNumbers
    NoValue = NoValue
PROPERTIES WritesTakeEffect
