SPECIFICATION Spec
CONSTANTS
    StickMax = 1
    Threshold = 1
    Files <- MCFiles
    Config <- MCConfig
    MaxLoads = 2
    Inputs = {"UP", "DOWN"}
    Leans <- MCLeans
    Readings <- MCReadings
    Turns = {1}
INVARIANTS
    TypeOK
    DescriptorsAreOwned
    ToldIsShown
PROPERTIES
    ImplementsJoystick
