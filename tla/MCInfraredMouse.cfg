SPECIFICATION Spec
CONSTANTS
    MouseGroups <- MCMouseGroups
    Accelerated = {"fast"}
    Ids = {1, 2}
    IdOf <- MCIdOf
    AccTimeout = 1
    Scale = 2
    Deadzone = 1
    Points <- MCPoints
    Boost <- MCBoost
    Garbage <- MCGarbage
    Counts = {0, 2}
INVARIANTS
    DeviceOutlivesThreads
    PointerFollowsCursor
PROPERTIES
    LostPointerRests
    UnloadEnds
CHECK_DEADLOCK FALSE
