SPECIFICATION Spec
CONSTANTS
    AccWindow = 3
    ScoreWindow = 2
    GyroWindow = 2
    StickMax = 7
    Steps <- MCSteps
    Keyed = {"classic_controller"}
    Keys = {"A", "B"}
    Deflections <- MCDeflections
    MaxReadings = 6
INVARIANTS
    TypeOK
    WindowIsRecent
    EachCountsOnce
    ScoresCompareNeighbours
    CalibratedOnce
    TouchedIsTrue
