SPECIFICATION Spec
CONSTANTS
    Remotes = {1, 2}
    Positions = {"lost", "origin", "here"}
    Frames <- MCFrames
    Targets = {"here"}
INVARIANTS
    TypeOK
    SignalsAreStored
    PointsAreShown
    CursorsAreShown
