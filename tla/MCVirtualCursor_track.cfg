SPECIFICATION CursorSpec
CONSTANTS
    Attachable = {"wiimote", "motion_plus"}
    MaxEvents = 1
    MaxWatches = 1
    Pixels = 2
    StableScore = 1
INVARIANTS
    DestroyedHasNoCursor
    GoneCursorIsHidden
    PairFitsFrame
