SPECIFICATION CursorSpec
CONSTANTS
    Attachable = {"wiimote", "motion_plus"}
    MaxEvents = 1
    MaxWatches = 1
    Pixels = 1
    StableScore = 1
INVARIANTS
    FoundIsAnnounced
