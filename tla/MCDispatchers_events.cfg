SPECIFICATION FairSpec
CONSTANTS
    Attachable = {"wiimote", "classic_controller", "motion_plus"}
    MaxEvents = 1
    MaxWatches = 2
INVARIANTS
    TickDeliversTable
    DataFollowsConnection
    DestroyedIsNotAWiimote
PROPERTIES
    AttachedIsListed
    LeftIsDropped
