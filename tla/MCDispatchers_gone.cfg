SPECIFICATION Spec
CONSTANTS
    Attachable = {"wiimote", "classic_controller", "motion_plus"}
    MaxEvents = 0
    MaxWatches = 1
INVARIANTS
    GoneIsListedNowhere
