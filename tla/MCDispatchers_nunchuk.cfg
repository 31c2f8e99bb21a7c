SPECIFICATION Spec
CONSTANTS
    Attachable = {"wiimote", "nunchuk"}
    MaxEvents = 0
    MaxWatches = 1
INVARIANTS
    ConnectedNunchukIsListed
