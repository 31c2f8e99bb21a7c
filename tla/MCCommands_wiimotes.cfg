SPECIFICATION FairCommandSpec
CONSTANTS
    Controllers = {c1, c2}
    NoController = NoController
    Size = 3
    PlugKinds = {"wiimote"}
    MonitorValid = TRUE
INVARIANTS
    RumbleIsAsAnswered
    OnePlace
    UniqueIds
    HandoffCounted
    NoControllerOutlivesTables
    NoIdLost
    EveryoneGetsAnId
PROPERTIES
    ImplementsRegistry
    AnnouncedIsServed
    GoneIsRetired
    TermEnds
