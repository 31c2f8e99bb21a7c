SPECIFICATION Spec
CONSTANTS
    Controllers = {c1, c2}
    NoController = NoController
    Size = 3
    PlugKinds = {"balance_board"}
    MonitorValid = TRUE
INVARIANTS
    EveryRemoteHasItsOwnId
