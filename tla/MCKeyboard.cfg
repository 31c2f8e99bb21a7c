SPECIFICATION Spec
CONSTANTS
    Ids = {1, 2}
    FirstId = 1
    Buttons = {"A", "B"}
    Keys = {"shift", "tab"}
    Wheels = {"up"}
    Profiles = {"desk.ini", "game.ini", "none.ini"}
    Groups <- MCGroups
    Commands <- MCCommands
INVARIANTS
    TypeOK
    KeysFollowButtons
    CommandsRunOnRise
