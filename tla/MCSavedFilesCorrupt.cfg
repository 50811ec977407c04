CONSTANTS
    Parts = {"hosts"}
    Files = {"hosts", "desktops"}
    Calls = {1, 2}
    None = None
    Garbled = Garbled
    FirstLists <- MCFirstLists
    Names = {"i", "n"}
    Imports = {"i"}
    MaxCrashes = 1
    MaxRefusals = 1
    Ids = {1, 2}
    FileHosts = {"a", "b"}
    Jump <- MCJump
    Via = "a"
    Profile = "p"
    Config = {"b"}
    NewNames = {"x", "y"}
    NoLink = NoLink
    Nobody = Nobody
    Applies = {1, 2}
    MaxPreviews = 1
    MaxOthers = 1
    MaxFailures = 1
    Cards = {"c", "d"}
    Folders = {"f", "g"}
    NoFolder = NoFolder
    MaxMoves = 3
    MaxStarts = 1
SPECIFICATION PartsSpec
INVARIANT OverlapKeepsTheFile
CHECK_DEADLOCK FALSE
