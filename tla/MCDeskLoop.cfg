CONSTANTS
    Parts = {"library"}
    Automations = {a, b}
    New = New
    None = None
    NoName = NoName
    MaxTabs = 2
    MaxTrail = 2
    MaxSaves = 2
    MaxStarts = 2
    MaxStops = 1
    Calls = {1, 2}
    Bases = {"a", "b"}
    Ids = {1, 2}
    FirstLibraries <- MCFirst
    MaxSteps = 1
    MaxCalls = 2
    MaxCrashes = 1
SPECIFICATION PartsSpec
INVARIANT NoneRunsItself
CHECK_DEADLOCK FALSE
