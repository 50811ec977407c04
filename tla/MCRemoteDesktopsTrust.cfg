CONSTANTS
    Parts = {"tab"}
    Profiles = {"direct", "behind"}
    Hosts = {"h", "loopback"}
    Address <- MCAddress
    Tunnelled = {"behind"}
    WithPassword = {"direct", "behind"}
    WithRedirects = {"behind"}
    MaxLaunches = 2
    MaxSockets = 1
    MaxRefusals = 0
    MaxRuns = 2
    Tabs = {"one", "two"}
    Targets = {"g", "h"}
    c1 = c1
    c2 = c2
    Certs = {c1, c2}
    None = None
    Target <- MCTarget
    Presents <- MCPresents
    TunnelledTabs = {"one"}
    AsksFirst = {}
    MaxAttempts = 3
    Files = 2
    MaxBatches = 2
    MaxSaves = 2
    MaxUploads = 1
SPECIFICATION TabSpec
INVARIANT NextOneIsTrusted
CHECK_DEADLOCK FALSE
