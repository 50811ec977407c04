SPECIFICATION Spec
CONSTANTS
  Hosts = {web, db}
  MaxReloads = 2
  MaxEdits = 1
  LastStep = 2
INVARIANTS
  OnePollerPerHost
