SPECIFICATION PartsSpec
CONSTANTS
  c1 = c1
  c2 = c2
  s1 = s1
  s2 = s2
  s3 = s3
  s4 = s4
  web = web
  Inherit = Inherit
  Bad = Bad
  MaxHops = 3
  HostKeys = {k1, k2}
  MaxChanges = 1
  MaxDeaths = 1
  Calls <- MCCalls
  Wanted <- MCWanted
  Lists <- MCLists
  Machines <- MCMachines
  Ends <- MCEnds
  Hosts <- MCPolled
  MaxReloads = 2
  MaxEdits = 2
  LastStep = 2
  Parts = {"dials", "pollers", "setup"}
INVARIANTS
  NeverPastTheBastion
  NothingStaysOpen
  EveryMethodHasItsTurn
  PollersMatchHosts
  IdlePollersHoldNoSession
  KeyAuthFirst
  RecordsWhatIsSo
PROPERTIES
  BackoffClimbs
  NoReturnWithoutRollback
\* Every call is made once, every reload and every set-up too.
CHECK_DEADLOCK FALSE
