SPECIFICATION Spec
CONSTANTS
  s1 = s1
  s2 = s2
  c1 = c1
  c2 = c2
  web = web
  Sessions <- MCSessions
  Calls <- MCCalls
  Keys <- MCKeys
  MaxLeases = 2
  MaxDials = 2
INVARIANTS
  NoLeaseLost
  NotCutByOthers
PROPERTIES
  CallsSettle
