SPECIFICATION Spec
CONSTANTS
  u1 = u1
  u2 = u2
  u3 = u3
  web = web
  db = db
  Users <- MCUsers
  Keys <- MCKeys
  MaxLeases = 2
  MaxDials = 3
INVARIANTS
  LeaseAccounting
  LivesWithItsLeases
PROPERTIES
  NeverJoinsDead
  AcquireSettles
  ImplementsShared
