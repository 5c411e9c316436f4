SPECIFICATION Spec
CONSTANTS
  t1 = t1
  t2 = t2
  Threads = {t1, t2}
  Keys = {k1, k2, k3}
  Parts = {p1}
  NumberOfBanks = 2
  BlocksPerBank = 1
  Rounds = 2
  Locations = {l1, l2, l3, l4, l5}
  NoLocation = NoLocation
  Junk = Junk
  Roles <- AllRoles
INVARIANTS OneOwner BitsAreOwned CounterFollowsBits LiveFetchIsOwn
PROPERTIES AloneFindsRoom
SYMMETRY KeySymmetry
VIEW View
