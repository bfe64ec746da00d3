SPECIFICATION OwnerSpec
CONSTANTS
  o = o
  r1 = r1
  r2 = r2
  r3 = r3
  a1 = a1
  a2 = a2
  f1 = f1
  f2 = f2
  None = None
  Owner = o
  People = {r1, r2, r3}
  Archives = {a1, a2}
  Me = a1
  Files = {f1, f2}
  PrivateFile = f1
  Holders <- MCHolders
  Procs = {1, 2, 3}
  Menus <- MCMenus
  FirstList <- MCList
  PageSize = 2
  MaxPages = 3
  ReadAttempts = 2
  MaxBlocks = 2
  MaxMoves = 1
  MaxRunning = 2
  MaxFaults = 1
INVARIANTS
    AccessStaysUsable
    VerdictsHold
PROPERTIES
    CommandsEnd
CHECK_DEADLOCK FALSE
