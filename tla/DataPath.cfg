CONSTANTS
  o = o
  r1 = r1
  r2 = r2
  Absent = Absent
  CHUNK_SIZE = 3
  TAG_SIZE = 1
  MaxU64 = 3
  Cases <- MCCases
  Accounts = {o, r1, r2}
  FileOwner = o
  Archives = {1, 2, 3}
SPECIFICATION PathSpec
INVARIANTS
    FileIsIntact
    PlacementAgrees
    ChecksAreExact
CHECK_DEADLOCK FALSE
