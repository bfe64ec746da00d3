SPECIFICATION FairSpec
CONSTANTS
  A = A
  B = B
  C = C
  Archives = {A, B, C}
  None = None
  Good = {C}
  MaxChunks = 3
  Ranking <- MCRanking
  AddressOrder <- MCAddressOrder
  Wanted <- MCWanted
  MaxConcurrent = 2
  Windows = 2
  Entries = {"none", "nobundle", "expired", "ok"}
INVARIANTS
    OutputIsTheFile
    NoArchiveIsMissed
PROPERTIES
    PublicCompletes
CHECK_DEADLOCK FALSE
