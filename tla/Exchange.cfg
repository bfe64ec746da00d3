SPECIFICATION Spec
CONSTANTS
  Peers = {p1, p2}
  RequestsV1 <- MCRequestsV1
  RequestsV2 <- MCRequestsV2
  ManifestCids <- MCManifestCids
  Subjects <- MCSubjects
  NoSlot = NoSlot
  EventCap = 1
  MaxRequests = 2
  MaxInbound = 1
  MaxReissue = 1
  MaxForget = 1
  Timeout = 1
  ChannelTTL = 1
  RecordTTL = 2
  PoisonTTL = 3
INVARIANTS
    RequestsAreKeptApart
    RecordsOutliveRequests
PROPERTIES
    ExchangesEnd
CHECK_DEADLOCK FALSE
