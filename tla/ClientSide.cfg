CONSTANTS
  p1 = p1
  p2 = p2
  Snapshots <- MCSnapshots
  DScore <- MCDScore
  DCount = 2
  DR = 1
  DPeers = {1, 2, 3}
  MaxEvents = 5
  UploadCases <- MCUploads
  NoUpload = NoUpload
  Procs = {p1, p2}
  Scenarios <- MCScenarios
  DefaultR = 2
  MaxFaults = 2
  MaxRetries = 2
  Absent = Absent
SPECIFICATION ClientSpec
INVARIANTS
    PushesReachTheirTargets
    CommandsAreHonest
PROPERTIES
    EverythingEnds
CHECK_DEADLOCK FALSE
