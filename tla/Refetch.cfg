SPECIFICATION Spec
CONSTANTS
  me = me
  a = a
  b = b
  None = None
  Archives <- MCArchives
  Me = me
  ChunkCount = 2
  Assignments <- MCAssignments
  Callers = {listen, task}
  Listen = listen
  Task = task
  Trusted = task
  Timings <- MCTimings
  SourcesPerChunk = 2
  FilesPerRun = 2
  ChunksPerRun = 2
  EpochsConsulted = 2
  Visibilities = {"public", "private"}
INVARIANTS
    PlacementIsSound

    
CHECK_DEADLOCK FALSE
