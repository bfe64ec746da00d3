CONSTANTS
    x1 = x1
    x2 = x2
    Indices = {0, 1}
    MaxEpoch = 3
    Assigned <- Shifting
    BatchCap = 1
    MaxAttempts = 3
    Tasks = {t1}
    Watcher = watcher
    Challenges = {x1, x2}
    IndexOf <- OnFirst
    MaxResponded = 1
    MaxSpawns = 1
    MaxFaults = 1
    Nobody = Nobody
SPECIFICATION MCSpec
INVARIANTS
    OnlyHeldIsClaimed
    DoneIsAttested
    NoNonceGap
PROPERTIES
    ArchiveResponds
