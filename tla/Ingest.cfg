CONSTANTS
    Manifest = Manifest
    Chunks = {c1}
    Archives = {a1, a2}
    Assign <- AssignOne
    R = 1
    PushRetries = 1
    Grace = 0
    MaxHeight = 1
    MaxOps = 3
    MaxEpochs = 2
    MaxLeave = 2
    Cmds = {"run", "resume", "abandon", "repush"}
SPECIFICATION MCSpec
CHECK_DEADLOCK FALSE
INVARIANTS
    TypeOK
    PushedIsReplicated
    RefusedIsFinal
    AbandonNotPremature
PROPERTIES
    RefinesLifecycle
