CONSTANTS
    pub = pub
    priv1 = priv1
    priv2 = priv2
    v1 = v1
    Roots = {pub, priv1, priv2, v1}
    Positions <- AllPositions
    CIDs = {"common"}
    RootOf <- FileOfPosition
    CidOf <- OneCid
    Private = {priv1, priv2}
    Pushable <- V2Positions
    Fundable = {v1, pub}
    Handlers = {h1, h2}
    Grace = 2
    Faults = {"kill", "power"}
    None = None
    Kinds = {"gc", "keyed", "private"}
    Crashes = {"kill", "power"}
    Appended <- MCAppended
    Legacy <- MCLegacy
    Damaged <- MCDamaged
    NoList = NoList
    Lost = Lost
    Bad = Bad
    Glued = Glued
    MaxLines = 3
SPECIFICATION MCSpec
SYMMETRY Symmetry
INVARIANTS
    AckedSurvives
    HeldIsBacked
    PublicManifestKept
    RecordsAreKept
PROPERTIES
    GraceRespected
