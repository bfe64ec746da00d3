CONSTANTS
    CIDs = {c1, c2}
    Callers = {t1, t2}
    Inodes = {i1, i2, i3}
    LegacyInodes = {old}
    Torn = Torn
    NoInode = NoInode
SPECIFICATION Spec
SYMMETRY Symmetry
INVARIANTS
    TypeOK
    PublishedIsWhole
    AckedIsDurable
PROPERTIES
    NeverClobbers
    RefinesBlobStore
