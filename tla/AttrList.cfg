CONSTANTS
    Order <- MCOrder
    Kind <- MCKind
    EntrySize <- MCEntrySize
    Std = "std"
    Growing = {"root"}
    Extents = {1, 2}
    Cap = 8
    Clusters = {c1, c2}
    NoCluster = NoCluster
    MaxCalls = 3
SPECIFICATION Spec
SYMMETRY Symmetry
INVARIANTS
    ListNamesAttributes
    DirtyCoversChanges
    UnmovedSurvives
CHECK_DEADLOCK FALSE
