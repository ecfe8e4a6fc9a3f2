CONSTANTS
    Blocks = 16
    PageSizes = {2, 4}
    Buf = 4
    MaxLsn = 5
    MaxTroubles = 3
SPECIFICATION Spec
INVARIANTS
    LostJournalIsMarked
    MountsForWritingAreSafe
    FixedVolumesMount
CHECK_DEADLOCK FALSE
