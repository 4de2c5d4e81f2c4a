SPECIFICATION JournalSpec
CONSTANTS
    Ids = {a, b, c, d, e}
    Max = 3
    Threshold = 3
    NoId = NoId
SYMMETRY Symmetry
INVARIANTS
    RecoverableUnlessTemporary
PROPERTIES
    NeverRefusedBelowCapacity
    ImplementsJournal
