SPECIFICATION Spec
CONSTANTS
    Names = {n1, n2}
    MaxAccounts = 3
    MaxCount = 2
    NoName = NoName
    NoList = NoList
    Gone = Gone
    Unknown = Unknown
SYMMETRY Symmetry
INVARIANTS
    TypeOK
    CardsAreOurs
    CardsKept
    OwnChangesShown
