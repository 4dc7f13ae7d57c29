SPECIFICATION FairSpec
CONSTANTS
    r1 = r1
    r2 = r2
    a1 = a1
    a2 = a2
    spare = spare
    k1 = k1
    k2 = k2
    k3 = k3
    None = None
    NoRow = NoRow
    Requests = {r1, r2}
    Walkers = {w1}
    Load = 2
    WalkLoad = 2
    Faults = TRUE
    ListFaults = TRUE
    Categories = {c1}
    Attributes = {a1, a2, spare}
    Seeded = {a1, a2}
    Codes = {k1, k2, k3}
    CodeOf <- MCCodeOf
    Owners = {o1}
    Applications = {p1}
    Parties = {m1}
    Roles = {owner}
    N = 3
    Statuses = {S1, S2}
    PageSizes <- MCPageSizes
    Tables <- MCTables
INVARIANTS
    CatalogTypeOK
    ListedWhole
    CategoryAnswers
    SavesAreWhole
    FileTypeOK
    AnsweredIsStored
    AckedIsSeen
    ListingTypeOK
    WalkComplete
    WalkDescends
PROPERTIES
    WalksEnd
    RequestsAnswered
CHECK_DEADLOCK FALSE
