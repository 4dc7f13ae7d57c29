SPECIFICATION Spec
CONSTANTS
    r1 = r1
    r2 = r2
    r3 = r3
    a1 = a1
    a2 = a2
    p1 = p1
    p2 = p2
    x1 = x1
    v1 = v1
    v2 = v2
    nobody = nobody
    ao1 = ao1
    None = None
    Requests = {r1, r2, r3}
    MaxInFlight = 3
    MaxLog = 3
    Operations = {"Create", "Update", "Upsert", "Change", "Submit", "EarlyChecks"}
    Apps = {a1}
    Products = {p1}
    Statuses <- ShortStatuses
    Terminal <- SeedTerminal
    Flows <- RejectingFlows
    Officers = {ao1}
    NilAO = nobody
    Channels = {"WALK_IN"}
    Terms = {"normal"}
    ZeroAmount = {}
    FailsIntake = {}
    OverLimit = {}
    Attributes = {}
    Values = {}
    Faults = TRUE
    LookupsFail = FALSE
CHECK_DEADLOCK FALSE
SYMMETRY Symmetric
INVARIANTS
    TypeOK
    AuditTrail
    AckedChangeHappened
PROPERTIES
    LockBrokenOnlyByRace
