SPECIFICATION FairSpec
CONSTANTS
    r1 = r1
    r2 = r2
    r3 = r3
    a1 = a1
    a2 = a2
    p1 = p1
    p2 = p2
    x1 = x1
    v1 = v1
    v2 = v2
    nobody = nobody
    ao1 = ao1
    None = None
    Requests = {r1, r2}
    MaxInFlight = 2
    MaxLog = 2
    Operations = {"Create", "Upsert", "Change", "Submit", "EarlyChecks", "Lead"}
    Apps = {a1}
    Products = {p1, p2}
    Statuses <- ShortStatuses
    Terminal <- SeedTerminal
    Flows <- TwoProductFlows
    Officers = {ao1, nobody}
    NilAO = nobody
    Channels = {"WALK_IN"}
    Terms = {"normal", "large"}
    ZeroAmount = {}
    FailsIntake = {}
    OverLimit = {"large"}
    Attributes = {}
    Values = {}
    Faults = TRUE
    LookupsFail = TRUE
CHECK_DEADLOCK FALSE
INVARIANTS
    StatusInFlow
PROPERTIES
    EveryRequestAnswered
