SPECIFICATION Spec
CONSTANTS
    r1 = r1
    r2 = r2
    r3 = r3
    a1 = a1
    a2 = a2
    p1 = p1
    p2 = p2
    x1 = x1
    v1 = v1
    v2 = v2
    nobody = nobody
    ao1 = ao1
    None = None
    Requests = {r1, r2}
    MaxInFlight = 2
    MaxLog = 4
    Operations = {"Create", "Change", "Upsert"}
    Apps = {a1}
    Products = {p1}
    Statuses <- ShortStatuses
    Terminal <- SeedTerminal
    Flows <- RejectingFlows
    Officers = {ao1}
    NilAO = nobody
    Channels = {"WALK_IN"}
    Terms = {"normal"}
    ZeroAmount = {}
    FailsIntake = {}
    OverLimit = {}
    Attributes = {}
    Values = {}
    Faults = FALSE
    LookupsFail = FALSE
CHECK_DEADLOCK FALSE
PROPERTIES
    TerminalFrozen
