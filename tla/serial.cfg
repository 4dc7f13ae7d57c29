SPECIFICATION Spec
CONSTANTS
    r1 = r1
    r2 = r2
    r3 = r3
    a1 = a1
    a2 = a2
    p1 = p1
    p2 = p2
    x1 = x1
    v1 = v1
    v2 = v2
    nobody = nobody
    ao1 = ao1
    None = None
    Requests = {r1}
    MaxInFlight = 1
    MaxLog = 4
    Operations = {"Create", "Lead", "Update", "Upsert", "Change", "Submit", "EarlyChecks"}
    Apps = {a1}
    Products = {p1}
    Statuses <- LooseStatuses
    Terminal <- SeedTerminal
    Flows <- RejectingFlows
    Officers = {ao1}
    NilAO = nobody
    Channels = {"WALK_IN", "BRANCH"}
    Terms = {"zero", "normal", "large"}
    ZeroAmount = {"zero"}
    FailsIntake = {"zero"}
    OverLimit = {"large"}
    Attributes = {x1}
    Values = {v1}
    Faults = TRUE
    LookupsFail = FALSE
CHECK_DEADLOCK FALSE
INVARIANTS
    AuditChain
PROPERTIES
    AbstractSpec
    TerminalFrozen
