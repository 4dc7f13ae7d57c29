SPECIFICATION FairSpec
CONSTANTS
    r1 = r1  r2 = r2  a1 = a1  a2 = a2  n1 = n1  n2 = n2  d1 = d1
    t1 = t1  t2 = t2  v1 = v1
    Requests = {r1, r2}
    Operations = {"Create", "Update", "Upsert", "Get"}
    Applicants = {a1, a2}
    Numbers = {n1, n2}
    Dates = {d1}
    Attributes = {t1, t2}
    Registered = {t1}
    Values = {v1}
    None = None
    Faults = TRUE
CHECK_DEADLOCK FALSE
INVARIANTS TypeOK AnswersArePersisted
PROPERTIES AtomicProfiles EveryRequestAnswered
