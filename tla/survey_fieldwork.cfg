SPECIFICATION Spec
CONSTANTS
    r1 = r1  r2 = r2  a1 = a1  a2 = a2  s1 = s1  s2 = s2  t1 = t1  t2 = t2
    q1 = q1  q2 = q2  v1 = v1  v2 = v2  u1 = u1
    Requests = {r1, r2}
    MaxInFlight = 2
    Operations = {"Assign", "Answer", "Upload", "Start", "Submit", "Verify"}
    Apps = {a1, a2}
    Statuses = {"SURVEY", "APPROVED"}
    Terminal = {"APPROVED"}
    Surveys = {s1}
    Templates = {t1}
    Questions = {q1}
    Values = {v1}
    Users = {u1}
    None = None
    MaxTime = 3
    MaxUploads = 1
    Faults = TRUE
    LookupsFail = FALSE
CHECK_DEADLOCK FALSE
SYMMETRY Symmetric
INVARIANT TypeOK
PROPERTIES RecordsProtected MilestonesKept
