SPECIFICATION Spec
CONSTANTS
    r1 = r1  r2 = r2  a1 = a1  a2 = a2  i1 = i1  i2 = i2  k1 = k1  m1 = m1
    Requests = {r1, r2}
    MaxInFlight = 1
    Apps = {a1, a2}
    Statuses = {"SURVEY", "APPROVED"}
    Terminal = {"APPROVED"}
    Keys = {k1}
    Items = {i1}
    Kinds = {"asset", "liability"}
    Amounts = {"0", m1}
    Zero = "0"
    Garbled = "garbled"
    None = None
    OwnItems = FALSE
    Faults = FALSE
    LookupsFail = FALSE
CHECK_DEADLOCK FALSE
PROPERTY FinancialDataFrozen
