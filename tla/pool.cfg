SPECIFICATION FairSpec
CONSTANTS
    r1 = r1
    r2 = r2
    o1 = o1
    Readers = {r1, r2}
    Others = {o1}
    MaxOpenConns = 3
    NSections = 2
    NQuestions = 1
    Timeouts = TRUE
    Faults = TRUE
INVARIANTS
    TypeOK
    NoLeak
    NeverAllWaiting
    PartsLostOnlyByFailure
PROPERTIES
    EveryRequestAnswered
