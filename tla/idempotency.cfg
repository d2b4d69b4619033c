\* Three requests with one key, two mishaps of any kind.
CONSTANTS
    Requests = {r1, r2, r3}
    LockTTL = 2
    RecordTTL = 2
    MaxMishaps = 2
    Faults = {"error", "lost", "retried", "crash"}
SPECIFICATION FairSpec
INVARIANTS
    TypeOK
    Exclusive
PROPERTIES
    AtMostOnce
    StoredOnce
    Answered
