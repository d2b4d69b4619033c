\* Three requests with one key; nothing fails.
CONSTANTS
    Requests = {r1, r2, r3}
    LockTTL = 2
    RecordTTL = 2
    MaxMishaps = 0
    Faults = {}
SPECIFICATION Spec
INVARIANTS
    LeaseHolderAlone
