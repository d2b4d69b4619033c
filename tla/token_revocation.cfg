\* Two callers, three tokens, every fault.
CONSTANTS
    Callers = {c1, c2}
    None = None
    u1 = u1
    u2 = u2
    j1 = j1
    j2 = j2
    j3 = j3
    s1 = s1
    Tokens <- SomeTokens
    Horizon = 2
    Faults = {"error", "lost", "retried", "crash"}
SPECIFICATION Spec
SYMMETRY Symmetry
INVARIANTS
    TypeOK
    RevocationLasts
    OnlyRevoked
    EternalOnlyExpired
