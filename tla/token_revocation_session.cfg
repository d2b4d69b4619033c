\* Two callers, a session of three tokens, nothing fails.
CONSTANTS
    Callers = {c1, c2}
    None = None
    u1 = u1
    u2 = u2
    j1 = j1
    j2 = j2
    j3 = j3
    s1 = s1
    Tokens <- OneSession
    Horizon = 3
    Faults = {}
SPECIFICATION Spec
INVARIANTS
    RevocationLasts
