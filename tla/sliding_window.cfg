\* Two callers that may read the same instant, in every environment.
CONSTANTS
    Callers = {c1, c2}
    Rate = 2
    Window = 3
    Second = 1
    Nanos = 2
    MaxDelay = 1
    Envs = {"calm", "busy", "faulty"}
SPECIFICATION Spec
SYMMETRY Symmetry
INVARIANTS
    TypeOK
    EntriesBounded
    KeyExpires
    CalmWindowLimit
    CalmRefusal
