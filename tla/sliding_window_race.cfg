\* Two callers whose calls overlap within a tick; nothing fails.
CONSTANTS
    Callers = {c1, c2}
    Rate = 1
    Window = 2
    Second = 1
    Nanos = 2
    MaxDelay = 0
    Envs = {"busy"}
SPECIFICATION Spec
INVARIANTS
    WindowLimit
