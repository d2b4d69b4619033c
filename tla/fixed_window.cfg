\* Every fault; three callers; windows of five ticks, of which the client cuts
\* two: three ticks are a second.
CONSTANTS
    Callers = {c1, c2, c3}
    Rate = 2
    Window = 5
    Second = 3
    MaxDelay = 1
    MaxCount = 4
    Faults = {"error", "lost", "retried", "crash"}
SPECIFICATION Spec
SYMMETRY Symmetry
INVARIANTS
    TypeOK
    AtMostRatePerWindow
    AtMostThreeWindows
