\* Two callers, nothing fails; windows of six quarter-second ticks, which the
\* client cuts down to one second.
CONSTANTS
    Callers = {c1, c2}
    Rate = 2
    Window = 6
    Second = 4
    MaxDelay = 0
    MaxCount = 3
    Faults = {}
SPECIFICATION Spec
INVARIANTS
    AtMostTwoWindows
