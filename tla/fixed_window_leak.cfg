\* A failed EXPIRE leaves a counter that never expires.
CONSTANTS
    Callers = {c1, c2}
    Rate = 1
    Window = 2
    Second = 1
    MaxDelay = 1
    MaxCount = 3
    Faults = {"error"}
SPECIFICATION Spec
INVARIANTS
    CounterExpires
