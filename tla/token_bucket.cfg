\* Two callers with clocks a tick apart, every fault, two tokens for three
\* ticks.
CONSTANTS
    Callers = {c1, c2}
    Rate = 2
    Window = 3
    Second = 2
    MaxDelay = 1
    Retries = 1
    Faults = {"error", "lost", "retried"}
SPECIFICATION FairSpec
INVARIANTS
    TypeOK
    Conservation
    ResetHasToken
PROPERTIES
    KeepsServing
