\* One caller, nothing fails and takes time: what a refusal does.
CONSTANTS
    Callers = {c1}
    Rate = 1
    Window = 2
    Second = 2
    MaxDelay = 0
    Retries = 0
    Faults = {}
SPECIFICATION Spec
PROPERTIES
    RefusalIsFree
