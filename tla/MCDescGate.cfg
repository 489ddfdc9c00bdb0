SPECIFICATION Spec
CONSTANTS
    Callers = {c1, c2}
    MinInterval = 2
    MaxClock = 4
INVARIANTS
    SingleFlight
    FlagIsOwned
    StartsSpaced
PROPERTY GateReopens
