SPECIFICATION Spec
CONSTANTS
    Conns = {c1}
    AuthRequired = TRUE
    Ring = 2
    SeqMod = 3
    Frags = 2
    IdleTicks = 1
    MaxReg = 2
    MaxSent = 4
    MaxReq = 1
INVARIANTS
    AccessUnitBoundary
    MediaIsAuthorized
PROPERTIES
    GapsAreReported
    
CHECK_DEADLOCK FALSE
