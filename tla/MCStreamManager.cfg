SPECIFICATION Spec
CONSTANTS
    Cameras = {k1, k2}
    Calls = {c1, c2, c3}
    MaxStreams = 2
    None = None
INVARIANTS
    PermitAccounting
    OneHolder
    
PROPERTY NoOrphanPipeline
CHECK_DEADLOCK FALSE
