SPECIFICATION Spec
CONSTANTS
    Outputs = {o1}
    MaxOutputs = 1
    Capacity = 2
    MaxFrames = 4
    MaxStreams = 1
    None = None
INVARIANTS
    
    GapsAreAnnounced
    FailureStaysVisible
PROPERTIES
    StopDrains
    RemovalEndsTask
