SPECIFICATION RecorderSpec
CONSTANTS
    NoSegment = NoSegment
    Cameras = {k1}
    Duration = 1
    MaxCapacity = 2
    PruneEvery = 3
    Second = 2
    MaxClock = 4
    MaxVideo = 4
    MaxCreated = 2
INVARIANTS
    ArchiveIsGapless
    RotatesAtKeyframes
    
    
PROPERTIES
    FinishedIsStable
    
CHECK_DEADLOCK FALSE
