SPECIFICATION Spec
CONSTANTS
    Cameras = {k1, k2}
    Calls = {c1, c2, c3}
    MaxStreams = 1
    None = None
INVARIANT ActiveStreamsBounded
CHECK_DEADLOCK FALSE
