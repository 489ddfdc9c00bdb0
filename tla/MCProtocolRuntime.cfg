SPECIFICATION Spec
CONSTANTS
    Calls = {c1, c2}
    Boot = Boot
    Final = Final
    s1 = s1
    s2 = s2
    Secrets <- MCSecrets
    Bodies <- MCBodies
    BootRows <- MCRows
    Redacted = Redacted
    MaxGen = 3
    None = None
INVARIANTS
    RunningMatchesStore
    StoppedIsQuiet
PROPERTIES
    LostListenerEnds
CHECK_DEADLOCK FALSE
