SPECIFICATION Spec
CONSTANTS
    None = None
    Ids = {i1, i2, i3}
    Devices = {d1}
    Calls = {c1, c2}
    MaxChanges = 2
    MaxBoots = 2
 
PROPERTIES BootRestoresAgreement  RemovalStopsStream
CHECK_DEADLOCK FALSE
