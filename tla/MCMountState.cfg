CONSTANTS
    Users <- MCUsers
    Damages <- MCDamages
    MaxCommits = 1
    MaxFaults = 2
SPECIFICATION Spec
INVARIANTS
    MountTypeOK
    
    
PROPERTIES
    ReadersWriteNothing
    OnlySoundMarked
    StopsClean
