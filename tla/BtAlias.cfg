SPECIFICATION FairSpec
CONSTANTS
    Devices = {1, 2, 3}
    MaxFaults = 4
INVARIANTS
    TypeOK
    FileConfirmed
PROPERTIES
    Converges
