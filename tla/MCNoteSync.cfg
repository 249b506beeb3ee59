CONSTANTS
    Clients = {c1, c2, c3}
    Desktop = {c1, c2}
    Normalizing = {c1, c2, c3}
    Fast = {}
    Lead = 0
    NoNote = NoNote
    Resolution = 1
    MaxSkew = 1
    MaxClock = 3
    MaxEdits = 3
    MaxFaults = 1
SPECIFICATION FairSpec
INVARIANT TypeOK
PROPERTY NoLostEdit
PROPERTY Converges
