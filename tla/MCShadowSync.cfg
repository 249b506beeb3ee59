SPECIFICATION FairSpec
CONSTANTS
    Services <- MCServices
    Guids = {1, 2}
    Decks = {"A", "B"}
    CapMin = 1
    NoFile = NoFile
    Starts <- MCStarts
    MaxTime = 3
    MaxStops = 1
INVARIANT TypeOK
PROPERTY NothingLost
PROPERTY Converges
CHECK_DEADLOCK FALSE
