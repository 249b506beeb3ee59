SPECIFICATION FairSpec
CONSTANTS
    Services <- OneService
    Guids = {1}
    Decks = {"A"}
    CapMin = 1
    NoFile = NoFile
    Starts <- OneStart
    MaxTime = 3
    MaxStops = 0
PROPERTY EditsArrive
CHECK_DEADLOCK FALSE
