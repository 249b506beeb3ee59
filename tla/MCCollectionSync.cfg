CONSTANTS
    a = a
    b = b
    note = note
    deck = deck
    Clients = {a, b}
    Server = srv
    None = none
    Chunked = {note}
    Unchunked = {deck}
    Starts <- Known
    ChunkSize = 1
    MaxStamp = 2
    MaxEdits = 2
    MaxFaults = 1
    LastEditUsn = 2
    MaxUsn = 2
CHECK_DEADLOCK FALSE
SPECIFICATION FairSpec
INVARIANT TypeOK
INVARIANT NothingMissed
PROPERTY SyncsAreAtomic
PROPERTY SanityNeverFails
PROPERTY EventuallyAgreed
