CONSTANTS
    a = a
    b = b
    f = f
    g = g
    x = x
    y = y
    Clients = {a, b}
    Files = {f, g}
    Contents = {x, y}
    Absent = Absent
    NoEntry = NoEntry
    ChunkSize = 2
    ZipSize = 2
    InPlace = TRUE
    Seeded = {g}
    MaxEvents = 3
    MaxUsn = 12
SPECIFICATION FairSpec
INVARIANT TypeOK
INVARIANT NothingMissed
PROPERTY DeletionsSpareUnsent
PROPERTY EventuallyAgreed
