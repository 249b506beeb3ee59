CONSTANTS
    Clients = {a, b}
    Desktop = {b}
    Routed = {b}
    Cards = {k}
    NoCard = NoCard
    Crts <- MCCrts
    a = a
    b = b
    MaxDay = 2
    MaxReviews = 2
    MaxEvents = 4
SPECIFICATION FairSpec
INVARIANT TypeOK
INVARIANT HistoryHonest
PROPERTY CountersKept
PROPERTY Converges
