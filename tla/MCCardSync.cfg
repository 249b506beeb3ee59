CONSTANTS
    Clients = {c1, c2}
    Desktop = {c1, c2}
    Fast = {}
    Lead = 0
    UserDecks = {"Deck"}
    NoCard = NoCard
    Resolution = 1
    MaxSkew = 1
    MaxClock = 2
    MaxEdits = 2
    MaxFaults = 1
SPECIFICATION FairSpec
PROPERTY Converges
INVARIANT TypeOK
PROPERTY NewestWins
INVARIANT InterruptedPullYields
