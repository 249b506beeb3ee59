CONSTANTS
    Clients = {c1, c2}
    Notes = {n1}
    Scopes = {"all"}
    DeleteFloor = 10
    DeletePercent = 10
    DeleteTotal = 100
    MaxEdits = 2
    MaxFaults = 1
SPECIFICATION FairSpec
PROPERTY Converges
