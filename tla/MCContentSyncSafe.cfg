CONSTANTS
    Clients = {c1, c2}
    Notes = {n1}
    Scopes = {"all", "routed"}
    DeleteFloor = 0
    DeletePercent = 10
    DeleteTotal = 100
    MaxEdits = 2
    MaxFaults = 1
SPECIFICATION Spec
SYMMETRY Symmetry
INVARIANT TypeOK
INVARIANT BaselineKnown
INVARIANT BaselineHonest
INVARIANT DeletesByUser
PROPERTY NoResurrection
PROPERTY LargeDeletesApproved
