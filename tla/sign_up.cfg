SPECIFICATION Spec
CONSTANTS
    x = x
    y = y
    z = z
    c1 = c1
    c2 = c2
    Address = {x, y, z}
    NoAddress = NoAddress
    Mine = x
    Challenge = {c1, c2}
    MaxAccounts = 3
    MaxTaps = 4
    MaxInFlight = 2
    MaxFaults = 1
SYMMETRY Same
INVARIANTS
    LoginsGetDocuments
    SessionAgrees
    EmailsAgree
    TrapsExplained
PROPERTIES
    NeverReset
