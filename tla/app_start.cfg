SPECIFICATION StartSpec
CONSTANTS
    x = x
    y = y
    c1 = c1
    c2 = c2
    food = food
    outdoor = outdoor
    cheap = cheap
    dear = dear
    Address = {x, y}
    NoAddress = NoAddress
    Mine = x
    Challenge = {c1, c2}
    MaxAccounts = 2
    MaxTaps = 3
    MaxInFlight = 2
    MaxFaults = 1
    Category = {food, outdoor}
    Reward = {cheap, dear}
    Price <- Prices
    Level = {0, 400, 800}
INVARIANTS
    StartTypeOK
    CategoriesOnce
    BrowseIsPrefix
PROPERTIES
    SignInAnswered
    RegistrationOpens
    ShownAsPrinted
