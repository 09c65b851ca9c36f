SPECIFICATION PatientSpec
CONSTANTS
    c1 = c1
    c2 = c2
    d1 = d1
    d2 = d2
    None = None
    Device = {d1, d2}
    Challenge = {c1, c2}
    Value <- MCValue
    Price = {1}
    ChallengeDays = 1
    MonthDays = 3
    MaxActive = 2
    MaxDay = 3
    MaxWrites = 5
    MaxFetches = 2
SYMMETRY DeviceSymmetry
INVARIANTS
    OneLogPerDay
    NeverOverdrawn
    MemoryIsCurrent
    LatestNotSuperseded
PROPERTY ImplementsLedger
