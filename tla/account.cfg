SPECIFICATION Spec
CONSTANTS
    c1 = c1
    c2 = c2
    d1 = d1
    None = None
    Device = {d1}
    Challenge = {c1}
    Value <- MCValue
    Price = {1}
    ChallengeDays = 1
    MonthDays = 4
    MaxActive = 2
    MaxDay = 1
    MaxWrites = 4
    MaxFetches = 2
INVARIANTS
    TypeOK
    AtMostTwoActive
    LogsInOrder
    BalancesExplained
