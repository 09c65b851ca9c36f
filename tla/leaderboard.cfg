SPECIFICATION Spec
CONSTANTS
    User = {1, 2, 3, 4, 5}
    Me = 5
    Sp = {1}
    Half = 2
    WeekDays = 0
    MonthDays = 1
    MaxDay = 1
    MaxDone = 2
    MaxOrphans = 1
INVARIANTS
    TypeOK
    OwnRowOnce
    ClaimsCounted
    NobodyDropped
PROPERTY RanksTrue
