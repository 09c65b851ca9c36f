SPECIFICATION Spec
CONSTANTS
    User = {1, 2, 3}
    Me = 3
    Sp = {1}
    Half = 2
    WeekDays = 0
    MonthDays = 1
    MaxDay = 1
    MaxDone = 2
    MaxOrphans = 1
INVARIANT OpeningNeverTraps
