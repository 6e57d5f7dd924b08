CONSTANTS
    NumAccounts = 2
    Tasks = {t1, t2}
    NoTask = NoTask
    Values = {0, 1}
    Fee = 1
    MaxStarts = 3
    MaxFaults = 1
SPECIFICATION FairSpec
INVARIANTS TypeOK Isolated NoFalseAlarm
PROPERTY EveryCheckEnds
