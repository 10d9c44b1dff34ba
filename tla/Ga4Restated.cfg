SPECIFICATION FairSpec
CONSTANTS
    LastDay = 2
    Figures = {f1, f2}
    Details = {page}
    Restates = TRUE
    MaxStatements = 3
    WindowDays = 2
    ChunkDays = 2
    MaxBackfills = 0
    MaxFaults = 0
PROPERTY EveryDayReconciled
