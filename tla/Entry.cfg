SPECIFICATION EntrySpec
CONSTANTS
    HistoryPackages <- MCHistory
    Extra <- MCExtra
    MaxEdits = 2
    MaxPackageRuns = 2
    Staff = {s1, s2}
    Dates <- MCDates
    Reports <- MCReports
    Packages <- MCPackages
    MaxRuns = 3
    Typists = {t1, t2}
    Submissions <- MCSubmissions
    Social <- MCSocial
    Newsletters <- MCNewsletters
    Readings <- MCReadings
    MaxAttempts = 2
    LastDay = 2
    MaxRows = 3
    Operators = {o1, o2}
    Kinds <- MCKinds
    Exports <- MCExports
    MaxImports = 3
    Archives <- MCArchives
    Products = {1, 2}
    Types = {"document", "event"}
    MaxShopImports = 6
    Codes = {"1", "2", "3", "4"}
    Listings <- MCListings
    Roster <- MCRoster
    MaxChangeAbsolute = 1
    MaxChangePercent = 50
    ComparisonRows = 1
    MaxTime = 6
    MaxFaults = 1
SYMMETRY EntrySymmetry
INVARIANTS
    BoardHistoryStands
    FiguresStand
    LastWordStands
    SnapshotsFormALine
    RegisterFollowsList
    HistoryIsWhole
    RosterPagesAddUp
PROPERTY HistoryIsKept
CHECK_DEADLOCK FALSE
