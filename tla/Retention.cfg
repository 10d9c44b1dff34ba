SPECIFICATION RetentionSpec
CONSTANTS
    Modelled = {"legal", "catalogue", "opinionMatch"}
    MaxId = 6
    MaxSources = 3
    MaxPrunes = 1
    MaxFailures = 1
    Overlap = FALSE
    MaxDocs = 2
    Invalid = {2}
    MaxPages = 2
    Editorial = {1}
    PageSize = 1
    OverlapDays = 1
    Budget = 1
    MaxVersion = 2
    MaxChanges = 1
INVARIANTS PruneIsClean PublishedIsServable
PROPERTIES RetainedOutlives LinksReturn CorpusCatchesUp
CHECK_DEADLOCK FALSE
