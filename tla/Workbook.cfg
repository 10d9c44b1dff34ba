SPECIFICATION WorkbookSpec
CONSTANTS
    MCContent = {2, 10}
    MaxRuns = 3
    Content <- MCContent
    NoContent = NoContent
    RunId <- MCRunId
    Size <- MCSize
    Sync = {s1}
    Manual = {m1}
    LockedSync = {s1, s2}
    Nobody = Nobody
    Malformed = {}
    MinPercent = 50
    DryRunOption = {FALSE}
    CollapseOption = {FALSE}
INVARIANT PublishedWhole
PROPERTIES
    ContractSpec
    LockedNoCollapse
    CommandsEnd
\* Once the run keys are used up no further command is started.
CHECK_DEADLOCK FALSE
