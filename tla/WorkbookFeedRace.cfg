SPECIFICATION RaceSpec
CONSTANTS
    MCContent = {2, 10}
    MaxRuns = 2
    Content <- MCContent
    NoContent = NoContent
    RunId <- MCRunId
    Size <- MCSize
    Sync = {s1}
    Manual = {m1}
    LockedSync = {s1}
    Nobody = Nobody
    Malformed = {}
    MinPercent = 50
    DryRunOption = {FALSE}
    CollapseOption = {FALSE}
PROPERTIES
    NoCollapse
\* Once the run keys are used up no further command is started.
CHECK_DEADLOCK FALSE
