SPECIFICATION Spec
CONSTANTS
    Content <- MCContent
    NoContent = NoContent
    RunId <- MCRunId
    Size <- MCSize
    Proc = {p1}
    Nobody = Nobody
    Conditional = TRUE
    Reverts = TRUE
    MaxChangeAbsolute = 5
    MaxChangePercent = 40
    MaxFaults = 0
    MaxDryRuns = 0
INVARIANTS
    VerifiedIsShown
