SPECIFICATION EventsSpec
CONSTANTS
    MaxTopics = 4
    ListedAtFirst = 3
    PageSize = 2
    KnownPages = 1
    OldUpTo = 2
    StopAfterOlder = 1
    Budget = 2
    Dead = {1}
    Shortlists <- MCShortlists
    LastDay = 2
    MaxEdits = 1
    Sitemap <- MCSitemap
    Events = {"a", "b", "c"}
    Unusable <- MCUnusable
    DetailCap = 3
    RecheckDays = 1
    LastCrawlDay = 2
    MaxCrawlFaults = 1
    Figures = {f1, f2}
    MaxStatements = 3
    CampaignDays = 2
    CampaignWindow = 0
    MaxCampaigns = 2
    MaxOpens = 2
    StatsLimit = 1
    Newsletters = {"e-teataja"}
    Cards = {}
    Undelivered = {}
    MaxChanges = 2
    MaxFaults = 1
    Restates = TRUE
    Details = {page}
    WindowDays = 2
    ChunkDays = 1
    MaxBackfills = 1
    MeasuredPaths <- MCMeasured
    Legacy <- MCLegacy
    Datable = {"a", "c"}
    Unreadable = {"b", "d"}
    PageLimit = 2
    MaxMisses = 1
INVARIANT CompleteIsWhole
