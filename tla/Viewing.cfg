SPECIFICATION ViewingSpec
CONSTANTS
    Content <- MCContent
    NoContent = NoContent
    RunId <- MCRunId
    Size <- MCSize
    Proc = {p1, p2}
    Nobody = Nobody
    Conditional = TRUE
    Reverts = FALSE
    MaxChangeAbsolute = 5
    MaxChangePercent = 40
    MaxFaults = 1
    MaxDryRuns = 1
    Browsers = {b1, b2}
    FAILURE_LIMIT = 2
    WINDOW_DURATION = 2
    LOCK_DURATION = 2
    PurgeAge = 3
    MaxTime = 5
    MaxVersion = 2
    Grams <- WordGrams
    Generic <- GenericWords
    LegalRegisters <- TopicRegisters
    Listings <- TopicListings
    Archives <- TopicArchives
    Idf <- IdfTable
    Publishable <- PublicUrls
    MaxTopicSnapshots = 4
    MaxSnapshots = 4
    MaxImports = 3
    Registers <- SentRegisters
    Catalogues <- LetterCatalogues
    Corpora <- PublicCorpora
    Rarity <- RarityTable
    SameLetter <- Republished
    Programmes <- EventProgrammes
    Pages <- DiscoveredPages
    Corrections <- CorrectedPages
    NameGrams <- EventGrams
    StopTokens <- Stops
    PublicationLabels <- Labels
INVARIANTS
    TypeOK
    AtomicPublication
    VerifiedIsShown
    SeenIsStillShown
    PinIsGuarded
    ShopPagesAgree
    WebsitePagesAgree
    NewsPagesAgree
    EventPagesAgree
    OpinionsAreDeserved
    EventLinksAreDeserved
PROPERTIES
    NoImplausibleJump
    ContractSpec
    SettledIsShown
    ViewersAreServed
    LinksAreDeserved
CHECK_DEADLOCK FALSE
