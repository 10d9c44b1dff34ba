------------------------------ MODULE MCViewing ------------------------------
(***************************************************************************)
(* What a reader meets - a figure of a public feed, the PIN, the Pood,     *)
(* Koduleht, Uudised and Sundmused pages, and the links of the three       *)
(* matchers - each by itself: they share no state.                         *)
(***************************************************************************)
EXTENDS MCFeedSync, ViewerAccess, TopicMatching, OpinionMatching, EventMatching, Integers

VARIABLES
    table, address, clicks, shown,                         \* the page on the screen
    users, pending, asked, syncs,                          \* the users of Koduleht's periods
    subject

pageVars == <<table, address, clicks, shown, users, pending, asked, syncs>>
linkVars == <<topicVars, opinionVars, matchingVars>>
viewingVars == <<vars, accessVars, pageVars, linkVars, subject>>

-----------------------------------------------------------------------------
(* The pages. *)

ShopData == INSTANCE MCShop
Days == INSTANCE MCReadingDays
EventData == INSTANCE MCEvents

Shop == INSTANCE ShopReading WITH
    Tables <- ShopData!ShopTables, PeriodDays <- "30" :> 2 @@ "1a" :> 3, DefaultPeriod <- "1a",
    PageSize <- 2, MoverLimit <- 1, TopCount <- 2, MonthDays <- 3, AddressDates <- {10, 13},
    MaxClicks <- 2, Sorts <- {"units", "rate"}

\* A reader's clicks on four histories, and the users of the periods being
\* asked for while the last day is restated.
Website == INSTANCE WebsiteReading WITH
    Histories <- Days!WebHistories, PresetDays <- [short |-> 2, long |-> 3],
    DefaultPreset <- "short", MinCustomDays <- 2, MinCoverage <- 60, MaxSkew <- 20, WeeklyFrom <- 4,
    MonthlyFrom <- 6, WeekDays <- 2, MonthDays <- 4, PageFloor <- 3, TopLimit <- 2,
    MovementLimit <- 1, ChannelLimit <- 1, PerPage <- 2, PageFacts <- Days!SitePages,
    Matching <- Days!WebTerms, AddressDates <- {5, 9}, MaxClicks <- 2, MaxSyncs <- 0

Users == INSTANCE WebsiteReading WITH
    Histories <- {Days!HistoryOf(Days!FirstDays), Days!HistoryOf(Days!LaterDays)},
    PresetDays <- [short |-> 2, long |-> 3],
    DefaultPreset <- "short", MinCustomDays <- 2, MinCoverage <- 60, MaxSkew <- 20, WeeklyFrom <- 4,
    MonthlyFrom <- 6, WeekDays <- 2, MonthDays <- 4, PageFloor <- 3, TopLimit <- 2,
    MovementLimit <- 1, ChannelLimit <- 1, PerPage <- 2, PageFacts <- Days!SitePages,
    Matching <- Days!WebTerms, AddressDates <- {}, MaxClicks <- 0, MaxSyncs <- 1

News == INSTANCE NewsReading WITH
    Catalogues <- Days!NewsCatalogues, Listings <- Days!NewsListings,
    PresetDays <- [short |-> 2, long |-> 5], DefaultPreset <- "short", FirstMonth <- 2,
    CohortDays <- 7, MinCohort <- 2, MonthlyFrom <- 5, WeekDays <- 2, MonthDays <- 4,
    MonthIsWhole <- 3, WeekIsWhole <- 1, Bands <- {0, 1, 5}, ChangePercent <- 25, PerPage <- 2,
    Matching <- Days!NewsTerms, AddressDates <- {3, 12}, MaxPage <- 3, MaxClicks <- 2

Events == INSTANCE EventReading WITH
    Tables <- EventData!EventTables, Path <- EventData!Paths, DaysPerMonth <- 2,
    MonthsPerYear <- 4, MonthsPerQuarter <- 2, PerPage <- 2, TopTypes <- 2, PreviewLimit <- 2,
    Horizon <- 3, TimelineLimit <- 3, NearTermDays <- 3, RecentDays <- 2, DateUnknown <- 9,
    Online <- 2, Terms <- EventData!EventTerms, MaxPage <- 3, MaxClicks <- 1

-----------------------------------------------------------------------------
(* The matchers. *)

Texts == INSTANCE MCLegalTexts

WordGrams == Texts!WordGrams
GenericWords == Texts!GenericWords

TopicRegisters == Texts!TopicRegisters
TopicListings == Texts!TopicListings
TopicArchives == Texts!TopicArchives
IdfTable == Texts!IdfTable
PublicUrls == Texts!PublicUrls

SentRegisters == Texts!SentRegisters
LetterCatalogues == Texts!LetterCatalogues
PublicCorpora == Texts!PublicCorpora
RarityTable == Texts!RarityTable
Republished == Texts!Republished

EventProgrammes == EventData!EventProgrammes
DiscoveredPages == EventData!DiscoveredPages
CorrectedPages == EventData!CorrectedPages
EventGrams == EventData!WordGrams
Stops == EventData!Stops
Labels == EventData!Labels

-----------------------------------------------------------------------------
ASSUME ViewingAssumption ==
    /\ AccessAssumption
    /\ Shop!ReadingAssumption /\ Website!ReadingAssumption /\ Users!ReadingAssumption
    /\ News!NewsAssumption /\ Events!EventReadingAssumption

Subjects == {"feed", "pin", "shop", "website", "users", "news", "events", "topics", "opinions",
             "event links"}

NoUsers == users = {} /\ pending = {} /\ asked = {} /\ syncs = 0

PageInit ==
    CASE subject = "shop" -> Shop!Init /\ NoUsers
      [] subject = "news" -> News!Init /\ NoUsers
      [] subject = "events" -> Events!Init /\ NoUsers
      [] OTHER -> Website!Init

\* The feeds start from any content; nobody else minds what it is.
ViewingInit ==
    /\ subject \in Subjects
    /\ Init /\ (subject # "feed" => remote = 10)
    /\ AccessInit /\ PageInit /\ TopicInit /\ OpinionInit /\ MatchingInit

\* A step of one subject leaves the others alone.
Feed(a) == subject = "feed" /\ a /\ UNCHANGED <<accessVars, pageVars, linkVars, subject>>

Pin(a) == subject = "pin" /\ a /\ UNCHANGED <<vars, pageVars, linkVars, subject>>

Reading ==
    \/ /\ \/ subject = "shop" /\ Shop!Next
          \/ subject = "news" /\ News!Next
          \/ subject = "events" /\ Events!Next
       /\ UNCHANGED <<users, pending, asked, syncs>>
    \/ subject = "website" /\ Website!Next
    \/ subject = "users" /\ Users!Next

Linking ==
    \/ subject = "topics" /\ TopicNext /\ UNCHANGED <<opinionVars, matchingVars>>
    \/ subject = "opinions" /\ OpinionNext /\ UNCHANGED <<topicVars, matchingVars>>
    \/ subject = "event links" /\ MatchingNext /\ UNCHANGED <<topicVars, opinionVars>>

ViewingNext ==
    \/ Feed(Next)
    \/ Pin(AccessNext)
    \/ Reading /\ UNCHANGED <<vars, accessVars, linkVars, subject>>
    \/ Linking /\ UNCHANGED <<vars, accessVars, pageVars, subject>>

\* The fairness of FeedSync and of ViewerAccess.  A behaviour has one subject, so
\* that one condition can state the fairness of an action of each.
ViewingSpec ==
    /\ ViewingInit /\ [][ViewingNext]_viewingVars
    /\ WF_viewingVars(Pin(Tick) \/ Feed(\E p \in Proc : Begin(p, FALSE)))
    /\ \A b \in Browsers : WF_viewingVars(Pin(Visit(b) \/ RedirectFromLogin(b)))
    /\ \A b \in Browsers : WF_viewingVars(Pin(SubmitPin(b, TRUE)))
    /\ \A p \in Proc : WF_viewingVars(Feed(Step(p) /\ ~At(p, "collect")))
    /\ \A p \in Proc : WF_viewingVars(Feed(Collect(p) \/ CollectFails(p)))
    /\ \A b \in Browsers :
          SF_viewingVars(\/ Pin(CheckPin(b))
                         \/ Feed(\E p \in Proc : ~proc[p].dry_run /\ Collect(p)))

\* Only the matching of event pages.
EventLinksSpec == ViewingInit /\ subject = "event links" /\ [][ViewingNext]_viewingVars

-----------------------------------------------------------------------------
(* Properties. *)

\* Once the source settles on a content, the dashboard ends up showing it unless
\* the plausibility guard keeps refusing it (FeedSync).
SettledIsShown ==
    <>[][UNCHANGED remote]_viewingVars =>
        <>[](subject = "feed" => ShownContent = remote \/ ~IsChangePlausible(Current, remote))

\* A viewer who keeps entering the right PIN gets to the page (ViewerAccess).
ViewersAreServed == \A b \in Browsers : []<>(subject = "pin" => BrowserAt(b, "page"))

\* The parts of the shop page agree with each other and with the rows of the
\* period, and its links keep the question (ShopReading).
ShopPagesAgree == subject = "shop" => Shop!ShopPagesAgree

\* So do those of the website page, before, during and after its users are
\* asked for (WebsiteReading).
WebsitePagesAgree ==
    /\ subject = "website" => Website!WebsitePagesAgree
    /\ subject = "users" => Users!WebsitePagesAgree

\* So do those of the news page (NewsReading).
NewsPagesAgree == subject = "news" => News!NewsPagesAgree

\* So do those of the events page (EventReading).
EventPagesAgree == subject = "events" => Events!EventPagesAgree
==============================================================================
