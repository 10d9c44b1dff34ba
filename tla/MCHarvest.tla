------------------------------ MODULE MCHarvest ------------------------------
(***************************************************************************)
(* What the nightly collectors gather over many runs - the archived        *)
(* consultations, the event pages, the news, Google's reporting days and   *)
(* the newsletter campaigns - each by itself: they share no state.         *)
(***************************************************************************)
EXTENDS Ga4Sync, NewsCatalogue, EventPages, ArchiveCatalogue

CONSTANTS
    CampaignDays, CampaignWindow, MaxCampaigns, MaxOpens, StatsLimit,
    Newsletters, Cards, Undelivered    \* the campaigns' (SmailyCampaigns)

VARIABLES
    campaignDay, sent, catalogue, stats, reading,   \* the campaigns
    subject

\* The archive and the campaigns count their changes in one variable.
archiveOnly == <<site, snap, published, walk>>
ga4Vars == <<yesterday, remote, stated, revisions, feed, sync, backfills>>
campaignVars == <<campaignDay, sent, catalogue, stats, reading>>
harvestVars == <<archiveOnly, pagesVars, newsVars, ga4Vars, campaignVars, changes, faults, subject>>

\* The two old consultations are shortlisted, the first has a dead page.
MCShortlists == {<<1, 2>>}

\* A listing page stands before the event pages.
MCSitemap == <<<<"koolitused", "a">>, <<"b", "c">>>>

\* One page has its dates the wrong way round until it is edited, another is
\* spoiled by the edit.
MCUnusable == {<<"b", FALSE>>, <<"c", TRUE>>}

C == INSTANCE SmailyCampaigns WITH
        LastDay <- CampaignDays, WindowDays <- CampaignWindow, Unreadable <- Undelivered,
        today <- campaignDay, run <- reading

\* A busy news page that cannot be read stands before one that can, and another
\* was catalogued after a page that can still be dated.
MCMeasured == <<"a", "b", "c", "d">>
MCLegacy == <<"c", "d">>

ASSUME HarvestAssumption == BoundAssumption /\ C!CampaignAssumption

\* Which figures Google begins with does not matter: the figures of two days
\* are never compared.
FirstFigure == CHOOSE f \in Figures : TRUE

HarvestInit ==
    /\ subject \in {"archive", "events", "news", "ga4", "campaigns"}
    /\ ArchiveInit /\ PagesInit /\ NewsInit /\ Init /\ C!Init
    /\ remote = [d \in DOMAIN remote |-> FirstFigure]

Walking(a) ==
    /\ subject = "archive" /\ a
    /\ UNCHANGED <<pagesVars, newsVars, ga4Vars, campaignVars, faults, subject>>
Pages(a) ==
    /\ subject = "events" /\ a
    /\ UNCHANGED <<archiveOnly, newsVars, ga4Vars, campaignVars, faults, changes, subject>>
News(a) ==
    /\ subject = "news" /\ a
    /\ UNCHANGED <<archiveOnly, pagesVars, ga4Vars, campaignVars, changes, faults, subject>>
Ga4(a) ==
    /\ subject = "ga4" /\ a
    /\ UNCHANGED <<archiveOnly, pagesVars, newsVars, campaignVars, changes, subject>>
Campaigns(a) ==
    /\ subject = "campaigns" /\ a
    /\ UNCHANGED <<archiveOnly, pagesVars, newsVars, ga4Vars, changes, subject>>

HarvestNext ==
    \/ Walking(ArchiveNext) \/ Pages(PagesNext) \/ News(NewsNext) \/ Ga4(Next) \/ Campaigns(C!Next)

\* The event pages alone.
EventsSpec == HarvestInit /\ subject = "events" /\ [][HarvestNext]_harvestVars

\* The fairness of the five modules.  Only the actions of the subject are ever
\* enabled, so one condition serves several modules.
HarvestSpec ==
    /\ HarvestInit /\ [][HarvestNext]_harvestVars
    /\ SF_harvestVars(\/ Pages(BeginCrawl("incremental"))
               \/ Ga4(BeginNightly)
               \/ Campaigns(C!BeginRun(FALSE)))
    /\ WF_harvestVars(Pages(CrawlStep) \/ Ga4(Step) \/ Campaigns(C!Step) \/ Walking(ArchiveStep) \/ News(Naming))
    /\ WF_harvestVars(Walking(BeginArchive(FALSE)) \/ News(BeginNaming))
    /\ WF_harvestVars(News(BeginDating)) /\ WF_harvestVars(News(Dating))

\* No revision of a day loses its page or channel rows, and no run rewrites what
\* a campaign was recognised as (Ga4Sync, SmailyCampaigns).
NothingIsLost == [][DetailStep /\ C!ClassificationStep]_harvestVars

\* Once the site rests, run after run catches up with it, whatever the budgets
\* and the failures on the way: every page a record depends on is read, every
\* event page found, and every readable article named and dated
\* (ArchiveCatalogue, EventPages, NewsCatalogue).
SiteIsCaughtUp ==
    <>[](/\ subject = "archive" => AllRead
         /\ subject = "events" => AllFound
         /\ subject = "news" => AllRecovered)

\* Every completed day comes to show what Google reports, and every campaign
\* comes to be measured (Ga4Sync, SmailyCampaigns).
FiguresAreCaughtUp == []<>(AllReconciled /\ C!AllMeasured)
=============================================================================
