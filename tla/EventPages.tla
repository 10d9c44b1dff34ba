----------------------------- MODULE EventPages -----------------------------
(***************************************************************************)
(* Discovery of the public event pages (apps/events/public_discovery.py,   *)
(* public_sync.py).  A run reads the sitemap, decides which pages to read, *)
(* reads them one by one, keeping every row as it goes, and at the end     *)
(* writes down how far it came.                                            *)
(***************************************************************************)
EXTENDS Naturals, Sequences, FiniteSets, SequencesExt

CONSTANTS
    Sitemap,        \* child sitemaps: sequences of candidate URLs
    Events,         \* the candidates that present an event; others are listings
    Unusable,       \* <<page, whether edited>>: versions that end before they start
    DetailCap,      \* KODA_EVENT_PAGES_MAX_DETAIL_PAGES_PER_RUN
    RecheckDays,    \* KODA_EVENT_PAGES_RECHECK_AFTER_DAYS
    LastCrawlDay,   \* bound: days
    MaxEdits,       \* bound: pages edited or taken down
    MaxCrawlFaults  \* bound: unreadable sitemaps and pages, and crashes

Url == UNION {ToSet(Sitemap[c]) : c \in DOMAIN Sitemap}

ASSUME PagesAssumption ==
    /\ Sitemap \in Seq(Seq(Url)) /\ Events \subseteq Url
    /\ Unusable \subseteq Events \X BOOLEAN
    /\ LastCrawlDay \in Nat \ {0}
    /\ {DetailCap, RecheckDays, MaxEdits, MaxCrawlFaults} \subseteq Nat

VARIABLES
    today,
    edited,    \* pages whose text was corrected
    gone,      \* pages taken down
    resource,  \* PublicEventResource: url -> [text, seen, changed]
    record,    \* the current PublicEventDiscoverySnapshot
    run,
    crawlFaults

pagesVars == <<today, edited, gone, resource, record, run, crawlFaults>>

NoRecord == [is_complete |-> FALSE, mode |-> "none", listed |-> {}, errors |-> 0]

Mode == {"none", "full", "incremental"}

\* listed are the mentions read so far, in their order; wanted the pages to read.
Run == [pc : {"idle", "sitemap", "select", "read"}, mode : Mode, child : Nat \ {0},
        listed : Seq(Url), wanted : SUBSET Url, now : 0..LastCrawlDay,
        is_complete : BOOLEAN, errors : Nat]

IdleRun == [pc |-> "idle", mode |-> "none", child |-> 1, listed |-> <<>>, wanted |-> {},
            now |-> 0, is_complete |-> TRUE, errors |-> 0]

PagesTypeOK ==
    /\ today \in 1..LastCrawlDay /\ edited \cup gone \subseteq Url
    /\ \A u \in DOMAIN resource :
          /\ resource[u].edited \in BOOLEAN
          /\ {resource[u].seen, resource[u].changed} \subseteq 1..today
    /\ DOMAIN resource \subseteq Events
    /\ record \in [is_complete : BOOLEAN, mode : Mode, listed : SUBSET Url, errors : Nat]
    /\ run \in Run /\ (run.pc # "idle" => run.now \in 1..today)
    /\ crawlFaults \in 0..MaxCrawlFaults

PagesInit ==
    /\ today = 1
    /\ edited = {} /\ gone = {}
    /\ resource = <<>>
    /\ record = NoRecord
    /\ run = IdleRun
    /\ crawlFaults = 0

-----------------------------------------------------------------------------
DayPasses ==
    /\ today < LastCrawlDay
    /\ today' = today + 1
    /\ UNCHANGED <<edited, gone, resource, record, run, crawlFaults>>

MayChange == Cardinality(edited) + Cardinality(gone) < MaxEdits

\* The Chamber corrects a page.
EditPage(u) ==
    /\ MayChange /\ u \notin edited
    /\ edited' = edited \cup {u}
    /\ UNCHANGED <<today, gone, resource, record, run, crawlFaults>>

\* The sitemap still names a page that is no longer there.
TakeDown(u) ==
    /\ MayChange /\ u \notin gone
    /\ gone' = gone \cup {u}
    /\ UNCHANGED <<today, edited, resource, record, run, crawlFaults>>

CrawlAt(label) == run.pc = label

CrawlFault == crawlFaults < MaxCrawlFaults /\ crawlFaults' = crawlFaults + 1

\* The command takes the advisory lock.
BeginCrawl(mode) ==
    /\ CrawlAt("idle")
    /\ run' = [IdleRun EXCEPT !.pc = "sitemap", !.mode = mode, !.now = today]
    /\ UNCHANGED <<today, edited, gone, resource, record, crawlFaults>>

\* Mutant of ChildUnreadable: nobody is told.
ChildSkipped ==
    /\ CrawlAt("sitemap") /\ run.child <= Len(Sitemap)
    /\ CrawlFault
    /\ run' = [run EXCEPT !.child = @ + 1]
    /\ UNCHANGED <<today, edited, gone, resource, record>>

\* A child sitemap that cannot be read is skipped, counts as an error and makes
\* the run partial.
ChildUnreadable ==
    /\ CrawlAt("sitemap") /\ run.child <= Len(Sitemap)
    /\ CrawlFault
    /\ run' = [run EXCEPT !.child = @ + 1, !.is_complete = FALSE, !.errors = @ + 1]
    /\ UNCHANGED <<today, edited, gone, resource, record>>

ReadChild ==
    /\ CrawlAt("sitemap") /\ run.child <= Len(Sitemap)
    /\ run' = [run EXCEPT !.child = @ + 1, !.listed = @ \o Sitemap[run.child]]
    /\ UNCHANGED <<today, edited, gone, resource, record, crawlFaults>>

EndOfSitemap ==
    /\ CrawlAt("sitemap") /\ run.child > Len(Sitemap)
    /\ run' = [run EXCEPT !.pc = "select"]
    /\ UNCHANGED <<today, edited, gone, resource, record, crawlFaults>>

\* sitemap_event_urls keeps the first mention of a URL.
IsBefore(u, v) ==
    \E i \in DOMAIN run.listed :
        /\ run.listed[i] = u
        /\ \A j \in 1..i : run.listed[j] # v

DueForRecheck(u) == resource[u].seen + RecheckDays <= run.now

\* _select: a full run reads everything, an incremental one what it has no row
\* for and what it has not seen for a while.
Wanted ==
    {u \in ToSet(run.listed) :
        run.mode = "full" \/ u \notin DOMAIN resource \/ DueForRecheck(u)}

\* More than the cap: the rest is left for another run, which is then partial.
Select ==
    /\ CrawlAt("select")
    /\ run' = [run EXCEPT
          !.pc = "read",
          !.wanted = {u \in Wanted : Cardinality({v \in Wanted : IsBefore(v, u)}) < DetailCap},
          !.is_complete = @ /\ Cardinality(Wanted) <= DetailCap]
    /\ UNCHANGED <<today, edited, gone, resource, record, crawlFaults>>

ChangedAt(u) ==
    IF u \in DOMAIN resource /\ (resource[u].edited <=> u \in edited)
    THEN resource[u].changed ELSE run.now

\* _observe: a page without an event leaves nothing; a changed page moves
\* last_changed_at, an unchanged one only last_seen_at.
Observed(u) ==
    IF u \notin Events THEN resource
    ELSE [v \in DOMAIN resource \cup {u} |->
            IF v # u THEN resource[v]
            ELSE [edited |-> u \in edited, seen |-> run.now,
                  changed |-> ChangedAt(u)]]

\* The pages are read in their order.
IsNext(u) == u \in run.wanted /\ ~\E v \in run.wanted : IsBefore(v, u)

\* parse_event_detail refuses a page that ends before it starts.
IsUnusable(u) == <<u, u \in edited>> \in Unusable

ReadPage(u) ==
    /\ CrawlAt("read") /\ IsNext(u) /\ u \notin gone /\ ~IsUnusable(u)
    /\ resource' = Observed(u)
    /\ run' = [run EXCEPT !.wanted = @ \ {u}]
    /\ UNCHANGED <<today, edited, gone, record, crawlFaults>>

\* _observe raises: the error is counted, the row stays as it is, if there is
\* one, and the run stays complete.
PageRefused(u) ==
    /\ CrawlAt("read") /\ IsNext(u) /\ u \notin gone /\ IsUnusable(u)
    /\ run' = [run EXCEPT !.wanted = @ \ {u}, !.errors = @ + 1]
    /\ UNCHANGED <<today, edited, gone, resource, record, crawlFaults>>

\* A page that will not load keeps the row it has, counts as an error and makes
\* the run partial.
PageUnreadable(u) ==
    /\ CrawlAt("read") /\ IsNext(u)
    /\ run' = [run EXCEPT !.wanted = @ \ {u}, !.is_complete = FALSE, !.errors = @ + 1]
    /\ UNCHANGED <<today, edited, gone, resource, record>>

PageIsGone(u) == PageUnreadable(u) /\ u \in gone /\ UNCHANGED crawlFaults

PageFails(u) == PageUnreadable(u) /\ CrawlFault

\* _record: the only row about the run, and the current one.
RecordRun ==
    /\ CrawlAt("read") /\ run.wanted = {}
    /\ record' = [is_complete |-> run.is_complete, mode |-> run.mode,
                  listed |-> ToSet(run.listed), errors |-> run.errors]
    /\ run' = IdleRun
    /\ UNCHANGED <<today, edited, gone, resource, crawlFaults>>

\* The crawl dies: what was read is kept, nothing is recorded.
CrawlDies ==
    /\ ~CrawlAt("idle")
    /\ CrawlFault
    /\ run' = IdleRun
    /\ UNCHANGED <<today, edited, gone, resource, record>>

CrawlStep ==
    \/ ReadChild \/ EndOfSitemap \/ Select \/ RecordRun
    \/ \E u \in Url : ReadPage(u) \/ PageRefused(u) \/ PageIsGone(u)

PagesNext ==
    \/ DayPasses
    \/ \E u \in Url : EditPage(u) \/ TakeDown(u) \/ PageFails(u)
    \/ \E mode \in {"full", "incremental"} : BeginCrawl(mode)
    \/ CrawlStep \/ ChildUnreadable \/ CrawlDies

PagesSpec == PagesInit /\ [][PagesNext]_pagesVars

\* The incremental run is scheduled and takes its next step.
PagesFairness == SF_pagesVars(BeginCrawl("incremental")) /\ WF_pagesVars(CrawlStep)

-----------------------------------------------------------------------------
(* Properties. *)

\* "A partial crawl never passes as complete history" (module docstring): while
\* the current record says complete, every event page of the sitemap has its row.
CompleteIsWhole == record.is_complete => Events \subseteq DOMAIN resource

\* What the code keeps of it: a record that says complete lacks at most as many
\* event pages as it counts errors, although rows are written one by one, over
\* many runs, and pages and sitemaps fail.
ErrorsCoverTheLack ==
    record.is_complete => Cardinality(Events \ DOMAIN resource) <= record.errors

\* The candidates before u that no run writes a row for, as they now stand.
Barren(u) ==
    LET urls == FlattenSeq(Sitemap)
        at(v) == CHOOSE i \in DOMAIN urls : urls[i] = v
    IN  {v \in Url : (v \notin Events \/ v \in gone \/ IsUnusable(v)) /\ at(v) < at(u)}

\* "A backfill that stops at the cap is continued simply by running again":
\* every event page that can be used gets its row in the end, unless DetailCap
\* pages before it never will.
AllFound ==
    \A u \in Events :
        \/ u \in gone \cup DOMAIN resource \/ IsUnusable(u)
        \/ Cardinality(Barren(u)) >= DetailCap

PagesFairSpec == PagesSpec /\ PagesFairness
=============================================================================
