# A verification project for dashkoda

dashkoda is the dashboard of the Estonian Chamber of Commerce and Industry: a
Django application over PostgreSQL, fed every morning by management commands that
collect public feeds, workbooks and analytics and publish them as immutable, dated
snapshots. What can go wrong is seldom in one function. It is in what two commands
do to the same rows, in what a command that dies half-way leaves behind, in what
"the same content as before" means when contents come back, and in whether the
figures of one page, each from a query of its own, agree. The modules here model
that part of the program, TLC checks them on small instances, and TLAPS proves the
central properties for every instance.

## 1. The system

| Component | State | Operations | Shares with |
|---|---|---|---|
| Import registry (`apps/sources`) | sources, artifacts by SHA-256, import runs, the conditional unique import key | register an artifact, build / start / complete / fail a run | every feed |
| Feed helpers (`apps/core`) | one feed-state row per source, session advisory locks | take the lock, record the check, find a published artifact, publish, record the outcome | every feed |
| Public feeds (`apps/membership`, `apps/news`, `apps/events`) | observations or snapshots with one current row | `synchronize_*`, started by `sync_koda_public` | registry, core |
| Workbook feeds (`apps/legal_work`, `apps/event_programme`) | snapshots of rows, feed state | scheduled synchronisation, manual `import_oigusloome` | registry; the manual command takes no lock |
| Matchers (`apps/legal_work`, `apps/event_programme`) | match snapshots that pin their inputs by foreign key | four `match_*` commands, each with a lock of its own | the snapshots of the feeds |
| Retention (`apps/sources/retention.py`) | none of its own | plan, re-check, delete, by `prune_snapshots` | every snapshot family |
| Opinion documents and corpus (`apps/legal_work`) | files, blob rows, texts, two catalogues | a builder in slices, a crawler | one content-addressed store |
| Archives of consultations, event pages, news | accumulated catalogues, hydration state | resumable crawls with a budget per run | registry, matchers |
| Google Analytics, Smaily (`apps/visibility`) | revisions per reporting day, list counts, campaign statistics | nightly reconciliation, backfill, two synchronisations | registry |
| Manual entry and imports (`apps/membership`, `apps/visibility`, `apps/shop`) | dated rows that supersede each other | preview, publish, supersede, elect the preferred one, import a package or a roster | registry |
| Member directory (`apps/membership`) | a register of profiles with their history | a check of the public list | registry |
| Viewer access (`apps/access`) | sessions, rate-limit buckets | `check_pin`, login, logout, purge | none |
| Pages (Pood, Koduleht, Uudised, Sündmused) | none; the address carries the question | read-only queries, links | the rows of all |
| Audit, dashboard cards, deployment | journal rows; none; none | | |

Hard behaviours, and what each component owes:

* A feed commits in five or six transactions and may die between any two. A snapshot
  must exist exactly when its run succeeded, and a later run must get through
  whatever the dead one left.
* What was read before an HTTP request is used after it. It must still be true.
* "Already published" is asked of history, "unchanged" is told of the present.
* Two publications may be open at once where one of the commands takes no lock.
* A prune deletes rows that a matcher may be about to name.
* Google changes a day after it was published, and may change it back.
* A crawl has a budget; what it did not look at must not be forgotten or called done.
* Two people type at once; two operators import at once; the last word must stand.
* Several wrong PINs arrive at once; none may be forgotten.
* A page asks a dozen queries; the parts must agree, and a link must keep the question.

`PROJECT.json` lists the hazards, each at the line where it bites, and every component
with what is left out of it.

## 2. Modules

| Module | Models | Composed in |
|---|---|---|
| `ImportRegistry` | artifacts, runs, the import key, current snapshots; one definition per committed statement | `FeedSync`, `WorkbookFeed` |
| `PublicationContract` | the abstract promise of a snapshot feed: nothing, then one published content at a time, each published once | implemented by the two |
| `FeedSync` | one public feed: `synchronize_membership`, `_news`, `_events` | `MCFeedSync`, `MCViewing` |
| `WorkbookFeed` | scheduled and manual workbook imports, the publication transaction statement by statement | `MCWorkbook` |
| `SnapshotRetention` | snapshot families, pins, matchers, prune | `MCRetention` |
| `OpinionCorpus` | the builder of the private catalogue and the crawler of the public site over one store | `MCRetention` |
| `ArchiveCatalogue` | the archived consultations: walk, merge, hydration under a budget | `MCHarvest` |
| `EventPages` | discovery of event pages through the sitemap, and the completeness it records | `MCHarvest` |
| `NewsCatalogue` | the news rows and their three writers: the feed, the namer, the dater | `MCHarvest` |
| `Ga4Sync` | reporting days, revisions, window, chunks, backfills | `MCHarvest` |
| `SmailyCampaigns` | the catalogue of campaigns and their statistics | `MCHarvest` |
| `BoardReports` | board reports, their history and the election of the preferred row | `MCEntry` |
| `HistoryPackage` | the contract of a history package and the generations of rows it leaves | `MCEntry` |
| `AudienceFigures` | typed follower counts and the newsletter lists | `MCEntry` |
| `ShopImport` | the contract of a shop package and its import table by table | `MCEntry` |
| `RosterImport`, `MemberComposition` | the operator's roster imports; the classes a roster falls into | `MCEntry` |
| `MemberDirectory` | the register of published member profiles | `MCEntry` |
| `ViewerAccess` | the PIN: middleware, login, `check_pin`, purge, new versions | `MCViewing` |
| `ShopReading`, `WebsiteReading`, `NewsReading`, `EventReading` | what the four pages show and where their links lead | `MCViewing` |
| `TopicMatching`, `OpinionMatching`, `EventMatching` | score, margin and decision of the matchers, and the link a reader gets | `MCViewing` |
| `TextNormalisation` | the wordings of one title or letter that the matchers take for the same | the matchers |
| `MCShop`, `MCReadingDays`, `MCEvents`, `MCLegalTexts`, `MCHistoryPackages` | small data for the above | |
| `FeedSyncProofs`, `WorkbookFeedProofs`, `RetentionProofs`, `HarvestProofs`, `RegisterProofs`, `BoardReportsProofs`, `AudienceFiguresProofs`, `ViewingProofs` | theorems, section 5 | |

The components of one MC module share no state in the program, so a run follows one
of them (`subject`) and leaves the others at their initial state; one run then asks
one question of several components. A component with theorems is extended by the MC
module under its own names, so that a run and a theorem speak of the same definition;
the others (`MemberComposition`, `SmailyCampaigns`, the pages) are instantiated.

How the state and the actions of the main modules correspond to the code:

**ImportRegistry.** `artifacts`, `runs` and `snapshots` are the tables `SourceArtifact`,
`ImportRun` and the feed's snapshot table, for one source and one importer. A run's
import key is a digest of importer, schema version and content, so with the first two
fixed the content stands for it; `KeyTaken` is the constraint
`importrun_unique_successful_live_import`. A snapshot is named by its run.

**FeedSync.** `proc[p].pc` is the next thing an invocation does; each label is a point
between two commits or around the request. `Begin` takes the advisory lock, records the
check and reads what is current; `Collect` is the answer of the source (the parsers
stand behind it); `Decide` is `find_published_artifact` and `is_change_plausible`;
`ReuseArtifact`, `RegisterReference`, `BuildRun` and `StartRun` are the commits of
`start_run`; `Publish` is the publication transaction, one step because the lock makes it
the only writer; `CloseRun`, `FailFeed`, `MarkImported` and `MarkUnchanged` are the
outcomes. `CollectFails`, `StartRunFails`, `PublishFails` and `Crash` are the faults.
The remote's validator is the content it stands for.

**WorkbookFeed.** The publication is three steps, because `import_oigusloome` shares no
lock with the scheduled command: `SelectCurrent` is the snapshot of the `SELECT ... FOR
UPDATE`, `LockRows` its wait for the row locks and PostgreSQL's re-check of `is_current`
(a row that became current meanwhile is not seen), `Commit` the writes with the two
unique constraints.

**SnapshotRetention.** A snapshot is a key with its family, its current flag and its
foreign keys: `pins` cascade, `cites` are those the opinion relations `PROTECT`. `old` is
the newest key outside the retention window. Matchers read their inputs one statement at
a time and commit in one transaction. The prune plans all families, then, in reverse
order, re-checks and deletes each one. Protection and CASCADE are closures in the code;
the pins are two levels deep, so two rounds compute them. `Overlap` says whether a match
may commit between the re-check and the DELETE of one family.

**OpinionCorpus.** `files`, `rows` and `texts` are the store: a file under `blobs/` or
`quarantine/`, an `OpinionDocumentBlob`, an `OpinionDocumentExtraction`. `build` and
`crawl` are the two runs, each under a lock of its own; a step is one write. A document
stands for its digest, a page for its publication day.

**Ga4Sync.** `revisions[d]` is the sequence of published readings of a day; the last one
is current. A reading is the figures with the kinds of detail asked for, which is what
the digest covers. `CollectChunk` is one `collect_range`, `PublishDay` the registration,
the run and the transaction of one day. `PublishRefused` is the import key refusing a
reading the day had before.

**NewsCatalogue.** `rows` is `NewsResource`. The feed reads the rows of its items and
writes them in another statement (`ReadExisting`, `WriteFeedItems`); the dater selects an
undated row and saves it in another (`SelectUndated`, `SaveDate`). No lock is common to
the three writers.

**MemberDirectory.** `entries` is the register, `feed` the feed state with the stored
validator, `sync` the check in hand. `Collect` is the collector with its refusals,
`ReconcileKnown` the rows brought in line without a run for a set published before,
`ReconcileNew` the publication of a new set, `Mark` the separate record of the outcome.
`torn` remembers that a check died between the two.

**ViewerAccess.** `bucket` is the rate-limit row of one address, `holder` the request
that holds it `FOR UPDATE`, `browser[b]` a browser with its session. `attempts` are the
times of the wrong PINs that were looked at since the last right one. A request reads
the clock when it arrives and may wait for the row; `Tick` lets it wait less than a unit.

**The pages.** A state is an address and the rows below it; a step types an address,
follows a link or imports the next rows. The figures are operators, each translated from
its own query, and the properties compare them with each other and with the rows.

## 3. Runs

| Run | Shows | Bounds |
|---|---|---|
| `feed_reverts` | violated: a content that comes back is reported unchanged | 1 invocation, no faults |
| `workbook` | one current snapshot, nothing half published, the contract, every command ends; the collapse guard under the lock | scheduled + manual; 2 scheduled; 1 scheduled with a malformed workbook and every option; 3 runs, any number of crashes |
| `workbook_race` | violated: the guard without the lock | 1 + 1 invocation, 2 runs |
| `retention` | current and recent snapshots survive, keys resolve, a whole prune is not refused, links come back; what is published can be served, builder and crawler catch up | 3 and 4 families, 3 source publications, 1 prune, 1 failure; 2 documents, 2 or 3 articles, 2 extractor versions |
| `retention_race` | violated: a current match lost between re-check and DELETE | 3 families, 3 source publications |
| `harvest` | no collector claims more than it has read, none loses what it had, each catches up | archive of 4 topics, 3 of them listed at first, pages of two, a dead page and a budget of 2; 3 event pages under 2 sitemaps, cap 3, one of them unusable until it is edited and one once it is; 4 news pages, limit 2; 2 days in chunks of one; 2 campaigns, one reading per run; 1 fault each; 464,158 states |
| `complete_crawl` | violated: a discovery recorded as complete lacks an event | the event pages of `harvest` alone |
| `ga4_restated` | violated: a day restated back blocks its window | 2 days, no faults |
| `entry` | one row per figure stands, the last word stands, a package is whole or absent, the register is the list, its pages add up, no history is lost | 2 staff, 2 typists, 2 operators (the first two interchangeable), 3 runs, 2 dates, 3 rows of a list; 5 public lists, 6 points in time, 1 fault; 154,888 states |
| `shop_path_returns` | violated: an accepted package that cannot be imported | 3 packages |
| `viewing` | from the feed to the page: atomic publication, verdicts about what is shown, no stale read, no implausible jump, the contract, and that a settled source is shown; failures are counted, the right PIN gets in, the parts of each page agree, links are deserved | 2 invocations of a feed, contents of 10, 11 and 30 members (11 is a plausible step from 10, 30 is not), 1 fault, 1 dry run; 2 browsers, limit, window and lock of 2, purge age 3; every typed address of the tables and 2 clicks (1 for events); 4 snapshots of each register, listing and corpus; 258,977 states |
| `event_match_rerun` | violated: the event matcher run twice over the same inputs dies | |

Why the bounds are enough. Two invocations suffice for every race over one lock or one
current row, because the code never looks at more than one other. Three contents give
publish, replace and return, or publish, refused and plausible. Two days in chunks of one
give a boundary between chunks, an older day that blocks a newer one, and a day that
leaves the window. Three source publications give an input of a matcher a successor,
which is what retires it and its match. A budget below the number of candidates makes a
crawl need several runs. A limit of two failures with a window of two gives a count that
is reset, one that locks, and failures of two windows next to each other. What is proved
(section 5) does not depend on the bounds. `CHECK_DEADLOCK FALSE` stands where the bounds
use up keys, clicks or time, after which nothing is started any more.

Every property of a passing run has a mutant: a copy of one definition, changed the way
a plausible bug would change it, that makes TLC find the property violated. Mutants are
commented as such where they are defined and nothing else uses them.

### Fairness

Where one run follows several components, only the actions of the one followed are ever
enabled, so one condition over the union of two of their actions says of each component
what a condition of its own would say.

* `FeedSync`: cron starts a live run every morning (weak fairness of `Begin` with
  `dry_run` false); a running command takes its next step; a source asked again and
  again by live runs answers now and then (strong fairness of `Collect`). Nothing is
  assumed of dry runs. Faults are bounded, so they eventually stop.
* `WorkbookFeed`: a running command takes its next step. Nothing starts anything.
* `SnapshotRetention`, `OpinionCorpus`: cron starts each matcher, builder and crawl; a
  running command takes its next step.
* The collectors: a nightly run is started again and again although others may hold the
  lock (strong fairness, for a cron entry that retries daily), and takes its steps. The
  operator repeats the two passes over the news.
* `ViewerAccess`: time passes, a request that has begun goes on, a viewer who is refused
  tries again with the right PIN. Waiting for the row is strongly fair: PostgreSQL queues
  the waiters.

### What the violated properties mean

* `feed_reverts`: a member count of 3000, then 3001, then 3000 again is reported as
  unchanged while the dashboard shows 3001, until a fourth value appears.
* `workbook_race`: needs an operator importing by hand while the scheduled job runs.
* `retention_race`: needs a matcher to commit in the milliseconds between two
  statements of a prune run by hand; the next matcher run repairs the links.
* `complete_crawl`: an event page whose end lies before its start is fetched, refused by
  `parse_event_detail` (`events/collector.py:359`) and counted as an error, and the run
  stays complete (`events/public_discovery.py:403`). Whoever reads `is_complete` alone takes
  a catalogue without that event for whole; what is true is `ErrorsCoverTheLack`: the
  recorded error count covers what is missing.
* `ga4_restated`: the nightly run fails at the restated day until that day leaves the
  window, and the newer days behind it are not published meanwhile.
* `shop_path_returns`: a product page that returns to an address it had before passes
  the contract and fails the whole import.
* `event_match_rerun`: the command documented as safe to re-run dies when nothing is new.

## 4. What only TLC checks

* All liveness (`SettledIsShown`, `CommandsEnd`, `LinksReturn`, `CorpusCatchesUp`,
  `SiteIsCaughtUp`, `FiguresAreCaughtUp`, `ViewersAreServed`): fairness and ENABLED are
  out of the prover's reach.
* `ShopPagesAgree`, `WebsitePagesAgree`, `NewsPagesAgree`, `EventPagesAgree`, and
  `RosterPagesAddUp`: equalities between two sums over the same rows, which need induction
  over data. The interesting part is the computation, not the steps.
* `LockedNoCollapse` of the `workbook` run: the same formula as `NoCollapse`, which
  `NoCollapseUnderLock` proves for commands that all take the lock (`Manual = {}`).
* `NewsTypeOK` and what the two passes of the archive read: work lists that come from
  `SelectSeq` and sorts, which the prover cannot expand. The proofs need only that a row is
  a row, and leave those lists untyped.

## 5. Proofs

Eight modules hold the theorems, for every value of the constants; each extends the
modules it proves about. The assumptions on the constants are named in the modules that
declare them (bounds are natural numbers, contents have sizes, registers and corpora are
finite sets of rows); TLC evaluates them in the runs. The model is never changed by a
proof module; what the invariants add is said here.

### `FeedSyncProofs`

`TypeCorrect`. `PublicationIsAtomic`: atomicity is not inductive alone; `RegistryInv` adds
that only the holder of the lock is running (`Mutex`), that at most one snapshot is
current, and what each label knows of its own run (`LocalInv`). `SeenStaysShown` follows
from `Mutex`: the only publisher is the invocation itself. `VerifiedStaysShown`, assuming
`~Reverts`: everything published was served, a retired content is neither served nor in
anybody's hands, and the stored validator belongs to a published content, so a content
found published can only be the current one; without the assumption `feed_reverts` shows
it false. `NoJump`: what the plausibility check read is still current at the commit.
`FeedImplementsContract`: initial states map to initial states, and every step is a step
of `PublicationContract` or leaves what it sees alone.

### `WorkbookFeedProofs`

`TypeCorrect`, `PublicationIsWhole`, `WorkbookImplementsContract`, `NoCollapseUnderLock` (no
manual imports). No lock serialises a manual import with a scheduled one, so the invariant
says what an invocation may rely on without it: a run belongs to the invocation that
opened it (`PrivateRuns`), and the rows it read or locked were published and stay so
(`LocalInv`); one current row then follows from the row lock, the re-check and the
constraint.

### `RetentionProofs`: snapshots and documents

*Snapshots.* `TypeCorrect`; `KeysResolve` with and without `Overlap`; `PruneStaysClean` and
`RetainedSurvivesPrunes` for `Overlap = FALSE`. The structural invariant says that keys are
spent once, pins go down two levels and none leads to an opinion match; the one about the
prune that what is planned is old and retired, that deleting what the re-check left
reaches nothing current or recent through two rounds of CASCADE (`SafeIsSafe`), and that
the old matches citing a planned document go first (`CitersGoFirst`). With `Overlap`
`SafeIsSafe` is false, as `retention_race` shows.

*Documents.* `CorpusTypeCorrect`, and `PublishedCanBeServed`: a file is written before its
row and a row before its text, nothing leaves the store, and what each run believes to be
stored is stored (`StoreKeepsUp`), although the other may have put it there.

### `HarvestProofs`: days, campaigns, articles, event pages, the archive

*Reporting days.* `TypeCorrect`, `EveryDayIsPublished`, `DetailStays`. `Progress`: every
day before the cursor has a revision or is still in hand; `ChunksInTurn`: a chunk is
collected only when the one before it is done, and a run ends only behind its last day.

*Campaigns, beside the days.* `NothingIsEverLost` is about the composition the `harvest`
run checks, for every value of its constants, so the module extends `MCHarvest`: whichever
collector takes the next step, a revision keeps the rows its predecessor had and a campaign
keeps what it was recognised as. `DetailIsHeld` is the first half; `CatalogueKeeps` the
second, from an invariant that says only that every row of the catalogue is classified.

*Articles.* `FeedOutranks`, `DatesStay`. Between the dater's SELECT and its UPDATE only the
feed can have dated the row (`SelectedStands`), so what the UPDATE overwrites is either no
date or the feed's, which `overtaken` then records; the namer never touches an existing row.

*Event pages.* `PagesTypeCorrect`, `CompleteRunsLackOnlyErrors`. `NothingLost` says where
an event page is while a run still calls itself complete: the children it has passed have
been read, so at the end of the sitemap every page is listed; of the listed ones each has
its row, is wanted, or is one of those the run has counted as errors (`TheCapLeavesNone`: a
run that the cap cuts short is not complete); and reading a page leaves it a row, adds it
to the errors, or ends the completeness. That a complete run lacks nothing is the claim of
the docstring, and `complete_crawl` shows it false.

*The archive.* `ArchiveStaysHonest`: for every number of topics, page size, budget, set of
dead pages and shortlist, the snapshot holds every topic that was listed when its run
began and is not withdrawn, and `backfill_complete` means that every listed topic of the
recent window was read or tried. A walk reads a listing that moves under it. What it has
read is still listed in one piece, behind k newcomers (`WalkIsOnePiece`); while k is less
than two pages, a shift shows it a card twice, and it cannot pass one by unseen
(`ShiftShowsTwice`). So a listed topic it did not see is newer than all it saw, or stands
behind all of them in the snapshot, where it is known (`WalkCovers`). The merge then
leaves a catalogue without gaps, in which no recent listed entry stands behind an old one
(`Sound`, `MergeIsSound`), and a pass over the window that stops at the first old entry has
passed no recent one (`CompleteHasRead`). The hypothesis `~snap.torn` is needed: a
withdrawal, or two pages of newcomers, under one walk make the statement false (section 7).

### `RegisterProofs`: profiles, rosters, the shop

*Profiles.* `TypeCorrect`, `RegisterIsTheList`, `NoHistoryIsLost`. That the rows are the
list holds only between checks, and a check answered with 304 reads no list at all. So the
invariant carries what the stored validator stands for (`ValidatorStands`), what the last
answer was about (`AnswerStands`), what a check has in hand between its commit and its
record (`CheckReads`), and that a row is published exactly when it has no moment of
disappearance (`RowsAreMarked`).

*Rosters.* `RostersFormALine`. A command holds `FOR UPDATE` the rows it will stand down, so
they are still in force when it writes, and no two commands hold the same one
(`HeldRowsStand`); a command that found none in force is stopped by the unique index if
somebody published meanwhile. So each commit stands down the last row of the line or fails.

*The shop.* `LastWordAlwaysStands`. The invariant is the property without its window of
covered days (`WordsStand`) and the types of the rows: an import replaces the current rows
of the cells its package names (`FactsTakeTheWord`, `OrdersTakeTheWord`) and an address is
set or moved (`PagesTakeTheWord`), which rests on the constraint that a product has one
current page. A package says one thing of a cell because the contract refuses it
otherwise, so a sum over the current rows of a cell is the sum over one row.

### `BoardReportsProofs`: elections and packages

*Elections.* `ElectionsInvariant`, `PreferredRowIsBest`, `BoardHistoryAlwaysStands`. A
report elects among the rows it saw when it asked for their locks; a row committed since is
missed by it. That does no harm, because whoever committed it left a preferred row on the
date: the election saw that one and its winner is at least as good (`MissedByManual`), or
the report supersedes that one and then nothing was missed (`NothingMissedBehindLock`), or
the commit would leave two preferred rows and the constraint refuses it. The import has
seen every live row of the packages before it (`ImportHolds`), since only reports are
written beside it. The premise, that a date with live rows has a preferred one, is what a
correction to another date and a replacing import can break; those dates are in `orphaned`,
and `ElectedOrOrphaned` says that there are no others. The import elects among what its
guard saw; a manual report committed between the guard and the write, on a date the package
has a row for, stays live and unelected, and is put in `passedOver` at that commit
(`Overlooked`) until a report corrects it. Every other row, a manual one over a package row
first of all, is held to the order of `quality.py`. The last theorem assumes that every
package has rows: an import looks for the generation before it among the rows, so it does
not see the batches of a package without any.

*Packages.* `HistoryStaysWhole`, for any packages, rows added to them and number of imports.
The property counts the rows of a run, the invariant says which they are: the images of
the package's tables under the writers, with the liveness that the generation has left
(`HoldsPackage`, `ImportStands`). Retiring a generation changes the liveness of its rows and
nothing else (`RetirementKeeps`), an import adds rows of its own run only (`WritingKeeps`,
`WritingStores`). The numbers then agree because the contract keys every table
(`AcceptedIsKeyed`) and the writers keep those keys apart: a movement is stored under the
reading of its document and date instead of its document, and two movements with one
parent are of one document and date (`ParentsTellApart`); the sizes of a period are kept
apart by a database constraint and not by the contract (`OneBandEach`). One live generation
needs that each import brought an observation, by which the next one finds it
(`OneGenerationLives`).

### `AudienceFiguresProofs`

`TransactionsInvariant`, `FiguresAlwaysStand`. A row that a transaction holds is current
until it ends, since whoever replaces it locks it first; a slot it has written stays its
own, since the unique index makes others wait (`SlotsStand`, `Apart`). Locks are taken in
the order of the metric registry (`LocksInOrder`), so a session waits only for one that is
further on (`WaitsForTheFurther`) and nobody waits in a circle. A key in the table carries
one recorded content (`RowsAreRecorded`, `CarriedBy`), and recorded contents are distinct,
so a submission counts once however often and in whatever order of boxes it is sent.

### `ViewingProofs`: the PIN and the deserved links

*The PIN.* `TypeCorrect`, `PinStaysGuarded`. The rate is about failures that may lie two
windows apart, the bucket remembers one window. `BucketStands` therefore places every
failure: the last ones are those the count stands for, the ones before them are fewer than
the limit in any window and end before the window began, a full count is a lock, and a
purged or reset bucket leaves only old ones (`ForgottenAreOld`). `OneEvaluates` is the row
lock, `RequestsAreRecent` how long a request may have waited.

*Links.* `EventLinksAlwaysDeserved`, `OpinionsAlwaysDeserved`, `LinksAlwaysDeserved`. Each
has two parts. The state: what a match was decided from, although its inputs are replaced
while it runs and after it (`MatchInv`, `OpinionInv`, `TopicInv`: the rows a page shows are
those of the register its match names, matches are numbered, and an input with the number
of the current one is the current one). The computation: the code sorts the candidates,
takes the first and looks at its distance to the second; the property says which candidate
leads every other by the margin (`MatchIsDeserved`, `ClearIsTheAnswer`,
`DecisionIsTheAnswer`). Scores are quotients of sums of rarities; that these sums are
natural numbers for every finite set of words is shown by a least counterexample
(`TotalIsNat`), because a fold over a set cannot be unfolded by induction here.

## 6. Not modelled

* Parsers of HTML, PDF and XLSX: one accept/refuse decision each. The HTTP retry loop:
  only its outcome is visible to its callers. Digests stand for what they cover.
* The Legal-work and Membership pages and charts, the dashboard cards other than those
  of news and events, wording, colours and layout.
* Audit rows, which nothing reads back; test seeds, migrations, templates; deployment
  and cron, which appear as fairness.
* Dry runs that write nothing (`prune_snapshots`, the archive, the opinion store, the
  history package, the matchers), `ga4_status`, `verify_legal_opinion_store`.
* `import_news_categories`; the parser of the current-topic listing; parsing of file
  names and letter heads; acronyms and evidence codes that decide nothing; `MAX_PAGES`
  and `MAX_ITEMS` of the archive.

## 7. Observations

Behaviours met while modelling that no run checks. They are stated so that a reader can
decide whether they are meant.

Collecting and publishing:

* The failure of a dry run is recorded as the feed's failure
  (`legal_work/public_sync.py:108`), and a backfill of old days moves the recorded
  reporting day back (`visibility/ga4_sync.py:577`).
* Smaily list counts that return to an earlier reading of the same day are refused by
  the import key until midnight (`smaily_sync.py:278`); campaign batches likewise. One
  unreadable campaign stops the rest of its run, against the comment at
  `smaily_campaign_sync.py:219`. Campaigns without figures, and event pages without event
  data, are asked again each run and stand before older ones.
* Archive: with a budget no larger than the number of dead candidates the recent window is
  never read and each run ends at the import key; the background window does not retry
  failed pages although `hydrate_detail` says so.
* Archive: a withdrawal during an incremental walk moves the listing up, so a recent entry
  can slip onto a page already read and `backfill_complete` be recorded without it; two
  pages or more of newcomers during a walk can show it nothing but entries it knows, and it
  stops early on that. Both are the `torn` of the model; the next full walk heals them.
* News: a feed commit between the dater's SELECT and UPDATE is overwritten (`overtaken`); a
  row created by the namer between the feed's read and write fails that publication once;
  unreadable pages as many as the limit keep older ones from being dated.
* Event discovery: `--full` with a cap
  reads the same first pages again.
* Opinions: reverted content, or `--full` without a new version, is refused by the import
  key; a failed attachment older than the overlap is not retried although the docstring
  says "retried on the next run"; an unreadable page at the edge fails every incremental
  run; an emptied inbox leaves the old catalogue; two runs creating the same blob end one
  of them.
* Directory: a check that dies between its commit and `_mark_imported` leaves an older
  validator, and the next 304 is reported unchanged (`directory_sync.py:265`, `torn`).

Entering and importing:

* Board reports: re-entering the content of a superseded manual report returns the
  superseded row as saved; import and manual election break ties differently; a manual
  report committed while an import replaces the history stays live but not preferred,
  against the rule that manual outranks (`publishing.py:120`,
  `docs/internal-membership-history.md:248`; `passedOver` of the model). A correction that
  moves the preferred row to another date, or an import that retires it, can leave a date
  with live rows and none preferred (`orphaned`), and an election that read before may then
  prefer a worse row. The guard of an import looks for rows, so the decision batches of a
  package without rows are not seen by it.
* Two simultaneous corrections of one figure: the second is refused by the unique index.
* Shop: a fact missing from a later package keeps its current row; an older package can be
  imported after a newer one; an earlier archive re-imported is "unchanged"; no lock
  stands between two imports.
* History package: two size rows that differ only in a lone calendar year, and two
  warnings without id on a superseding import, pass the contract and fail the import; a
  package without snapshots is never superseded; the writer refuses movements without a
  direct observation of their date, which the reader accepts.
* Rosters: an earlier file re-imported is "unchanged" although another is current; the
  register counts codes once, the stated count every row.

Matching and reading:

* Event links: the high-water mark says which pages were read, not what they said, so a
  corrected page is not matched again until a new page or programme arrives; a link stays
  on an event whose date changed until the next match. The two event-link jobs are
  documented and not in cron (`docs/operations-runbook.md:93`).
* Opinion links: a relation whose page may no longer be published leads to an empty
  resource page. An address shows every companion and article of its matter
  (`opinion_views.py:142-173`), and companions keep standing there after the letter they
  accompany was published again and its link is gone. `THRESHOLD_PLAUSIBLE`
  (`opinion_matching.py:92`) is unused.
* Events page: choosing another year in the register's filter exchanges the rows while the
  figures above keep the old year until a reload; a delivery mode outside the vocabulary
  is left out of a distribution whose docstring says that it sums to its population.
* News page: list and count of the archive include listing pages, the other figures do not;
  freshness is in UTC; days inside the measured span that were never collected are looked
  past: the cohort of a benchmark is to be withheld where its days have a hole and
  `missing_days_within` is said to verify the span (`news/analytics.py:42-51`, `:293-294`,
  `:323-325`), and the previous window is to be wholly measured (`:942-951`), but no code
  that builds either does, so a cohort counts the views of a month with a hole as that
  month's and a comparison may rest on fewer days (`Gaps` in `NewsReading`, the fifth day
  of the tables); an open start makes the publishing section cover the whole catalogue
  while the archive stops at the end date; the benchmark compares all-time views with a
  first-month median.
* Website page: a page number past the end shows the last number with no rows
  (`website_page.py:1618`, against `core/query_state.py:56`); the denominators of the
  engagement rate of channels are unmatched; the users of a period are not asked again
  when its days are restated until the next synchronisation.
* Shop page: the units by product ignore the member filter; paging and sorting drop the
  trend metric although `build_query` says that paging keeps everything.
* PIN: a request that waits for the row is judged by the time it arrived, so the rate has
  the slack of that wait; with three requests at once `get_or_create` can still end in an
  error page.

## 8. Plan

Done since the first plan: the election and the import of `BoardReports`, the history
packages, the rosters, the shop, the typed figures, the event pages, the archive, and the
deserved links of the three matchers are proved as well as checked. Left:

1. The agreement of the four pages: equalities between two folds over the same rows.
2. The Legal-work pages in the manner of the four pages that are modelled.
