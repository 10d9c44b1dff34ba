-------------------------- MODULE ArchiveCatalogue --------------------------
(***************************************************************************)
(* The catalogue of archived consultations                                 *)
(* (apps/legal_work/archived_topic_sync.py, archived_topics.py).           *)
(*                                                                         *)
(* A run walks the listing page by page while the site keeps changing,     *)
(* adds what it did not walk from the current snapshot, spends a budget on *)
(* detail pages - candidates for a link first, then the recent window -    *)
(* and publishes the whole catalogue as a new snapshot.  Runs hold the     *)
(* feed's advisory lock, so there is one at a time.                        *)
(***************************************************************************)
EXTENDS Naturals, Sequences, FiniteSets, SequencesExt, FiniteSetsExt

CONSTANTS
    MaxTopics,       \* bound: consultations, numbered in the order of archiving
    ListedAtFirst,   \* how many of them are archived to begin with
    PageSize,        \* cards on one listing page
    KnownPages,      \* KODA_ARCHIVE_KNOWN_PAGES_BEFORE_STOP
    OldUpTo,         \* topics 1..OldUpTo were published before hydration_cutoff()
    StopAfterOlder,  \* KODA_ARCHIVE_WINDOW_STOP_AFTER_OLDER
    Budget,          \* KODA_ARCHIVE_MAX_DETAIL_PAGES_PER_RUN
    Dead,            \* topics whose detail page cannot be read
    Shortlists,      \* the shortlists that legal records come to have
    MaxChanges       \* bound: withdrawals, edits, changed shortlists, failing
                     \* requests and crashes

Topic == 1..MaxTopics

ASSUME ArchiveAssumption ==
    /\ {MaxTopics, OldUpTo, MaxChanges} \subseteq Nat
    /\ \A c \in Shortlists : ToSet(c) \subseteq Topic /\ IsInjective(c)
    /\ ListedAtFirst \in Topic
    /\ {PageSize, KnownPages, StopAfterOlder, Budget} \subseteq Nat \ {0}
    /\ Dead \subseteq Topic

VARIABLES
    listing,     \* the public listing: topics, newest first
    withdrawn,   \* topics taken off the site
    recarded,    \* topics whose card was edited
    candidates,  \* shortlisted topics, the strongest overlap first
    changes,     \* how much has happened
    snap,        \* the current snapshot
    published,   \* contents of the successful live runs
    walk         \* the run in progress

site == <<listing, withdrawn, recarded, candidates>>
archiveVars == <<site, changes, snap, published, walk>>

\* A listing entry; the order of a snapshot's entries is source_order.
Entry == [topic : Topic, edited : BOOLEAN]

\* hydrated and failed are the topics with that detail_status; the other entries
\* are pending.  since are the topics listed when the publishing run began; torn
\* says that the listing moved unseen under a walk that the entries come from.
NoSnapshot == [entries |-> <<>>, hydrated |-> {}, failed |-> {}, index_complete |-> FALSE,
               backfill_complete |-> FALSE, since |-> {}, torn |-> FALSE]

\* entries are the cards read so far, last what the pager of page 0 said, left
\* what the first pass leaves of the budget.
IdleWalk == [pc |-> "idle", full |-> FALSE, page |-> 0, last |-> 0, known |-> 0,
             entries |-> <<>>, reached_end |-> FALSE, since |-> {}, torn |-> FALSE,
             priority |-> <<>>, left |-> 0, hydrated |-> {}, failed |-> {}]

Topics(entries) == {e.topic : e \in ToSet(entries)}

ArchiveTypeOK ==
    /\ ToSet(listing) \cup withdrawn \cup recarded \cup ToSet(candidates) \subseteq Topic
    /\ \A s \in {snap, walk} :
          /\ ToSet(s.entries) \subseteq Entry
          /\ s.hydrated \cup s.failed \subseteq Topics(s.entries)
          /\ s.hydrated \cap s.failed = {}
    /\ walk.pc \in {"idle", "list", "priority", "window", "publish"}
    /\ changes \in 0..MaxChanges

ArchiveInit ==
    /\ listing = [i \in 1..ListedAtFirst |-> ListedAtFirst + 1 - i]
    /\ withdrawn = {} /\ recarded = {} /\ candidates = <<>> /\ changes = 0
    /\ snap = NoSnapshot
    /\ published = {}
    /\ walk = IdleWalk

-----------------------------------------------------------------------------
(* The site, and the legal records that need a link. *)

\* Two pages of topics that were not listed when the walk began: a page of them
\* may stand where the walk goes on, and none of them repeats.
PassesUnseen(topics) == Len(topics) >= 2 * PageSize /\ topics[2 * PageSize] \notin walk.since

\* The next topic in the order of archiving.
Archive(t) ==
    /\ \A u \in Topic : u \in ToSet(listing) \cup withdrawn <=> u < t
    /\ listing' = <<t>> \o listing
    /\ walk' = [walk EXCEPT !.torn = @ \/ (walk.pc = "list" /\ PassesUnseen(listing'))]
    /\ UNCHANGED <<withdrawn, recarded, candidates, changes, snap, published>>

Change == changes < MaxChanges /\ changes' = changes + 1

\* The cards behind a withdrawn one move up: the walk may miss one of them.
Withdraw(i) ==
    /\ Change /\ Len(listing) > 1
    /\ listing' = RemoveAt(listing, i)
    /\ withdrawn' = withdrawn \cup {listing[i]}
    /\ walk' = [walk EXCEPT !.torn = @ \/ walk.pc = "list"]
    /\ UNCHANGED <<recarded, candidates, snap, published>>

EditCard(t) ==
    /\ Change /\ t \notin recarded
    /\ recarded' = recarded \cup {t}
    /\ UNCHANGED <<listing, withdrawn, candidates, snap, published, walk>>

\* A new legal snapshot, or a new match of it, shortlists other pages.
Shortlist(c) ==
    /\ Change
    /\ candidates' = c
    /\ UNCHANGED <<listing, withdrawn, recarded, snap, published, walk>>

-----------------------------------------------------------------------------
(* The listing walk: collect_archive_index. *)

ArchiveAt(label) == walk.pc = label

\* The first run is a full one.
BeginArchive(full) ==
    /\ ArchiveAt("idle")
    /\ walk' = [IdleWalk EXCEPT !.pc = "list", !.full = full \/ snap = NoSnapshot,
                               !.since = ToSet(listing)]
    /\ UNCHANGED <<site, changes, snap, published>>

ListingCards(page) ==
    LET first == page * PageSize + 1
        shown == SubSeq(listing, first, Min({first + PageSize - 1, Len(listing)}))
    IN  [i \in DOMAIN shown |-> [topic |-> shown[i], edited |-> shown[i] \in recarded]]

HasNextPage(page) == Len(listing) > (page + 1) * PageSize

\* discover_last_page: a listing of one page has no pager (0).
DiscoverLastPage == (Len(listing) - 1) \div PageSize

\* Known and unchanged: the snapshot holds the entry with the same title.
KnownUnchanged(entry) == entry \in ToSet(snap.entries)

Repeats(cards) == Topics(cards) \cap Topics(walk.entries) # {}

\* One listing page.  An entry that turns up twice ends the run: something was
\* archived during the walk.
ReadListing ==
    /\ ArchiveAt("list") /\ ~Repeats(ListingCards(walk.page))
    /\ LET cards   == ListingCards(walk.page)
           last    == IF walk.page = 0 THEN DiscoverLastPage ELSE walk.last
           atEnd   == cards = <<>> \/ (last > 0 /\ walk.page >= last)
           known   == IF \A i \in DOMAIN cards : KnownUnchanged(cards[i]) THEN walk.known + 1 ELSE 0
           early   == ~walk.full /\ known >= KnownPages
           ended   == atEnd \/ (~early /\ ~HasNextPage(walk.page))
       IN  walk' = [walk EXCEPT !.entries = @ \o cards, !.last = last, !.known = known,
                               !.page = @ + 1, !.reached_end = ended,
                               !.pc = IF ended \/ early THEN "priority" ELSE "list"]
    /\ UNCHANGED <<site, changes, snap, published>>

WalkRepeats ==
    /\ ArchiveAt("list") /\ Repeats(ListingCards(walk.page))
    /\ walk' = IdleWalk
    /\ UNCHANGED <<site, changes, snap, published>>

-----------------------------------------------------------------------------
(* Hydration. *)

\* Mutant of MergeWithPrevious: what was not walked is dropped.
WalkedOnly(entries) == entries

\* The entries of other topics, in their order.
Others(entries, topics) ==
    LET kept    == {i \in DOMAIN entries : entries[i].topic \notin topics}
        Rank(i) == Cardinality({j \in kept : j <= i})
    IN  [k \in 1..Cardinality(kept) |-> entries[CHOOSE i \in kept : Rank(i) = k]]

\* _merge_with_previous: what an incremental walk did not see keeps its place
\* behind what it saw.
MergeWithPrevious(entries) ==
    IF walk.full THEN entries
    ELSE entries \o Others(snap.entries, Topics(entries))

\* _carry_forward_details
CarryForward(topics) ==
    [hydrated |-> snap.hydrated \cap topics, failed |-> snap.failed \cap topics]

FirstOf(s, n) == SubSeq(s, 1, Min({n, Len(s)}))

\* Mutant of PriorityPages: a recorded failure is final.
UnreadPages(topics, d) ==
    FirstOf(SelectSeq(candidates, LAMBDA t : t \in topics \ (d.hydrated \cup d.failed)), Budget)

\* The pages of the first pass: shortlisted, of any age, never read before
\* failed, the strongest first.
PriorityPages(topics, d) ==
    FirstOf(SelectSeq(candidates, LAMBDA t : t \in topics \ (d.hydrated \cup d.failed))
            \o SelectSeq(candidates, LAMBDA t : t \in d.failed), Budget)

\* The shortlisted topics that are archived.
PriorityUrls(topics) == SelectSeq(candidates, LAMBDA t : t \in topics)

Broken(unavailable) == Dead \cup unavailable

\* Some requests may fail this time.
SomeUnavailable(unavailable) == IF unavailable = {} THEN UNCHANGED changes ELSE Change

\* hydrate_detail records a failure, it never raises one.
PriorityPass(unavailable) ==
    /\ ArchiveAt("priority") /\ SomeUnavailable(unavailable)
    /\ LET entries == MergeWithPrevious(walk.entries)
           carried == CarryForward(Topics(entries))
           pages   == PriorityPages(Topics(entries), carried)
           read    == ToSet(pages) \ Broken(unavailable)
       IN  walk' = [walk EXCEPT
             !.pc = "window", !.entries = entries,
             !.reached_end = @ \/ snap.index_complete,
             !.priority = PriorityUrls(Topics(entries)),
             !.left = Budget - Len(pages),
             !.hydrated = carried.hydrated \cup read,
             !.failed = (carried.failed \cup ToSet(pages)) \ read]
    /\ UNCHANGED <<site, snap, published>>

IsOlder(t) == t <= OldUpTo

\* older_run: StopAfterOlder in a row of these are older than the window.
WindowHasClosed(topics, older) ==
    \E i \in DOMAIN topics :
        /\ i + StopAfterOlder - 1 <= Len(topics)
        /\ \A j \in i..(i + StopAfterOlder - 1) : topics[j] \in older

Walked == SelectSeq([i \in DOMAIN walk.entries |-> walk.entries[i].topic],
                    LAMBDA t : t \notin walk.failed)

\* The pages of the second pass: from the newest entry on, until the budget is
\* spent or the window has closed.  A page that turns out to be broken has no date.
WindowPages(unavailable) ==
    LET older == {t \in ToSet(Walked) :
                     IsOlder(t) /\ (t \in walk.hydrated \/ t \notin Broken(unavailable))}
        open  == {Walked[i] : i \in {j \in DOMAIN Walked :
                                        ~WindowHasClosed(SubSeq(Walked, 1, j - 1), older)}}
    IN  FirstOf(SelectSeq(Walked, LAMBDA t : t \in open \ walk.hydrated), walk.left)

WindowPass(unavailable) ==
    /\ ArchiveAt("window") /\ SomeUnavailable(unavailable)
    /\ LET pages == ToSet(WindowPages(unavailable))
       IN  walk' = [walk EXCEPT !.pc = "publish",
                               !.hydrated = @ \cup (pages \ Broken(unavailable)),
                               !.failed = @ \cup (pages \cap Broken(unavailable))]
    /\ UNCHANGED <<site, snap, published>>

\* older_run: before entry i, StopAfterOlder entries that were read stand in a
\* row and are older than the window, whatever is unread or failed between them.
ClosesBefore(i) ==
    \E a, b \in 1..(i - 1) :
        LET read == {j \in a..b : walk.entries[j].topic \in walk.hydrated}
        IN  /\ Cardinality(read) >= StopAfterOlder
            /\ \A j \in read : IsOlder(walk.entries[j].topic)

\* _recent_window_pending, counted the way the pass walks: an unread entry that
\* the window reaches.
RecentWindowPending ==
    \E i \in DOMAIN walk.entries :
        walk.entries[i].topic \notin walk.hydrated \cup walk.failed /\ ~ClosesBefore(i)

\* _counts: neither a candidate nor an entry of the recent window is unread.
BackfillComplete ==
    /\ walk.reached_end
    /\ ToSet(walk.priority) \subseteq walk.hydrated \cup walk.failed
    /\ ~RecentWindowPending

-----------------------------------------------------------------------------
(* Publication. *)

\* canonical_payload is ordered by key: the checksum ignores the order.
Content == <<ToSet(walk.entries), walk.hydrated, walk.failed>>

\* Published before and nothing left to read.
Unchanged ==
    /\ ArchiveAt("publish") /\ Content \in published /\ BackfillComplete
    /\ walk' = IdleWalk
    /\ UNCHANGED <<site, changes, snap, published>>

\* One transaction: rows, publish_current, complete_import_run.
Publish ==
    /\ ArchiveAt("publish") /\ Content \notin published
    /\ snap' = [entries |-> walk.entries, hydrated |-> walk.hydrated, failed |-> walk.failed,
                index_complete |-> walk.reached_end, backfill_complete |-> BackfillComplete,
                since |-> walk.since, torn |-> walk.torn \/ (~walk.full /\ snap.torn)]
    /\ published' = published \cup {Content}
    /\ walk' = IdleWalk
    /\ UNCHANGED <<site, changes>>

\* The same content with pages left to read: the import key is taken.
ArchiveRefused ==
    /\ ArchiveAt("publish") /\ Content \in published /\ ~BackfillComplete
    /\ walk' = IdleWalk
    /\ UNCHANGED <<site, changes, snap, published>>

\* A failed request of the walk, a failed write or the end of the container.
RunFails ==
    /\ ~ArchiveAt("idle")
    /\ Change
    /\ walk' = IdleWalk
    /\ UNCHANGED <<site, snap, published>>

ArchiveStep == ReadListing \/ WalkRepeats \/ PriorityPass({}) \/ WindowPass({})
               \/ Unchanged \/ Publish \/ ArchiveRefused

ArchiveNext ==
    \/ \E t \in Topic : Archive(t)
    \/ \E i \in DOMAIN listing : Withdraw(i) \/ EditCard(listing[i])
    \/ \E c \in Shortlists \ {candidates} : Shortlist(c)
    \/ \E full \in BOOLEAN : BeginArchive(full)
    \/ ArchiveStep
    \/ \E t \in Topic : PriorityPass({t}) \/ WindowPass({t})
    \/ RunFails

ArchiveSpec == ArchiveInit /\ [][ArchiveNext]_archiveVars

\* Cron keeps starting the ordinary run, which takes its next step.
ArchiveFairness == WF_archiveVars(BeginArchive(FALSE)) /\ WF_archiveVars(ArchiveStep)

ArchiveFairSpec == ArchiveSpec /\ ArchiveFairness

-----------------------------------------------------------------------------
(* Properties. *)

\* No incremental walk forgets what it did not look at: what was listed when the
\* published run began is in its snapshot.
NothingForgotten == snap.since \ withdrawn \subseteq Topics(snap.entries)

\* A snapshot that says the backfill is complete has read, or tried to read,
\* every entry of the recent window that is still listed.
BackfillIsHonest ==
    snap.backfill_complete =>
        \A t \in Topics(snap.entries) \cap ToSet(listing) :
            IsOlder(t) \/ t \in snap.hydrated \cup snap.failed

\* No incremental walk forgets what it did not look at, and a snapshot that says
\* the backfill is complete has tried every recent page - unless the listing
\* moved unseen under a walk, and until a full walk reads it whole again.
ArchiveIsHonest == snap.torn \/ (NothingForgotten /\ BackfillIsHonest)

\* Once the site and the records rest, every page a record depends on is read,
\* whatever its age, the budget and the failures on the way - if fewer candidates
\* are dead than the budget has places, and no walk was torn.
AllRead ==
    \/ snap.torn
    \/ Cardinality(Dead \cap ToSet(candidates)) >= Budget
    \/ (ToSet(candidates) \cap ToSet(listing)) \ Dead \subseteq snap.hydrated

=============================================================================
