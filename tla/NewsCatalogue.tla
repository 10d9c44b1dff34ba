---------------------------- MODULE NewsCatalogue ---------------------------
(***************************************************************************)
(* The durable catalogue of news pages (apps/news/catalogue.py,            *)
(* discovery.py).  Three writers share it without a common lock: the feed, *)
(* in its publication transaction; discover_news_titles, which names       *)
(* measured pages the catalogue does not know; backfill_news_dates, which  *)
(* dates the rows that have no date.  The last two are run by hand, again  *)
(* and again.                                                              *)
(***************************************************************************)
EXTENDS Naturals, Sequences, FiniteSets, SequencesExt

CONSTANTS
    MeasuredPaths, \* measured news paths, the busiest first
    Legacy,     \* paths catalogued before dates were read, in that order
    Datable,    \* pages that state a publication date
    Unreadable, \* pages that cannot be fetched
    PageLimit,  \* --limit
    MaxMisses   \* bound: fetches that fail

Path == ToSet(MeasuredPaths)

VARIABLES
    front,      \* the articles the feed shows
    rows,       \* NewsResource: path -> [first, origin, date, overtaken]
    recording,  \* the feed's publication transaction
    namer,      \* discover_news_titles
    dater,      \* backfill_news_dates
    misses

newsVars == <<front, rows, recording, namer, dater, misses>>

\* existing: the rows the transaction has read.
IdleRecording == [pc |-> "idle", items |-> {}, existing |-> {}]

\* saw: the date of the row the pass has selected.
Idle == [pc |-> "idle", paths |-> <<>>, saw |-> "none"]

Row == [first : Nat, origin : {"feed", "page"}, date : {"none", "feed", "page"},
        overtaken : BOOLEAN]

NewsTypeOK ==
    /\ front \subseteq Path
    /\ DOMAIN rows \subseteq Path /\ \A p \in DOMAIN rows : rows[p] \in Row
    /\ recording.pc \in {"idle", "write"}
    /\ namer.pc \in {"idle", "fetch", "create"} /\ dater.pc \in {"idle", "fetch", "select", "save"}
    /\ misses \in 0..MaxMisses

NewsInit ==
    /\ front = {}
    /\ rows = [p \in ToSet(Legacy) |->
                  [first |-> CHOOSE i \in DOMAIN Legacy : Legacy[i] = p, origin |-> "page",
                   date |-> "none", overtaken |-> FALSE]]
    /\ recording = IdleRecording
    /\ namer = Idle
    /\ dater = Idle
    /\ misses = 0

NewRow(origin, date) ==
    [first |-> Cardinality(DOMAIN rows) + 1, origin |-> origin, date |-> date,
     overtaken |-> FALSE]

-----------------------------------------------------------------------------
(* The feed. *)

\* An article is published; older ones scroll out.
Announce(p) ==
    /\ p \notin front
    /\ front' = {p}
    /\ UNCHANGED <<rows, recording, namer, dater, misses>>

\* record_feed_items reads the rows of its items ...
ReadExisting ==
    /\ recording.pc = "idle" /\ front # {}
    /\ recording' = [pc |-> "write", items |-> front, existing |-> front \cap DOMAIN rows]
    /\ UNCHANGED <<front, rows, namer, dater, misses>>

\* A known article takes the feed's title and date, a new one is created.
FeedRow(p) ==
    IF p \in recording.existing
    THEN [rows[p] EXCEPT !.origin = "feed", !.date = "feed", !.overtaken = FALSE]
    ELSE NewRow("feed", "feed")

\* ... and writes them with the snapshot, in one transaction.
WriteFeedItems ==
    /\ recording.pc = "write"
    /\ recording.items \cap DOMAIN rows \subseteq recording.existing
    /\ rows' = [p \in DOMAIN rows \cup recording.items |->
                    IF p \in recording.items THEN FeedRow(p) ELSE rows[p]]
    /\ recording' = IdleRecording
    /\ UNCHANGED <<front, namer, dater, misses>>

\* The row was created by the namer meanwhile: the path is unique, and the
\* whole publication is rolled back.
WriteRefused ==
    /\ recording.pc = "write"
    /\ ~(recording.items \cap DOMAIN rows \subseteq recording.existing)
    /\ recording' = IdleRecording
    /\ UNCHANGED <<front, rows, namer, dater, misses>>

-----------------------------------------------------------------------------
(* The two passes by hand. *)

Take(s) == SubSeq(s, 1, IF Len(s) < PageLimit THEN Len(s) ELSE PageLimit)

\* unnamed_news_paths
Unnamed == SelectSeq(MeasuredPaths, LAMBDA p : p \notin DOMAIN rows)

BeginNaming ==
    /\ namer.pc = "idle" /\ Unnamed # <<>>
    /\ namer' = [Idle EXCEPT !.pc = "fetch", !.paths = Take(Unnamed)]
    /\ UNCHANGED <<front, rows, recording, dater, misses>>

UndatedRows == {p \in DOMAIN rows : rows[p].date = "none"}

\* undated_paths, the newest find first.
Undated == SetToSortSeq(UndatedRows, LAMBDA p, q : rows[p].first > rows[q].first)

BeginDating ==
    /\ dater.pc = "idle" /\ Undated # <<>>
    /\ dater' = [Idle EXCEPT !.pc = "fetch", !.paths = Take(Undated)]
    /\ UNCHANGED <<front, rows, recording, namer, misses>>

Moved(pass) == 
    IF Len(pass.paths) = 1 THEN Idle ELSE [Idle EXCEPT !.pc = "fetch", !.paths = Tail(pass.paths)]

Fetchable(pass) == pass.pc = "fetch" /\ Head(pass.paths) \notin Unreadable

FetchForName ==
    /\ Fetchable(namer)
    /\ namer' = [namer EXCEPT !.pc = "create"]
    /\ UNCHANGED <<front, rows, recording, dater, misses>>

\* get_or_create: a row the feed wrote in the meantime stays as it is.
CreateNamed ==
    /\ namer.pc = "create"
    /\ LET p == Head(namer.paths)
       IN  rows' = IF p \in DOMAIN rows THEN rows
                   ELSE [q \in DOMAIN rows \cup {p} |->
                            IF q = p THEN NewRow("page", IF p \in Datable THEN "page" ELSE "none")
                            ELSE rows[q]]
    /\ namer' = Moved(namer)
    /\ UNCHANGED <<front, recording, dater, misses>>

FetchForDate ==
    /\ Fetchable(dater)
    /\ dater' = IF Head(dater.paths) \in Datable THEN [dater EXCEPT !.pc = "select"] ELSE Moved(dater)
    /\ UNCHANGED <<front, rows, recording, namer, misses>>

Selected == [dater EXCEPT !.pc = "save", !.saw = rows[Head(dater.paths)].date]

\* Mutant of SelectUndated: the row of the selection is used.
SelectAny ==
    /\ dater.pc = "select"
    /\ dater' = Selected
    /\ UNCHANGED <<front, rows, recording, namer, misses>>

\* The row is read again, because the feed may have dated it ...
SelectUndated ==
    /\ dater.pc = "select"
    /\ dater' = IF Head(dater.paths) \in UndatedRows THEN Selected ELSE Moved(dater)
    /\ UNCHANGED <<front, rows, recording, namer, misses>>

\* ... and saved by another statement, which the feed's commit may still overtake.
SaveDate ==
    /\ dater.pc = "save"
    /\ LET p == Head(dater.paths)
       IN  rows' = [rows EXCEPT ![p].date = "page",
                                ![p].overtaken = dater.saw = "none" /\ rows[p].date = "feed"]
    /\ dater' = Moved(dater)
    /\ UNCHANGED <<front, recording, namer, misses>>

\* A page that cannot be fetched is left out.
SkipName ==
    /\ namer.pc = "fetch" /\ Head(namer.paths) \in Unreadable
    /\ namer' = Moved(namer)
    /\ UNCHANGED <<front, rows, recording, dater, misses>>

SkipDate ==
    /\ dater.pc = "fetch" /\ Head(dater.paths) \in Unreadable
    /\ dater' = Moved(dater)
    /\ UNCHANGED <<front, rows, recording, namer, misses>>

\* A fetch that fails this time.
FetchFails ==
    /\ misses < MaxMisses
    /\ misses' = misses + 1
    /\ \/ Fetchable(namer) /\ namer' = Moved(namer) /\ UNCHANGED dater
       \/ Fetchable(dater) /\ dater' = Moved(dater) /\ UNCHANGED namer
    /\ UNCHANGED <<front, rows, recording>>

Naming == FetchForName \/ CreateNamed \/ SkipName
Dating == FetchForDate \/ SelectUndated \/ SaveDate \/ SkipDate

NewsNext ==
    \/ \E p \in Path : Announce(p)
    \/ ReadExisting \/ WriteFeedItems \/ WriteRefused
    \/ BeginNaming \/ Naming
    \/ BeginDating \/ Dating
    \/ FetchFails

NewsSpec == NewsInit /\ [][NewsNext]_newsVars

\* The operator runs both passes until nothing is left; the feed is scheduled.
NewsFairness ==
    /\ WF_newsVars(BeginNaming) /\ WF_newsVars(Naming)
    /\ WF_newsVars(BeginDating) /\ WF_newsVars(Dating)

FairNewsSpec == NewsSpec /\ NewsFairness

-----------------------------------------------------------------------------
(* Properties. *)

\* "A date the Chamber published outranks one read off the page": an article the
\* feed has named has the feed's date, whatever the two passes read before - but
\* for the moment between the dater's SELECT and its UPDATE.
FeedIsAuthoritative ==
    \A p \in DOMAIN rows : rows[p].origin = "feed" => rows[p].date = "feed" \/ rows[p].overtaken

HasDate(p) == p \in DOMAIN rows /\ rows[p].date # "none"

\* The undated rows before p in the order of the dating pass.
Before(p) ==
    {q \in DOMAIN rows : p \in DOMAIN rows /\ rows[q].date = "none" /\ rows[q].first > rows[p].first}

\* The unreadable pages before p in the order of the naming pass.
Busier(p) ==
    {q \in Unreadable : \E i, j \in DOMAIN MeasuredPaths :
        i < j /\ MeasuredPaths[i] = q /\ MeasuredPaths[j] = p}

\* "Running it again continues where it stopped": every readable article is named
\* and, if its page states a date, dated - unless PageLimit pages that never will
\* be stand before it.
AllRecovered ==
    \A p \in Path \ Unreadable :
        /\ p \in DOMAIN rows \/ Cardinality(Busier(p)) >= PageLimit
        /\ p \in Datable \cap DOMAIN rows => HasDate(p) \/ Cardinality(Before(p)) >= PageLimit

=============================================================================
