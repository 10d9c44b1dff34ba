------------------------------- MODULE MCEntry -------------------------------
(***************************************************************************)
(* What people enter and import - board reports and their history,         *)
(* audience figures, shop packages, rosters, the member directory and its  *)
(* composition - each by itself: they share no state.                      *)
(***************************************************************************)
EXTENDS BoardReports, HistoryPackage, AudienceFigures, ShopImport, RosterImport, MemberDirectory,
        Integers, TLC

VARIABLES
    rows_read, counts, unmapped, tenures,                                     \* composition
    subject

compositionVars == <<rows_read, counts, unmapped, tenures>>
entryVars == <<boardVars, audienceVars, shopVars, rosterVars, vars, compositionVars, historyVars,
               subject>>

EntrySymmetry == Permutations(Staff) \cup Permutations(Typists)

-----------------------------------------------------------------------------
(* Board reports: a package and its rebuild. *)

\* A document's own reading and a later document's comparison on date 1, the
\* first of them disputed, and a comparison alone on date 2.
History ==
    [rows |-> {[sid |-> 1, date |-> 1, facts |-> "paid_exceeds_total",
                source_kind |-> "merged_same_document", confidence |-> "high"],
               [sid |-> 2, date |-> 1, facts |-> "consistent",
                source_kind |-> "reported_comparison", confidence |-> "medium"],
               [sid |-> 3, date |-> 2, facts |-> "consistent",
                source_kind |-> "reported_comparison", confidence |-> "low"]},
     conflicts |-> {1}, months |-> {1}]

\* The rebuild drops the second date.
Rebuild == [History EXCEPT !.rows = {r \in @ : r.date = 1}, !.conflicts = {}]

MCPackages == {History, Rebuild}
MCDates == {1, 2}

\* Clean figures with the month's, dubious ones without, and another date.
MCReports == {[date |-> 1, figures |-> 1, facts |-> "consistent", month |-> TRUE],
              [date |-> 1, figures |-> 2, facts |-> "pct_mismatch", month |-> FALSE],
              [date |-> 2, figures |-> 1, facts |-> "consistent", month |-> FALSE]}

-----------------------------------------------------------------------------
(* Audience figures: two follower counts, and a newsletter of two lists. *)

Followers(n) == [m \in {"facebook", "linkedin"} |-> n]

\* The same figures typed in two orders, and a correction of them.
MCSubmissions ==
    {[date |-> 1, values |-> Followers(1), boxes |-> <<"facebook", "linkedin">>],
     [date |-> 1, values |-> Followers(1), boxes |-> <<"linkedin", "facebook">>],
     [date |-> 1, values |-> Followers(2), boxes |-> <<"linkedin", "facebook">>]}

Read(n) == [state |-> "read", count |-> n]
Unread == [state |-> "missing", count |-> 0]

BothLists == [members |-> Read(1), others |-> Read(2), news |-> Read(3)]
OneList == [members |-> Read(1), others |-> Unread, news |-> Read(4)]

MCReadings == {BothLists, OneList}
MCSocial == <<"facebook", "linkedin">>
MCNewsletters == [eteataja |-> {"members", "others"}, enews |-> {"news"}]

-----------------------------------------------------------------------------
(* The shop's packages. *)

ShopData == INSTANCE MCShop

MCArchives == ShopData!MCArchives

-----------------------------------------------------------------------------
(* The rosters, the public directory and the composition. *)

Line(n, c) == [name |-> n, code |-> c]

\* An export, its correction with a code repeated, and a page that is no roster.
MCExports == {[name |-> "june", headed |-> TRUE, rows |-> <<Line("a", "1"), Line("", ""), Line("b", "")>>],
          [name |-> "june2", headed |-> TRUE, rows |-> <<Line("a", "1"), Line("b", ""), Line("a", "1")>>],
          [name |-> "july", headed |-> TRUE, rows |-> <<Line("c", "2")>>],
          [name |-> "other", headed |-> FALSE, rows |-> <<>>]}

MCKinds == {"register", "composition"}

InList(c, p) == [code |-> c, path |-> p]

\* A list, the list without a member, with a renamed profile and a repeated
\* code, one too small to be believed and one that is mostly broken.
MCListings ==
    {<<InList("1", "/a"), InList("2", "/b"), InList("3", "/c")>>,
     <<InList("1", "/a"), InList("2", "/b")>>,
     <<InList("1", "/a2"), InList("1", "/a3"), InList("2", "/b"), InList("", "/d")>>,
     <<InList("3", "/c")>>,
     <<InList("", "/x"), InList("4", ""), InList("2", "/b")>>}

MCRoster == <<Line("a", "1"), Line("b", ""), Line("d", "4"), Line("e", "3")>>

Start(y, d) == <<[year |-> y, day |-> d]>>

\* Sizes at a boundary, a code in a gap of the classification, members of
\* exactly one year and of a day less, and a start after the snapshot.
C == INSTANCE MemberComposition WITH
        Snapshot <- [year |-> 30, day |-> 100], YearDays <- 365, RecentDays <- 365,
        TopCategories <- 2, MinOverall <- 2, MinRecent <- 1,
        Raw <- [status : {"koja liige", "auliige"}, employees : {<<-1>>, <<9>>, <<10>>},
                nace : {<<34>>, <<35>>},
                start : {<<>>, Start(29, 100), Start(29, 101), Start(30, 101), Start(19, 100)}]

-----------------------------------------------------------------------------
(* The packages of the history, with up to two rows added. *)

HistoryData == INSTANCE MCHistoryPackages

MCHistory == HistoryData!FirstPackages
MCExtra == HistoryData!MoreRows

-----------------------------------------------------------------------------
ASSUME EntryAssumption == DirectoryAssumption

EntryInit ==
    /\ subject \in {"board", "typed", "lists", "shop", "rosters", "directory", "composition",
                   "packages"}
    /\ BoardInit /\ AudienceInit /\ ShopInit /\ RosterInit /\ Init /\ C!Init /\ HistoryInit
    /\ subject # "lists" => lists = BothLists
    /\ subject # "directory" => listing = <<InList("3", "/c")>>
    /\ subject # "packages" => package = HistoryData!Board

\* Figures are typed while Smaily's lists rest, and lists come and go over two
\* days while nobody types.
EntryNext ==
    /\ UNCHANGED subject
    /\ \/ /\ subject = "board" /\ BoardNext
          /\ UNCHANGED <<audienceVars, shopVars, rosterVars, vars, compositionVars, historyVars>>
       \/ /\ (subject = "typed" /\ TypedNext) \/ (subject = "lists" /\ (DayEnds \/ ListsNext))
          /\ UNCHANGED <<boardVars, shopVars, rosterVars, vars, compositionVars, historyVars>>
       \/ /\ subject = "shop" /\ ShopNext
          /\ UNCHANGED <<boardVars, audienceVars, rosterVars, vars, compositionVars, historyVars>>
       \/ /\ subject = "rosters" /\ RosterNext
          /\ UNCHANGED <<boardVars, audienceVars, shopVars, vars, compositionVars, historyVars>>
       \/ /\ subject = "directory" /\ Next
          /\ UNCHANGED <<boardVars, audienceVars, shopVars, rosterVars, compositionVars, historyVars>>
       \/ /\ subject = "composition" /\ C!Next
          /\ UNCHANGED <<boardVars, audienceVars, shopVars, rosterVars, vars, historyVars>>
       \/ /\ subject = "packages" /\ HistoryNext
          /\ UNCHANGED <<boardVars, audienceVars, shopVars, rosterVars, vars, compositionVars>>

EntrySpec == EntryInit /\ [][EntryNext]_entryVars

\* Only the shop's packages.
ShopOnlySpec == EntryInit /\ subject = "shop" /\ [][EntryNext]_entryVars

-----------------------------------------------------------------------------
(* Properties. *)

\* What the composition pages make of a roster adds up, and the comparison with
\* the public list places every row of both (MemberComposition, MemberDirectory).
RosterPagesAddUp ==
    /\ subject = "composition" => C!CompositionAddsUp
    /\ subject = "directory" => ComparisonIsWhole
=============================================================================
