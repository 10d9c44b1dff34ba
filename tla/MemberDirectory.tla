--------------------------- MODULE MemberDirectory ---------------------------
(***************************************************************************)
(* The register of published member profiles                               *)
(* (apps/membership/directory_sync.py, directory_collector.py) and its     *)
(* comparison with the roster (register_selectors.py).                     *)
(*                                                                         *)
(* A check reads the public list and brings the rows in line with it: a    *)
(* code seen for the first time is added, one that is gone is marked       *)
(* unpublished and keeps its history, one that returns is restored.  The   *)
(* import run is opened only for a set never published before; the rows    *)
(* are brought in line on every check.  One advisory lock per source keeps *)
(* the checks apart.                                                       *)
(***************************************************************************)
EXTENDS Naturals, Sequences, FiniteSets, FiniteSetsExt

CONSTANTS
    Codes,          \* registration codes
    Listings,       \* the lists koda.ee may serve: sequences of [code, path]
    Roster,         \* the rows of the roster in force: a sequence of [name, code]
    MaxChangeAbsolute, MaxChangePercent,   \* KODA_MEMBERS_MAX_CHANGE_*
    ComparisonRows, \* MAX_COMPARISON_ROWS
    MaxTime,        \* bound: the clock
    MaxFaults       \* bound: failures and crashes

\* A raw row without a readable code has "" and one whose address is no member
\* profile has the path "".
ListRow == [code : STRING, path : STRING]

DirectoryAssumption ==
    /\ Listings \subseteq Seq(ListRow)
    /\ MaxTime \in Nat /\ MaxFaults \in Nat

VARIABLES
    listing,    \* what koda.ee serves; its validator changes with the content
    clock,      \* timezone.now()
    entries,    \* MemberDirectoryEntry: a function on the codes with a row
    publishedSets,  \* the sets with a successful live run
    feed,       \* MembershipFeedState: last_result and the validator
    sync,       \* the check in progress
    answered,   \* the set the last answer stood for
    torn,       \* a check ended between its commit and the record of it
    faults

vars == <<listing, clock, entries, publishedSets, feed, sync, answered, torn, faults>>

NoListing == <<>>
Never == 0
Idle == [pc |-> "idle", dry |-> FALSE, seen |-> 0, got |-> {}, validator |-> NoListing]

Entry == [path : STRING, first : Nat, last : Nat, published : BOOLEAN, gone : Nat]
Validator == Listings \cup {NoListing}

TypeOK ==
    /\ listing \in Listings /\ clock \in Nat \ {0}
    /\ entries \in [DOMAIN entries -> Entry]
    /\ DOMAIN entries \subseteq STRING /\ IsFiniteSet(DOMAIN entries)
    /\ feed \in [result : {"never", "imported", "unchanged", "failed"}, validator : Validator]
    /\ sync \in [pc : {"idle", "collect", "reconcile", "imported", "unchanged"}, dry : BOOLEAN,
                  seen : Nat, got : SUBSET ListRow, validator : Validator]
    /\ answered \subseteq ListRow
    /\ torn \in BOOLEAN /\ faults \in Nat

Init ==
    /\ listing \in Listings /\ clock = 1 /\ entries = <<>> /\ publishedSets = {}
    /\ feed = [result |-> "never", validator |-> NoListing]
    /\ sync = Idle /\ answered = {} /\ torn = FALSE /\ faults = 0

-----------------------------------------------------------------------------
(* The list: normalise. *)

IsMember(row) == row.code # "" /\ row.path # ""

Rejected(l) == {i \in DOMAIN l : ~IsMember(l[i])}

\* The first sighting of a code wins.
Normalised(l) ==
    {l[i] : i \in {j \in DOMAIN l \ Rejected(l) : \A h \in 1..(j - 1) : IsMember(l[h]) => l[h].code # l[j].code}}

\* An empty list, one without a valid row and one with mostly invalid rows are
\* refused.
IsRefused(l) == Normalised(l) = {} \/ Cardinality(Rejected(l)) > Len(l) \div 2

Path(set, c) == (CHOOSE r \in set : r.code = c).path
CodesOf(set) == {r.code : r \in set}

-----------------------------------------------------------------------------
(* The register. *)

Published == {c \in DOMAIN entries : entries[c].published}

PublishedSet == {[code |-> c, path |-> entries[c].path] : c \in Published}

\* Fault: a code that returns begins anew.
ObservedAnew(set, c) ==
    IF c \in Published
    THEN [entries[c] EXCEPT !.path = Path(set, c), !.last = clock]
    ELSE [path |-> Path(set, c), first |-> clock, last |-> clock, published |-> TRUE, gone |-> Never]

\* reconcile_entries: a code of the list ...
Observed(set, c) ==
    IF c \in DOMAIN entries
    THEN [entries[c] EXCEPT !.path = Path(set, c), !.published = TRUE,
                            !.last = clock, !.gone = Never]
    ELSE [path |-> Path(set, c), first |-> clock, last |-> clock, published |-> TRUE, gone |-> Never]

\* ... and one that is not on it any more.
Missing(c) ==
    IF entries[c].published THEN [entries[c] EXCEPT !.published = FALSE, !.gone = clock]
    ELSE entries[c]

ReconcileEntries(set) ==
    [c \in DOMAIN entries \cup CodesOf(set) |->
        IF c \in CodesOf(set) THEN Observed(set, c) ELSE Missing(c)]

-----------------------------------------------------------------------------
(* One check: synchronize_member_directory. *)

At(pc) == sync.pc = pc
Goto(pc) == sync' = [sync EXCEPT !.pc = pc]
Return == sync' = Idle

Record(result) == feed' = [feed EXCEPT !.result = result]

\* The validators are sent only while something is published.
Begin(dry) ==
    /\ At("idle") /\ clock < MaxTime
    /\ clock' = clock + 1
    /\ sync' = [Idle EXCEPT !.pc = "collect", !.dry = dry, !.seen = Cardinality(Published),
                            !.validator = IF Published = {} THEN NoListing ELSE feed.validator]
    /\ UNCHANGED <<listing, entries, publishedSets, feed, answered, torn, faults>>

\* 304: a validator was sent and the list is the one it stands for.  A dry run
\* records nothing.
IsKnown == sync.validator # NoListing /\ sync.validator = listing

NotModified ==
    /\ At("collect") /\ IsKnown
    /\ IF sync.dry THEN UNCHANGED feed ELSE Record("unchanged")
    /\ answered' = IF sync.dry THEN answered ELSE Normalised(listing)
    /\ Return /\ UNCHANGED <<listing, clock, entries, publishedSets, torn, faults>>

\* is_change_plausible, on the number of published rows.
IsChangePlausible(from, to) ==
    LET delta == IF from > to THEN from - to ELSE to - from
    IN  ~ (from > 0 /\ delta > MaxChangeAbsolute /\ delta * 100 > MaxChangePercent * from)

Collect ==
    /\ At("collect") /\ ~IsKnown /\ ~IsRefused(listing)
    /\ IF ~IsChangePlausible(sync.seen, Cardinality(Normalised(listing)))
       THEN Record("failed") /\ Return
       ELSE IF sync.dry
       THEN Return /\ UNCHANGED feed
       ELSE sync' = [sync EXCEPT !.pc = "reconcile", !.got = Normalised(listing), !.validator = listing]
            /\ UNCHANGED feed
    /\ UNCHANGED <<listing, clock, entries, publishedSets, answered, torn, faults>>

CollectRefused ==
    /\ At("collect") /\ ~IsKnown /\ IsRefused(listing)
    /\ Record("failed") /\ Return
    /\ UNCHANGED <<listing, clock, entries, publishedSets, answered, torn, faults>>

\* Fault: a set published before leaves the rows alone.
KnownIsUnchanged ==
    /\ At("reconcile") /\ sync.got \in publishedSets
    /\ Goto("unchanged")
    /\ UNCHANGED <<listing, clock, entries, publishedSets, feed, answered, torn, faults>>

\* A set published before: the rows are brought in line without a run.
ReconcileKnown ==
    /\ At("reconcile") /\ sync.got \in publishedSets
    /\ entries' = ReconcileEntries(sync.got)
    /\ Goto("unchanged")
    /\ UNCHANGED <<listing, clock, publishedSets, feed, answered, torn, faults>>

\* A set never published: the rows and the run in one transaction.
ReconcileNew ==
    /\ At("reconcile") /\ sync.got \notin publishedSets
    /\ entries' = ReconcileEntries(sync.got)
    /\ publishedSets' = publishedSets \cup {sync.got}
    /\ Goto("imported")
    /\ UNCHANGED <<listing, clock, feed, answered, torn, faults>>

\* _mark_imported, or mark_unchanged with the validators of this answer.
Mark ==
    /\ sync.pc \in {"imported", "unchanged"}
    /\ feed' = [result |-> sync.pc, validator |-> sync.validator]
    /\ answered' = sync.got /\ torn' = FALSE
    /\ Return /\ UNCHANGED <<listing, clock, entries, publishedSets, faults>>

\* A request, the opening of the run or the transaction fails: _fail, and
\* fail_publication for an open run.
Fails ==
    /\ faults < MaxFaults /\ sync.pc \in {"collect", "reconcile"}
    /\ faults' = faults + 1
    /\ Record("failed") /\ Return
    /\ UNCHANGED <<listing, clock, entries, publishedSets, answered, torn>>

\* The process ends; the lock goes with its session.
Crash ==
    /\ faults < MaxFaults /\ ~At("idle")
    /\ faults' = faults + 1
    /\ torn' = (torn \/ sync.pc \in {"imported", "unchanged"})
    /\ Return
    /\ UNCHANGED <<listing, clock, entries, publishedSets, feed, answered>>

ListChanges ==
    /\ clock < MaxTime
    /\ listing' \in Listings \ {listing}
    /\ clock' = clock + 1
    /\ UNCHANGED <<entries, publishedSets, feed, sync, answered, torn, faults>>

Next ==
    \/ \E dry \in BOOLEAN : Begin(dry)
    \/ NotModified \/ Collect \/ CollectRefused \/ ReconcileKnown \/ ReconcileNew \/ Mark
    \/ Fails \/ Crash \/ ListChanges

Spec == Init /\ [][Next]_vars

-----------------------------------------------------------------------------
(* The members page: compare_sources and get_member_list. *)

RosterCodes == {Roster[i].code : i \in DOMAIN Roster} \ {""}
WithoutCode == {i \in DOMAIN Roster : Roster[i].code = ""}

\* The first ComparisonRows codes of a difference are listed.
Listed(codes) == IF Cardinality(codes) > ComparisonRows
                 THEN CHOOSE some \in kSubset(ComparisonRows, codes) : TRUE ELSE codes

CompareSources ==
    LET directory == Published
    IN  [matched |-> Cardinality(RosterCodes \cap directory),
         roster_total |-> Cardinality(RosterCodes) + Cardinality(WithoutCode),
         directory_total |-> Cardinality(directory),
         only_in_roster |-> Listed(RosterCodes \ directory),
         only_in_directory |-> Listed(directory \ RosterCodes),
         without_code |-> Cardinality(WithoutCode),
         truncated |-> \/ Cardinality(RosterCodes \ directory) > ComparisonRows
                       \/ Cardinality(directory \ RosterCodes) > ComparisonRows]

\* get_member_list: a page of the roster's rows, each with its published profile.
PageCount(size) == IF Roster = <<>> THEN 1 ELSE (Len(Roster) + size - 1) \div size

MemberListPage(page, size) ==
    LET first == (page - 1) * size + 1
    IN  {[row |-> i, published |-> Roster[i].code \in Published] :
            i \in first..(first + size - 1) \cap DOMAIN Roster}

-----------------------------------------------------------------------------
(* Properties. *)

\* After a check that reports imported or unchanged the published rows are the
\* list it was answered with: a code that left and came back is back although
\* its set had been published before.  The one exception is a check that ended
\* between its commit and the record of it: the validators then stand for an
\* older list than the rows.
RegisterFollowsList ==
    (feed.result \in {"imported", "unchanged"} /\ At("idle") /\ ~torn) => PublishedSet = answered

\* No row is ever lost and first_seen_at is never rewritten, and a row is
\* published exactly when it has no moment of disappearance.
HistoryStep ==
    \A c \in DOMAIN entries :
        /\ c \in DOMAIN entries' /\ entries'[c].first = entries[c].first
        /\ entries'[c].published <=> entries'[c].gone = Never

HistoryIsKept == [][HistoryStep]_vars

\* The comparison places every row of both sources: what one side does not
\* share with the other is listed or the page says that it is cut.
ComparisonIsWhole ==
    LET c == CompareSources
    IN  /\ c.truncated \/ c.matched + Cardinality(c.only_in_roster) + c.without_code = c.roster_total
        /\ c.truncated \/ c.matched + Cardinality(c.only_in_directory) = c.directory_total
        /\ UNION {MemberListPage(p, 2) : p \in 1..PageCount(2)}
              = {[row |-> i, published |-> Roster[i].code \in Published] : i \in DOMAIN Roster}
=============================================================================
