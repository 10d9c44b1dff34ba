--------------------------- MODULE HistoryPackage ---------------------------
(***************************************************************************)
(* The membership history package (apps/membership/package.py) and the     *)
(* rows its import writes (history_import.py): what an archive must hold,  *)
(* which rows of one table may refer to which of another, and the          *)
(* generations of rows that a replacing import leaves.  Which observation  *)
(* of a date is preferred, and the manual reports, are in BoardReports.    *)
(*                                                                         *)
(* A table is the sequence of its rows, so that a row can occur twice.     *)
(* A payload is what it parses to; a digest stands for its bytes.          *)
(***************************************************************************)
EXTENDS Integers, Sequences, FiniteSets, Functions

CONSTANTS
    HistoryPackages,  \* the packages an operator starts from
    Extra,            \* table -> rows that may be added to it
    MaxEdits,         \* bound: rows added to packages
    MaxPackageRuns    \* bound: import runs

VARIABLES
    package,     \* the archive the operator holds
    edits,       \* bound: rows added so far
    stored,      \* table -> the rows in the database
    nextImport,  \* the next import run
    imports      \* the runs that succeeded, each with its package

historyVars == <<package, edits, stored, nextImport, imports>>

NoId == ""
Absent == 0
NoTotal == -1

-----------------------------------------------------------------------------
(* The archive. *)

V1Tables == {"documents", "snapshots", "months", "movements", "reasons", "warnings",
             "conflicts", "coverage"}
V2Tables == {"batches", "batch_sizes", "batch_reasons", "periods", "sizes"}

PackageTables == (V1Tables \ {"coverage"}) \cup V2Tables

\* The rows a package may come to hold.
GivenRow == UNION {Range(p[t]) : p \in HistoryPackages, t \in PackageTables}
ExtraRow == UNION {Extra[t] : t \in DOMAIN Extra}
TableRow == GivenRow \cup ExtraRow

\* A package has its tables, each a sequence of rows, and rows are added to them.
ASSUME PackageAssumption ==
    /\ {MaxEdits, MaxPackageRuns} \subseteq Nat
    /\ \A p \in HistoryPackages :
          /\ PackageTables \cup {"version"} \subseteq DOMAIN p
          /\ \A t \in PackageTables : p[t] \in Seq(TableRow)
    /\ DOMAIN Extra \subseteq PackageTables

RequiredPaths(version) ==
    {"readme"} \cup V1Tables \cup (IF version = "1.0" THEN {} ELSE V2Tables)

\* _read_members: one root, no link, no name that leaves it, sizes that are
\* what the headers say and within the limits.
ReadMembers(p) == p.container = "sound"

\* _load_manifest and _verify_manifest: every listed file is there with its
\* digest, nothing else is, and the files are those of the stated version.
VerifyManifest(p) ==
    LET listed == Range(p.manifest)
        paths == {e.path : e \in listed}
    IN /\ p.version \in {"1.0", "2.0"}
       /\ "readme" \in DOMAIN p.files
       /\ p.manifest # <<>>
       /\ Cardinality(paths) = Len(p.manifest)
       /\ \A e \in listed : e.path \in DOMAIN p.files /\ p.files[e.path] = e.digest
       /\ DOMAIN p.files \subseteq paths
       /\ DOMAIN p.files = RequiredPaths(p.version)

-----------------------------------------------------------------------------
(* The tables. *)

MonthLength(y, m) ==
    CASE m \in {4, 6, 9, 11} -> 30
      [] m = 2 -> IF y % 4 = 0 /\ (y % 100 # 0 \/ y % 400 = 0) THEN 29 ELSE 28
      [] OTHER -> 31

NoDay == <<>>

\* _dated_by_precision: a year or a month stands for its last day.
DatedByPrecision(day, precision) ==
    CASE day = NoDay -> NoDay
      [] day # NoDay /\ precision = "year" -> <<day[1], 12, 31>>
      [] day # NoDay /\ precision = "month" -> <<day[1], day[2], MonthLength(day[1], day[2])>>
      [] OTHER -> day

NotLater(d, e) ==
    \/ d[1] < e[1]
    \/ d[1] = e[1] /\ d[2] < e[2]
    \/ d[1] = e[1] /\ d[2] = e[2] /\ d[3] <= e[3]

\* No two rows of a table share a key.
UniqueKeys(table, Key(_)) ==
    \A i \in DOMAIN table, j \in DOMAIN table : Key(table[i]) = Key(table[j]) => i = j

ParseSourceDocuments(t) ==
    /\ \A r \in Range(t) : r.id # NoId
    /\ UniqueKeys(t, LAMBDA r : r.id)

ObservationDate(r) == DatedByPrecision(r.date, r.precision)

ParseSnapshots(t) ==
    /\ \A r \in Range(t) : r.id # NoId /\ r.date # NoDay
    /\ UniqueKeys(t, LAMBDA r : r.id)

\* A month in dispute carries no value.
ParseMonthly(t) ==
    /\ \A r \in Range(t) : r.month \in 1..12 /\ (r.status = "conflict" => r.value = Absent)
    /\ UniqueKeys(t, LAMBDA r : <<r.year, r.month>>)

ParseDecisionBatches(t) ==
    /\ \A r \in Range(t) : r.id # NoId
    /\ UniqueKeys(t, LAMBDA r : r.id)

ParseDecisionBatchSizes(t) == UniqueKeys(t, LAMBDA r : <<r.batch, r.band>>)

ParseDecisionBatchReasons(t) == UniqueKeys(t, LAMBDA r : <<r.batch, r.reason>>)

ParseNewMemberPeriods(t) ==
    /\ \A r \in Range(t) : r.id # NoId /\ NotLater(r.start, r.end)
    /\ UniqueKeys(t, LAMBDA r : r.id)

\* Exactly one parent is named: a period, or a year and a month.
HasMonth(r) == r.year # Absent /\ r.month # Absent

ParseNewMemberSizes(t) ==
    /\ \A r \in Range(t) : /\ (r.period # NoId) # HasMonth(r)
                           /\ HasMonth(r) => r.month \in 1..12
    /\ UniqueKeys(t, LAMBDA r : <<r.period, r.year, r.month, r.band>>)

ParseMovements(t) ==
    /\ \A r \in Range(t) : r.date # NoDay
    /\ UniqueKeys(t, LAMBDA r : <<r.source, r.date, r.direction, r.band>>)

ParseRemovalReasons(t) ==
    /\ \A r \in Range(t) : r.date # NoDay
    /\ UniqueKeys(t, LAMBDA r : <<r.source, r.date, r.reason, r.label>>)

\* Warnings without an identifier may repeat.
ParseWarnings(t) ==
    \A i \in DOMAIN t, j \in DOMAIN t : t[i].id = t[j].id /\ t[i].id # NoId => i = j

\* The documents in dispute are named by path.
ParseConflicts(t, documents) ==
    /\ \A r \in Range(t) : r.date # NoDay /\ r.paths \subseteq {d.path : d \in Range(documents)}
    /\ UniqueKeys(t, LAMBDA r : <<r.date, r.metric>>)

ParseV2Tables(p) ==
    p.version # "1.0" =>
        /\ ParseDecisionBatches(p.batches)
        /\ ParseDecisionBatchSizes(p.batch_sizes)
        /\ ParseDecisionBatchReasons(p.batch_reasons)
        /\ ParseNewMemberPeriods(p.periods)
        /\ ParseNewMemberSizes(p.sizes)

Ids(t) == {r.id : r \in Range(t)}

\* A plausible error: only the references to documents are followed.
DocumentsResolve(p) ==
    /\ \A r \in Range(p.snapshots) : r.source \in Ids(p.documents)
    /\ \A r \in Range(p.batches) : r.source \in Ids(p.documents)

\* _check_references: every reference between tables resolves before a row is
\* written.
CheckReferences(p) ==
    LET known == Ids(p.documents)
    IN /\ \A r \in Range(p.snapshots) : r.source \in known
       /\ \A r \in Range(p.movements) : r.source \in known
       /\ \A r \in Range(p.reasons) : r.source \in known
       /\ \A r \in Range(p.months) : r.selected \in known \cup {NoId}
       /\ \A r \in Range(p.warnings) : r.source \in known \cup {NoId}
       /\ \A r \in Range(p.batches) : /\ r.source \in known
                                      /\ r.corroborating \in known \cup {NoId}
       /\ \A r \in Range(p.batch_sizes) : r.batch \in Ids(p.batches)
       /\ \A r \in Range(p.batch_reasons) : r.batch \in Ids(p.batches)
       /\ \A r \in Range(p.periods) : r.source \in known
       /\ \A r \in Range(p.sizes) :
            IF r.period # NoId THEN r.period \in Ids(p.periods)
            ELSE \E m \in Range(p.months) : m.year = r.year /\ m.month = r.month

\* read_package: the checks in their order; a refusal writes nothing.
ReadHistory(p) ==
    /\ ReadMembers(p)
    /\ VerifyManifest(p)
    /\ ParseSourceDocuments(p.documents)
    /\ ParseSnapshots(p.snapshots)
    /\ ParseMonthly(p.months)
    /\ ParseMovements(p.movements)
    /\ ParseRemovalReasons(p.reasons)
    /\ ParseWarnings(p.warnings)
    /\ ParseConflicts(p.conflicts, p.documents)
    /\ ParseV2Tables(p)
    /\ CheckReferences(p)

\* What a package of version 1.0 says of the later tables: nothing.
Parsed(p) ==
    IF p.version # "1.0" THEN p
    ELSE [p EXCEPT !.batches = <<>>, !.batch_sizes = <<>>, !.batch_reasons = <<>>,
                   !.periods = <<>>, !.sizes = <<>>]

-----------------------------------------------------------------------------
(* The import. *)

NoSuffix == 0

\* _direct_observations_by_source: a document has one reading of its own.
DirectSnapshots(p) == {r \in Range(p.snapshots) : r.kind = "merged_same_document"}

OneDirectEach(p) ==
    \A r \in DirectSnapshots(p), s \in DirectSnapshots(p) : r.source = s.source => r = s

\* _write_children: a movement or a reason belongs to its document's own
\* reading, of the same date.
DirectFor(p, row) ==
    {r \in DirectSnapshots(p) : r.source = row.source /\ ObservationDate(r) = row.date}

ChildrenBelong(p) ==
    \A row \in Range(p.movements) \cup Range(p.reasons) : DirectFor(p, row) # {}

DirectOf(p, row) == (CHOOSE r \in DirectFor(p, row) : TRUE).id

LiveObservations == {r \in stored.observations : r.live}

\* _guard_against_a_second_history: the previous generation is retired, not
\* deleted.
RetireGeneration(db) ==
    [db EXCEPT !.observations = {[r EXCEPT !.live = FALSE] : r \in @},
               !.months = {[r EXCEPT !.live = FALSE] : r \in @},
               !.batches = {[r EXCEPT !.live = FALSE] : r \in @},
               !.periods = {[r EXCEPT !.live = FALSE] : r \in @}]

\* The rows one table gains; suffix is the run of a replacing import.
Fact(id, suffix, run) == [id |-> id, suffix |-> suffix, run |-> run, live |-> TRUE]

NewFacts(t, suffix, run) == {Fact(r.id, suffix, run) : r \in Range(t)}

NewMonths(t, run) ==
    {[year |-> r.year, month |-> r.month, run |-> run, live |-> TRUE] : r \in Range(t)}

NewMovements(p, run) ==
    {[run |-> run, parent |-> DirectOf(p, r), direction |-> r.direction, band |-> r.band] :
        r \in Range(p.movements)}

NewReasons(p, run) ==
    {[run |-> run, parent |-> DirectOf(p, r), reason |-> r.reason, label |-> r.label] :
        r \in Range(p.reasons)}

\* The writers pass over a child whose parent they have not written.
NewBatchSizes(p, run) ==
    {[run |-> run, parent |-> r.batch, band |-> r.band] :
        r \in {q \in Range(p.batch_sizes) : q.batch \in Ids(p.batches)}}

NewBatchReasons(p, run) ==
    {[run |-> run, parent |-> r.batch, reason |-> r.reason] :
        r \in {q \in Range(p.batch_reasons) : q.batch \in Ids(p.batches)}}

NewSizes(p, run) ==
    {[run |-> run, band |-> r.band,
      parent |-> IF r.period # NoId THEN <<r.period>> ELSE <<r.year, r.month>>] :
        r \in {q \in Range(p.sizes) :
                 IF q.period # NoId THEN q.period \in Ids(p.periods)
                 ELSE \E m \in Range(p.months) : m.year = q.year /\ m.month = q.month}}

\* A warning keeps no identifier only without a suffix.
NewIssues(p, suffix, run) ==
    {[n |-> i, id |-> p.warnings[i].id, suffix |-> suffix, run |-> run] :
        i \in DOMAIN p.warnings}

\* A conflict already recorded is left with its resolution.
NewConflicts(p, db, run) ==
    {[date |-> r.date, metric |-> r.metric, run |-> run] :
        r \in {q \in Range(p.conflicts) :
                 \A c \in db.conflicts : c.date # q.date \/ c.metric # q.metric}}

Written(p, db, suffix, run) ==
    [db EXCEPT !.documents = @ \cup Ids(p.documents),
               !.observations = @ \cup NewFacts(p.snapshots, suffix, run),
               !.movements = @ \cup NewMovements(p, run),
               !.reasons = @ \cup NewReasons(p, run),
               !.months = @ \cup NewMonths(p.months, run),
               !.issues = @ \cup NewIssues(p, suffix, run),
               !.conflicts = @ \cup NewConflicts(p, db, run),
               !.batches = @ \cup NewFacts(p.batches, suffix, run),
               !.batch_sizes = @ \cup NewBatchSizes(p, run),
               !.batch_reasons = @ \cup NewBatchReasons(p, run),
               !.periods = @ \cup NewFacts(p.periods, suffix, run),
               !.sizes = @ \cup NewSizes(p, run)]

\* The unique and check constraints of the tables, on the rows to be added.
IdsAreFree(t, facts, suffix) ==
    \A r \in Range(t), f \in facts : f.id = r.id => f.suffix # suffix

ConstraintsAllow(p, db, suffix, run) ==
    /\ IdsAreFree(p.snapshots, db.observations, suffix)
    /\ \A r \in Range(p.snapshots) : r.total = NoTotal \/ r.total > 0
    /\ \A r \in Range(p.months), m \in db.months :
         m.live => m.year # r.year \/ m.month # r.month
    /\ \A i \in NewIssues(p, suffix, run), j \in NewIssues(p, suffix, run) \cup db.issues :
         i.id = j.id /\ i.suffix = j.suffix /\ (i.id # NoId \/ suffix # NoSuffix) => i = j
    /\ IdsAreFree(p.batches, db.batches, suffix)
    /\ IdsAreFree(p.periods, db.periods, suffix)
    /\ \A r \in Range(p.sizes), s \in Range(p.sizes) :
         r.period # NoId /\ r.period = s.period /\ r.band = s.band => r = s

EmptyDatabase ==
    [t \in {"documents", "observations", "movements", "reasons", "months", "issues",
            "conflicts", "batches", "batch_sizes", "batch_reasons", "periods", "sizes"} |-> {}]

HistoryInit ==
    /\ package \in HistoryPackages
    /\ edits = 0
    /\ stored = EmptyDatabase
    /\ nextImport = 1
    /\ imports = <<>>

\* The operator is handed another package, or the same one rebuilt with a row
\* more.
HandOver ==
    /\ package' \in HistoryPackages
    /\ UNCHANGED <<edits, stored, nextImport, imports>>

AddRow ==
    /\ edits < MaxEdits
    /\ edits' = edits + 1
    /\ \E t \in DOMAIN Extra : \E r \in Extra[t] :
         package' = [package EXCEPT ![t] = Append(@, r)]
    /\ UNCHANGED <<stored, nextImport, imports>>

\* import_history_package of a package not yet imported: one transaction that
\* replaces the history or leaves it, with the run recorded either way.
ImportPackage(supersede) ==
    LET p == Parsed(package)
        replacing == LiveObservations # {}
        suffix == IF replacing THEN nextImport ELSE NoSuffix
        db == IF replacing THEN RetireGeneration(stored) ELSE stored
        allowed == /\ replacing => supersede
                   /\ OneDirectEach(p)
                   /\ ChildrenBelong(p)
                   /\ ConstraintsAllow(p, db, suffix, nextImport)
    IN /\ nextImport <= MaxPackageRuns
       /\ ReadHistory(package)
       /\ package \notin {s.package : s \in Range(imports)}
       /\ nextImport' = nextImport + 1
       /\ \/ /\ allowed
             /\ stored' = Written(p, db, suffix, nextImport)
             /\ imports' = Append(imports, [run |-> nextImport, package |-> package])
          \/ /\ ~allowed
             /\ UNCHANGED <<stored, imports>>
       /\ UNCHANGED <<package, edits>>

HistoryNext ==
    \/ HandOver
    \/ AddRow
    \/ \E supersede \in BOOLEAN : ImportPackage(supersede)

HistorySpec == HistoryInit /\ [][HistoryNext]_historyVars

-----------------------------------------------------------------------------
(* Properties. *)

RowsOf(table, run) == {r \in stored[table] : r.run = run}

Counts(table, rows, run) == Cardinality(RowsOf(table, run)) = Len(rows)

\* Nothing an accepted package holds is left out in silence: every row of every
\* table is stored once, and every child under a parent of the same run.
StoredIsWhole ==
    \A s \in Range(imports) :
        LET p == Parsed(s.package)
            run == s.run
            idsOf(table) == {r.id : r \in RowsOf(table, run)}
        IN /\ Counts("observations", p.snapshots, run)
           /\ Counts("movements", p.movements, run)
           /\ Counts("reasons", p.reasons, run)
           /\ Counts("months", p.months, run)
           /\ Counts("issues", p.warnings, run)
           /\ Counts("batches", p.batches, run)
           /\ Counts("batch_sizes", p.batch_sizes, run)
           /\ Counts("batch_reasons", p.batch_reasons, run)
           /\ Counts("periods", p.periods, run)
           /\ Counts("sizes", p.sizes, run)
           /\ \A r \in RowsOf("movements", run) \cup RowsOf("reasons", run) :
                r.parent \in idsOf("observations")
           /\ \A r \in RowsOf("batch_sizes", run) \cup RowsOf("batch_reasons", run) :
                r.parent \in idsOf("batches")
           /\ \A c \in Range(p.conflicts) :
                Cardinality({d \in stored.conflicts : d.date = c.date /\ d.metric = c.metric}) = 1

\* The pages read one generation: every live row is of the last import, as long
\* as each import before it brought an observation to replace.
OneLiveGeneration ==
    (\A s \in Range(imports) : s.package.snapshots # <<>>) =>
        \A t \in {"observations", "months", "batches", "periods"}, i \in DOMAIN imports :
            \A r \in stored[t] : r.live => r.run >= imports[i].run

\* The stored history is whole and of one generation.
HistoryIsWhole == StoredIsWhole /\ OneLiveGeneration
==============================================================================
