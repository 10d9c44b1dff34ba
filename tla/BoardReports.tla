---------------------------- MODULE BoardReports ----------------------------
(***************************************************************************)
(* The internal membership history (apps/membership): staff enter board    *)
(* reports by hand and correct them (manual.py, admin_views.py, forms.py), *)
(* an operator imports the historical package (history_import.py), and     *)
(* both publish through the precedence rules of quality.py and             *)
(* publishing.py.                                                          *)
(*                                                                         *)
(* One manual publication is one READ COMMITTED transaction of several     *)
(* statements; its own writes are kept in the session until the commit.    *)
(* Figures are abstracted to the verdict of assess() on them.              *)
(***************************************************************************)
EXTENDS Naturals, FiniteSets

CONSTANTS
    Staff,      \* browser sessions entering reports
    Dates,      \* observation dates; each also stands for its calendar month
    Reports,    \* what staff type: date, figures, the verdict on them, and whether the
                \* month's figure is there
    Packages,   \* historical packages an operator may import
    MaxRuns     \* bound: import runs

\* What assess() may find in a manual report: more paying members than members
\* is refused there, a wrong percentage only needs a review.
ManualFacts == {"consistent", "pct_mismatch"}
PackageFacts == ManualFacts \cup {"paid_exceeds_total"}

\* One package row; conflicts and months are sets of dates.
PackageRow == [sid : Nat \ {0}, date : Dates, facts : PackageFacts,
               source_kind : {"merged_same_document", "reported_comparison"},
               confidence : {"high", "medium", "low"}]

ASSUME BoardAssumption ==
    /\ MaxRuns \in Nat
    /\ Dates # {} /\ Packages # {}
    /\ Reports \subseteq [date : Dates, figures : Nat, facts : ManualFacts, month : BOOLEAN]
    /\ \A pkg \in Packages :
          /\ pkg.rows \subseteq PackageRow
          /\ pkg.conflicts \subseteq Dates
          /\ pkg.months \subseteq Dates
          /\ \A r1, r2 \in pkg.rows : r1.sid = r2.sid => r1 = r2

Run == 1..MaxRuns
NoTarget == <<0, 0>>

VARIABLES
    observations,  \* committed InternalMembershipObservation rows
    monthly,       \* committed MembershipMonthlyNewMemberValue rows
    batches,       \* committed decision batches and new-member periods
    nextRun,       \* the next import run's key
    imported,      \* packages with a successful live run
    staff,         \* Staff -> the request being handled
    importer,      \* the import command
    \* What the steps did, for the properties alone:
    orphaned,      \* dates that were once left with live rows and none preferred
    passedOver     \* reports an import left live beside its own row of the date, not
                   \* having seen them, and that no election has weighed since

boardVars == <<observations, monthly, batches, nextRun, imported, staff, importer, orphaned, passedOver>>

Quality == {"verified", "review_required", "conflicted", "superseded"}

Report == [date : Dates, figures : Nat, facts : ManualFacts, month : BOOLEAN,
           supersedes : (0..MaxRuns) \X Nat]

\* pk is the run and, for package rows, the place in the package; content is
\* what the digest of a manual report covers, and nothing for a package row.
Observation ==
    [pk : Run \X Nat, date : Dates,
     source_kind : {"manual", "merged_same_document", "reported_comparison"},
     confidence : {"manual_verified", "high", "medium", "low"},
     quality : Quality, preferred : BOOLEAN,
     external : Nat \X Nat,
     content : Report]

Monthly == [run : Run, month : Dates, status : {"verified", "manual_verified", "conflict", "superseded"},
            current : BOOLEAN]

Batch == [run : Run, status : {"verified", "superseded"}]

StaffState == [pc : {"idle", "write", "elect"},
               report : Report, run : 0..MaxRuns,
               retired : SUBSET Monthly,
               locked : SUBSET ((0..MaxRuns) \X Nat),
               seen : SUBSET ((0..MaxRuns) \X Nat)]

ImporterState == [pc : {"idle", "guard", "write"}, package : Packages,
                  supersede : BOOLEAN, seen : SUBSET (Run \X Nat)]

BoardTypeOK ==
    /\ observations \subseteq Observation
    /\ monthly \subseteq Monthly
    /\ batches \subseteq Batch
    /\ nextRun \in 1..(MaxRuns + 1)
    /\ imported \subseteq Packages
    /\ staff \in [Staff -> StaffState]
    /\ importer \in ImporterState
    /\ orphaned \subseteq Dates
    /\ passedOver \subseteq Run \X Nat

NoReport == [date |-> CHOOSE d \in Dates : TRUE, figures |-> 0, facts |-> "consistent",
             month |-> FALSE, supersedes |-> NoTarget]

IdleStaff == [pc |-> "idle", report |-> NoReport, run |-> 0, retired |-> {},
              locked |-> {}, seen |-> {}]

IdleImporter == [pc |-> "idle", package |-> CHOOSE p \in Packages : TRUE,
                 supersede |-> FALSE, seen |-> {}]

BoardInit ==
    /\ observations = {} /\ monthly = {} /\ batches = {}
    /\ nextRun = 1
    /\ imported = {}
    /\ staff = [s \in Staff |-> IdleStaff]
    /\ importer = IdleImporter
    /\ orphaned = {} /\ passedOver = {}

-----------------------------------------------------------------------------
(* quality.py *)

\* The quality status of the figures of one observation.
Assess(facts, conflicted) ==
    IF conflicted THEN "conflicted"
    ELSE IF facts \in {"paid_exceeds_total", "pct_mismatch"} THEN "review_required"
    ELSE "verified"

SOURCE_KIND_RANK ==
    [manual |-> 0, merged_same_document |-> 1, reported_comparison |-> 2]

QUALITY_RANK ==
    [verified |-> 0, review_required |-> 2, conflicted |-> 3, superseded |-> 4]

CONFIDENCE_RANK == [manual_verified |-> 0, high |-> 1, medium |-> 2, low |-> 3]

\* sort_key without its tie-breaker: lower is better.
Precedence(o) ==
    16 * SOURCE_KIND_RANK[o.source_kind] + 4 * QUALITY_RANK[o.quality]
       + CONFIDENCE_RANK[o.confidence]

\* The tie-breaker: the manual workflow prefers later evidence, the import the
\* lower identifier.
TieBreak(manual, o, other) ==
    IF manual
    THEN o.pk[1] > other.pk[1] \/ (o.pk[1] = other.pk[1] /\ o.pk[2] > other.pk[2])
    ELSE o.pk[2] < other.pk[2]

\* Mutant of ChoosePreferred: the newest evidence wins.
ChooseNewest(O, manual) ==
    CHOOSE o \in O : \A other \in O \ {o} : TieBreak(manual, o, other)

\* min by sort_key.
ChoosePreferred(O, manual) ==
    CHOOSE o \in O : \A other \in O \ {o} :
        \/ Precedence(o) < Precedence(other)
        \/ Precedence(o) = Precedence(other) /\ TieBreak(manual, o, other)

-----------------------------------------------------------------------------
(* The tables. *)

Live(O) == {o \in O : o.quality # "superseded"}

On(O, d) == {o \in O : o.date = d}

Keys(O) == {o.pk : o \in O}

Supersede(o) == [o EXCEPT !.quality = "superseded", !.preferred = FALSE]

LockedByOthers(s) == UNION {staff[t].locked : t \in Staff \ {s}}

AllLocked == UNION {staff[t].locked : t \in Staff}

\* Dates with live rows and none preferred.
Unelected(O) ==
    {d \in Dates : On(Live(O), d) # {} /\ \A o \in On(O, d) : ~o.preferred}

\* internalobservation_one_preferred_per_date.
OnePreferredPerDate(O) ==
    \A o1, o2 \in O : o1.preferred /\ o2.preferred /\ o1.date = o2.date => o1 = o2

\* The digest is unique per source among artifacts, the package's own
\* identifiers among observations.
IdentitiesUnique(O) ==
    \A o1, o2 \in O : o1 # o2 =>
        /\ o1.source_kind = "manual" /\ o2.source_kind = "manual"
              => o1.content # o2.content
        /\ o1.source_kind # "manual" /\ o2.source_kind # "manual"
              => o1.external # o2.external

TablesAllow(O, M) ==
    /\ OnePreferredPerDate(O)
    /\ IdentitiesUnique(O)
    /\ \A m1, m2 \in M : m1.current /\ m2.current /\ m1.month = m2.month => m1 = m2

-----------------------------------------------------------------------------
(* Manual entry. *)

StaffAt(s, label) == staff[s].pc = label

Existing(report) == {o \in observations : o.source_kind = "manual" /\ o.content = report}

\* manual_report_new and manual_report_correct: the user confirms the preview,
\* and publish_manual_report validates once more.  A report that is already
\* there is returned, else the run and the observation are created.  The form
\* offers live rows for correction, but the row may be superseded by the time
\* it is published; a correction may carry another date once
\* confirm_date_change is ticked.
ConfirmReport(s, report) ==
    /\ StaffAt(s, "idle")
    /\ nextRun <= MaxRuns
    /\ Existing(report) = {}
    /\ staff' = [staff EXCEPT ![s] = [IdleStaff EXCEPT !.pc = "write", !.run = nextRun,
                                                       !.report = report]]
    /\ nextRun' = nextRun + 1
    /\ UNCHANGED <<observations, monthly, batches, imported, importer, orphaned, passedOver>>

\* The statements up to the election: publish_monthly_value retires the month's
\* current value, supersede_observation the corrected row, each waiting for the
\* row's lock and holding it, and elect_preferred_for_date starts its SELECT
\* ... FOR UPDATE on the rows committed by then (not on the one just retired).
WriteRows(s) ==
    LET month  == {m \in monthly : m.month = staff[s].report.date /\ m.current}
        target == {staff[s].report.supersedes} \ {NoTarget}
    IN  /\ StaffAt(s, "write")
        /\ staff[s].report.month =>
              \A t \in Staff \ {s} : staff[t].retired \cap month = {}
        /\ target \cap LockedByOthers(s) = {}
        /\ staff' = [staff EXCEPT
              ![s].pc = "elect",
              ![s].retired = IF staff[s].report.month THEN month ELSE {},
              ![s].locked = target,
              ![s].seen = Keys(On(Live(observations), staff[s].report.date)) \ target]
        /\ UNCHANGED <<observations, monthly, batches, nextRun, imported, importer, orphaned, passedOver>>

NewObservation(s) ==
    [pk |-> <<staff[s].run, 0>>, date |-> staff[s].report.date,
     source_kind |-> "manual", confidence |-> "manual_verified",
     quality |-> Assess(staff[s].report.facts, FALSE), preferred |-> FALSE,
     external |-> <<0, 0>>, content |-> staff[s].report]

\* ... it waits until they are free, drops those superseded meanwhile, and the
\* best of the rest takes the flag from whoever had it.
Candidates(s) ==
    {o \in Live(observations) : o.pk \in staff[s].seen} \cup {NewObservation(s)}

Elected(s) ==
    {[o EXCEPT !.preferred = (o = ChoosePreferred(Candidates(s), TRUE))] : o \in Candidates(s)}

\* The observation table after the transaction.
ObservationsPublished(s) ==
    LET elected == Elected(s)
        target  == {o \in observations : o.pk \in staff[s].locked}
    IN  {o \in observations \ target : o.pk \notin Keys(elected)}
           \cup elected \cup {Supersede(o) : o \in target}

MonthlyPublished(s) ==
    IF staff[s].report.month
    THEN (monthly \ staff[s].retired)
           \cup {[m EXCEPT !.status = "superseded", !.current = FALSE] :
                     m \in staff[s].retired}
           \cup {[run |-> staff[s].run, month |-> staff[s].report.date,
                  status |-> "manual_verified", current |-> TRUE]}
    ELSE monthly

\* The end of publish_manual_report, and the commit.
CommitReport(s) ==
    /\ StaffAt(s, "elect")
    /\ staff[s].seen \cap LockedByOthers(s) = {}
    /\ TablesAllow(ObservationsPublished(s), MonthlyPublished(s))
    /\ observations' = ObservationsPublished(s)
    /\ monthly' = MonthlyPublished(s)
    /\ staff' = [staff EXCEPT ![s] = IdleStaff]
    /\ orphaned' = orphaned \cup Unelected(observations')
    /\ passedOver' = passedOver \ staff[s].seen
    /\ UNCHANGED <<batches, nextRun, imported, importer>>

\* A constraint, a deadlock or a lost connection: everything is rolled back.
AbortReport(s) ==
    /\ staff[s].pc \in {"write", "elect"}
    /\ staff' = [staff EXCEPT ![s] = IdleStaff]
    /\ UNCHANGED <<observations, monthly, batches, nextRun, imported, importer, orphaned, passedOver>>

-----------------------------------------------------------------------------
(* The historical import. *)

\* import_history_package, live: read the package and open a run.  A package
\* imported before is reported unchanged.
BeginImport(pkg, supersede) ==
    /\ importer.pc = "idle"
    /\ nextRun <= MaxRuns
    /\ pkg \notin imported
    /\ importer' = [pc |-> "guard", package |-> pkg, supersede |-> supersede, seen |-> {}]
    /\ UNCHANGED <<observations, monthly, batches, nextRun, imported, staff, orphaned, passedOver>>

\* _guard_against_a_second_history reads what is live; without
\* --supersede-previous the run fails on a populated history.
GuardHistory ==
    /\ importer.pc = "guard"
    /\ importer' = IF Live(observations) # {} /\ ~importer.supersede
                   THEN IdleImporter
                   ELSE [importer EXCEPT !.pc = "write", !.seen = Keys(Live(observations))]
    /\ UNCHANGED <<observations, monthly, batches, nextRun, imported, staff, orphaned, passedOver>>

\* A row of the package as it is stored.  A replacement's identifiers are
\* qualified with its run (_identity_suffix).
StoredRow(pkg, run, r) ==
    [pk |-> <<run, r.sid>>, date |-> r.date,
     source_kind |-> r.source_kind, confidence |-> r.confidence,
     quality |-> Assess(r.facts, r.date \in pkg.conflicts), preferred |-> FALSE,
     external |-> <<r.sid, IF importer.seen = {} THEN 0 ELSE run>>,
     content |-> NoReport]

\* _write_observations: one preferred row per date among the package's own.
PackageObservations(pkg, run) ==
    LET rows == {StoredRow(pkg, run, r) : r \in pkg.rows}
    IN  {[o EXCEPT !.preferred = (o = ChoosePreferred(On(rows, o.date), FALSE))] :
            o \in rows}

ReplacedObservations ==
    {IF o.pk \in importer.seen THEN Supersede(o) ELSE o : o \in observations}

\* Retirement of the previous history, when there was one.
Retired(M) ==
    IF importer.seen = {} THEN M
    ELSE {[m EXCEPT !.status = IF m.current THEN "superseded" ELSE @,
                    !.current = FALSE] : m \in M}

RetiredBatches(B) ==
    IF importer.seen = {} THEN B ELSE {[b EXCEPT !.status = "superseded"] : b \in B}

PackageMonthly(pkg, run) ==
    {[run |-> run, month |-> d, current |-> TRUE,
      status |-> IF d \in pkg.conflicts THEN "conflict" ELSE "verified"] : d \in pkg.months}

\* Reports committed since the guard, on dates the package has a row for.
Overlooked ==
    {o \in Live(observations) :
        /\ o.source_kind = "manual" /\ o.pk \notin importer.seen
        /\ \E r \in importer.package.rows : r.date = o.date}

\* The import transaction, from the retirement to complete_import_run.
WriteHistory ==
    /\ importer.pc = "write"
    /\ nextRun <= MaxRuns
    /\ importer.seen \cap AllLocked = {}
    /\ \A s \in Staff : staff[s].retired = {}
    /\ LET O == ReplacedObservations \cup PackageObservations(importer.package, nextRun)
           M == Retired(monthly) \cup PackageMonthly(importer.package, nextRun)
       IN  /\ TablesAllow(O, M)
           /\ observations' = O
           /\ monthly' = M
    /\ batches' = RetiredBatches(batches) \cup {[run |-> nextRun, status |-> "verified"]}
    /\ nextRun' = nextRun + 1
    /\ imported' = imported \cup {importer.package}
    /\ importer' = IdleImporter
    /\ orphaned' = orphaned \cup Unelected(observations')
    /\ passedOver' = passedOver \cup Keys(Overlooked)
    /\ UNCHANGED staff

\* The transaction fails and rolls back, and the run is closed as failed.
ImportFails ==
    /\ importer.pc = "write"
    /\ importer' = IdleImporter
    /\ UNCHANGED <<observations, monthly, batches, nextRun, imported, staff, orphaned, passedOver>>

BoardNext ==
    \/ \E s \in Staff :
          \/ \E r \in Reports, target \in Keys(observations) \cup {NoTarget} :
                ConfirmReport(s, [date |-> r.date, figures |-> r.figures, facts |-> r.facts,
                                  month |-> r.month, supersedes |-> target])
          \/ WriteRows(s) \/ CommitReport(s) \/ AbortReport(s)
    \/ \E pkg \in Packages, supersede \in BOOLEAN : BeginImport(pkg, supersede)
    \/ GuardHistory \/ WriteHistory \/ ImportFails

BoardSpec == BoardInit /\ [][BoardNext]_boardVars

-----------------------------------------------------------------------------
(* Properties. *)

\* Whatever two writers do at once, the row a chart reads for a date is live and
\* no live row of the date outranks it, a manual report before all (sort_key and
\* choose_preferred, across elections that each saw only part of the rows).  Two
\* cases are excepted.  A report committed while an import was replacing the
\* history, and not elected then, stays live beside the package's row until an
\* election weighs it.  And a date whose preferred row a correction moved to
\* another date, or an import retired, over rows that stayed, may be left to an
\* election that began before.
PreferredIsBest ==
    \A o \in observations : o.preferred =>
        /\ o.quality # "superseded"
        /\ o.date \notin orphaned =>
              \A other \in On(Live(observations), o.date) :
                 other.pk \notin passedOver => Precedence(o) <= Precedence(other)

\* A double submit is harmless: no report is published twice, not even by two
\* requests that both looked before either had written (_existing_observation).
ReportedOnce ==
    \A o1, o2 \in observations :
        o1.source_kind = "manual" /\ o2.source_kind = "manual"
           /\ o1.content = o2.content => o1 = o2

\* What is drawn beside the observations belongs to one history: the live
\* decision batches and periods are those of the last import ("two copies of
\* every board decision on the page after the second import").
OneGeneration ==
    \A b1, b2 \in batches : b1.status # "superseded" /\ b2.status # "superseded"
                               => b1 = b2

\* The row a chart reads for a date is live and the best there is, no report is
\* published twice and what is drawn belongs to one history, whatever two
\* writers do at once.
BoardHistoryStands == PreferredIsBest /\ ReportedOnce /\ OneGeneration
=============================================================================
