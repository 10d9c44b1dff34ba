------------------------- MODULE BoardReportsProofs -------------------------
(***************************************************************************)
(* Proofs about the board's history: the reports and their elections       *)
(* (BoardReports), for every number of sessions and runs and every set of  *)
(* reports, and what is stored of a package (HistoryPackage), for every    *)
(* set of packages.                                                        *)
(*                                                                         *)
(* A report elects among the rows it saw when it asked for their locks.  A *)
(* row committed since is missed by it; that does no harm because whoever  *)
(* committed the missed row left a preferred row on the date, and          *)
(*   - if the election saw that one, its winner is at least as good;       *)
(*   - if the report itself supersedes that one, nothing was missed        *)
(*     (NothingMissedBehindLock);                                          *)
(*   - else the commit would leave two preferred rows, and the constraint  *)
(*     internalobservation_one_preferred_per_date refuses it.              *)
(* The premise, that every date with live rows has a preferred one, is     *)
(* what a correction to another date and a replacing import can break:     *)
(* such a date is in orphaned.  The import elects among its own rows only; *)
(* the reports it did not see are in passedOver until an election sees     *)
(* them.                                                                   *)
(***************************************************************************)
EXTENDS BoardReports, HistoryPackage, FiniteSetTheorems, WellFoundedInduction, TLAPS

\* The keys in use are of runs already opened, and no two rows share one.
KeysAreSpent ==
    /\ \A o \in observations : o.pk[1] < nextRun
    /\ \A o1, o2 \in observations : o1.pk = o2.pk => o1 = o2

\* What a manual row looks like.
RowShape(o) ==
    IF o.source_kind = "manual"
    THEN /\ o.pk[2] = 0 /\ o.confidence = "manual_verified"
         /\ o.quality \in {"verified", "review_required", "superseded"}
    ELSE o.confidence # "manual_verified"

RowsAreShaped == \A o \in observations : RowShape(o)

\* A request has a run of its own, that no row is of yet, and corrects a row
\* that is there.
OpenRequests ==
    /\ \A s \in Staff : staff[s].pc # "idle" =>
          /\ staff[s].run \in Run
          /\ staff[s].run < nextRun
          /\ \A o \in observations : o.pk[1] # staff[s].run
          /\ staff[s].report.supersedes \in Keys(observations) \cup {NoTarget}
    /\ \A s, t \in Staff : s # t /\ staff[s].pc # "idle" /\ staff[t].pc # "idle"
          => staff[s].run # staff[t].run

\* Row locks are exclusive and are those of corrected rows.
LocksHeld ==
    /\ \A s \in Staff : staff[s].pc # "elect" => staff[s].locked = {}
    /\ \A s \in Staff : staff[s].locked \subseteq Keys(observations)
    /\ \A s, t \in Staff : s # t => staff[s].locked \cap staff[t].locked = {}

\* An election concerns rows of one date, and never the corrected one.
SeenIsOfDate ==
    \A s \in Staff : staff[s].pc = "elect" =>
        /\ staff[s].seen \cap staff[s].locked = {}
        /\ staff[s].seen \subseteq Keys(observations)
        /\ \A o \in observations : o.pk \in staff[s].seen => o.date = staff[s].report.date

\* The rows of its date that an election does not know of.
Missed(s) == {o \in On(Live(observations), staff[s].report.date) :
                 o.pk \notin staff[s].seen \cup staff[s].locked}

\* While a report holds the preferred row of its date, no other row gets there.
NothingMissedBehindLock ==
    \A s \in Staff : staff[s].pc = "elect" =>
        \A t \in observations :
            t.pk \in staff[s].locked /\ t.preferred /\ t.date = staff[s].report.date
               => Missed(s) = {}

\* The import has seen every live row of earlier packages: only reports are
\* written beside it.
ImportHolds ==
    importer.pc = "write" =>
        /\ importer.seen \subseteq Keys(observations)
        /\ \A o \in Live(observations) : o.source_kind # "manual" => o.pk \in importer.seen

ElectedOrOrphaned == Unelected(observations) \subseteq orphaned

Elections ==
    /\ KeysAreSpent /\ RowsAreShaped /\ OpenRequests /\ LocksHeld /\ SeenIsOfDate
    /\ NothingMissedBehindLock /\ ImportHolds /\ ElectedOrOrphaned
    /\ OnePreferredPerDate(observations) /\ PreferredIsBest /\ ReportedOnce

LiveBatches == {b \in batches : b.status # "superseded"}

\* A history that is drawn has rows, so the next import sees it.
Generations ==
    /\ LiveBatches # {} => Live(observations) # {}
    /\ importer.pc = "write" /\ importer.seen = {} => LiveBatches = {}

-----------------------------------------------------------------------------
(* The election. *)

LEMMA NatHasLeast ==
  ASSUME NEW S, S \subseteq Nat, S # {}
  PROVE  \E x \in S : \A y \in S : x <= y
<1> DEFINE R == {ss \in Nat \X Nat : ss[1] < ss[2]}
<1>1. IsWellFoundedOn(R, Nat)
  BY NatLessThanWellFounded, Zenon DEF OpToRel
<1>2. \E x \in S : \A y \in S : <<y, x>> \notin R
  BY <1>1, WFMin, Zenon
<1>3. PICK x \in S : \A y \in S : <<y, x>> \notin R
  BY <1>2
<1>4. ASSUME NEW y \in S
      PROVE  x <= y
  <2>1. SUFFICES ASSUME y < x
                 PROVE  FALSE
    OBVIOUS
  <2>2. <<y, x>> \in Nat \X Nat /\ <<y, x>>[1] < <<y, x>>[2]
    BY <2>1
  <2>3. <<y, x>> \in R
    BY <2>2, Zenon
  <2> QED
    BY <1>3, <2>3, Zenon
<1> QED
  BY <1>4

LEMMA RanksAreNumbers ==
  ASSUME NEW o \in Observation
  PROVE  /\ SOURCE_KIND_RANK[o.source_kind] \in 0..2
         /\ QUALITY_RANK[o.quality] \in 0..4
         /\ CONFIDENCE_RANK[o.confidence] \in 0..3
<1>1. o.source_kind \in {"manual", "merged_same_document", "reported_comparison"}
  BY DEF Observation
<1>2. o.quality \in {"verified", "review_required", "conflicted", "superseded"}
  BY DEF Observation, Quality
<1>3. o.confidence \in {"manual_verified", "high", "medium", "low"}
  BY DEF Observation
<1> QED
  BY <1>1, <1>2, <1>3 DEF SOURCE_KIND_RANK, QUALITY_RANK, CONFIDENCE_RANK

LEMMA PrecedenceIsNumber ==
  ASSUME NEW o \in Observation
  PROVE  Precedence(o) \in Nat
  BY RanksAreNumbers DEF Precedence

\* A live report outranks every row of a package.
LEMMA ReportsOutrank ==
  ASSUME NEW o \in Observation, RowShape(o), o.quality # "superseded"
  PROVE  IF o.source_kind = "manual" THEN Precedence(o) <= 8 ELSE Precedence(o) >= 16
<1>1. CASE o.source_kind = "manual"
  <2>1. o.confidence = "manual_verified" /\ o.quality \in {"verified", "review_required"}
    BY <1>1 DEF RowShape
  <2>2. SOURCE_KIND_RANK[o.source_kind] = 0 /\ CONFIDENCE_RANK[o.confidence] = 0
    BY <1>1, <2>1 DEF SOURCE_KIND_RANK, CONFIDENCE_RANK
  <2>3. QUALITY_RANK[o.quality] \in 0..2
    BY <2>1 DEF QUALITY_RANK
  <2> QED
    BY <1>1, <2>2, <2>3 DEF Precedence
<1>2. CASE o.source_kind # "manual"
  <2>1. o.source_kind \in {"merged_same_document", "reported_comparison"}
    BY <1>2 DEF Observation
  <2>2. SOURCE_KIND_RANK[o.source_kind] \in 1..2
    BY <2>1 DEF SOURCE_KIND_RANK
  <2> QED
    BY <1>2, <2>2, RanksAreNumbers DEF Precedence
<1> QED
  BY <1>1, <1>2

\* choose_preferred among the rows of a report's election: there is a winner, it
\* is a report, and nothing that took part outranks it.
LEMMA ReportElects ==
  ASSUME NEW O, O \subseteq Observation,
         \A o \in O : RowShape(o) /\ o.quality # "superseded",
         \A o1, o2 \in O : o1.pk = o2.pk => o1 = o2,
         NEW report \in O, report.source_kind = "manual"
  PROVE  /\ ChoosePreferred(O, TRUE) \in O
         /\ ChoosePreferred(O, TRUE).source_kind = "manual"
         /\ \A o \in O : Precedence(ChoosePreferred(O, TRUE)) <= Precedence(o)
<1> DEFINE Ranks == {Precedence(o) : o \in O}
<1>1. PICK best \in O : \A o \in O : Precedence(best) <= Precedence(o)
  <2>1. Ranks \subseteq Nat /\ Ranks # {}
    BY PrecedenceIsNumber
  <2>2. PICK x \in Ranks : \A y \in Ranks : x <= y
    BY <2>1, NatHasLeast
  <2> QED
    BY <2>2
<1> DEFINE Tied == {o \in O : Precedence(o) = Precedence(best)}
           Ages == {MaxRuns - o.pk[1] : o \in Tied}
<1>2. \A o \in Tied : o.source_kind = "manual" /\ o.pk[2] = 0
  <2> SUFFICES ASSUME NEW o \in Tied
               PROVE  o.source_kind = "manual" /\ o.pk[2] = 0
    OBVIOUS
  <2>1. Precedence(o) <= 8
    <3>1. Precedence(report) <= 8
      BY ReportsOutrank
    <3>2. Precedence(report) \in Nat /\ Precedence(best) \in Nat
      BY PrecedenceIsNumber
    <3> QED
      BY <1>1, <3>1, <3>2
  <2>2. o.source_kind = "manual"
    <3>1. o.source_kind # "manual" => Precedence(o) >= 16
      BY ReportsOutrank
    <3>2. Precedence(o) \in Nat
      BY PrecedenceIsNumber
    <3> QED
      BY <2>1, <3>1, <3>2
  <2> QED
    BY <2>2 DEF RowShape
<1>3. \A o \in O : o.pk \in Run \X Nat
  BY DEF Observation
<1>4. PICK w \in Tied : \A o \in Tied : o.pk[1] <= w.pk[1]
  <2>1. \A o \in Tied : o.pk[1] \in 1..MaxRuns
    BY <1>3 DEF Run
  <2>2. Ages \subseteq Nat /\ Ages # {}
    BY <1>1, <2>1, BoardAssumption
  <2>3. PICK x \in Ages : \A y \in Ages : x <= y
    BY <2>2, NatHasLeast
  <2>4. PICK w \in Tied : x = MaxRuns - w.pk[1]
    BY <2>3
  <2>5. \A o \in Tied : MaxRuns - w.pk[1] <= MaxRuns - o.pk[1]
    BY <2>3, <2>4
  <2> QED
    BY <2>1, <2>5, BoardAssumption
<1>5. \A other \in O \ {w} :
        \/ Precedence(w) < Precedence(other)
        \/ Precedence(w) = Precedence(other) /\ TieBreak(TRUE, w, other)
  <2> SUFFICES ASSUME NEW other \in O \ {w}, ~(Precedence(w) < Precedence(other))
               PROVE  Precedence(w) = Precedence(other) /\ TieBreak(TRUE, w, other)
    OBVIOUS
  <2>1. Precedence(w) \in Nat /\ Precedence(other) \in Nat
    BY PrecedenceIsNumber
  <2>2. other \in Tied
    BY <1>1, <2>1
  <2>3. other.pk[2] = 0 /\ w.pk[2] = 0 /\ other.pk[1] <= w.pk[1]
    BY <1>2, <1>4, <2>2
  <2>4. other.pk[1] # w.pk[1]
    <3>1. other.pk # w.pk
      OBVIOUS
    <3>2. other.pk = <<other.pk[1], 0>> /\ w.pk = <<w.pk[1], 0>>
      BY <1>3, <2>3
    <3> QED
      BY <3>1, <3>2
  <2>5. w.pk[1] > other.pk[1]
    BY <1>3, <2>3, <2>4, BoardAssumption DEF Run
  <2> QED
    BY <2>2, <2>5 DEF TieBreak
<1> DEFINE Wins(o) == \A other \in O \ {o} :
                        \/ Precedence(o) < Precedence(other)
                        \/ Precedence(o) = Precedence(other) /\ TieBreak(TRUE, o, other)
           chosen == CHOOSE o \in O : Wins(o)
<1>6. chosen \in O /\ Wins(chosen)
  <2>1. \E o \in O : Wins(o)
    BY <1>5
  <2> HIDE DEF Wins
  <2> QED
    BY <2>1
<1>7. ChoosePreferred(O, TRUE) = chosen
  BY Zenon DEF ChoosePreferred
<1>8. \A o \in O : Precedence(chosen) <= Precedence(o)
  <2>1. \A o \in O : Precedence(o) \in Nat
    BY PrecedenceIsNumber
  <2> HIDE DEF chosen
  <2>2. ASSUME NEW o \in O, o # chosen
        PROVE  Precedence(chosen) < Precedence(o) \/ Precedence(chosen) = Precedence(o)
    BY <1>6, <2>2
  <2> QED
    BY <1>6, <2>1, <2>2
<1>9. chosen \in Tied
  <2>1. \A o \in O : Precedence(o) \in Nat
    BY PrecedenceIsNumber
  <2> HIDE DEF chosen
  <2> QED
    BY <1>1, <1>6, <1>8, <2>1
<1> HIDE DEF chosen, Wins
<1> QED
  BY <1>2, <1>6, <1>7, <1>8, <1>9

\* ... and among the rows of a package: there is a winner and nothing outranks it.
LEMMA PackageElects ==
  ASSUME NEW O, O \subseteq Observation, O # {},
         \A o1, o2 \in O : o1.pk[2] = o2.pk[2] => o1 = o2
  PROVE  /\ ChoosePreferred(O, FALSE) \in O
         /\ \A o \in O : Precedence(ChoosePreferred(O, FALSE)) <= Precedence(o)
<1> DEFINE Ranks == {Precedence(o) : o \in O}
<1>1. PICK best \in O : \A o \in O : Precedence(best) <= Precedence(o)
  <2>1. Ranks \subseteq Nat /\ Ranks # {}
    BY PrecedenceIsNumber
  <2>2. PICK x \in Ranks : \A y \in Ranks : x <= y
    BY <2>1, NatHasLeast
  <2> QED
    BY <2>2
<1> DEFINE Tied == {o \in O : Precedence(o) = Precedence(best)}
           Places == {o.pk[2] : o \in Tied}
<1>2. \A o \in O : o.pk[2] \in Nat /\ Precedence(o) \in Nat
  BY PrecedenceIsNumber DEF Observation
<1>3. PICK w \in Tied : \A o \in Tied : w.pk[2] <= o.pk[2]
  <2>1. Places \subseteq Nat /\ Places # {}
    BY <1>1, <1>2
  <2>2. PICK x \in Places : \A y \in Places : x <= y
    BY <2>1, NatHasLeast
  <2> QED
    BY <2>2
<1>4. \A other \in O \ {w} :
        \/ Precedence(w) < Precedence(other)
        \/ Precedence(w) = Precedence(other) /\ TieBreak(FALSE, w, other)
  <2> SUFFICES ASSUME NEW other \in O \ {w}, ~(Precedence(w) < Precedence(other))
               PROVE  Precedence(w) = Precedence(other) /\ TieBreak(FALSE, w, other)
    OBVIOUS
  <2>1. other \in Tied
    BY <1>1, <1>2
  <2>2. w.pk[2] < other.pk[2]
    BY <1>2, <1>3, <2>1
  <2> QED
    BY <2>1, <2>2 DEF TieBreak
<1> DEFINE Wins(o) == \A other \in O \ {o} :
                        \/ Precedence(o) < Precedence(other)
                        \/ Precedence(o) = Precedence(other) /\ TieBreak(FALSE, o, other)
           chosen == CHOOSE o \in O : Wins(o)
<1>5. chosen \in O /\ Wins(chosen)
  <2>1. \E o \in O : Wins(o)
    BY <1>4
  <2> HIDE DEF Wins
  <2> QED
    BY <2>1
<1>6. ChoosePreferred(O, FALSE) = chosen
  BY Zenon DEF ChoosePreferred
<1> HIDE DEF chosen
<1>7. ASSUME NEW o \in O, o # chosen
      PROVE  Precedence(chosen) < Precedence(o) \/ Precedence(chosen) = Precedence(o)
  BY <1>5, <1>7
<1> HIDE DEF Wins
<1>8. ASSUME NEW o \in O
      PROVE  Precedence(chosen) <= Precedence(o)
  <2>1. Precedence(chosen) \in Nat /\ Precedence(o) \in Nat
    BY <1>2, <1>5
  <2> QED
    BY <1>7, <2>1
<1> QED
  BY <1>5, <1>6, <1>8

LEMMA NoReportIsReport ==
  NoReport \in Report
<1>1. (CHOOSE d \in Dates : TRUE) \in Dates
  BY BoardAssumption
<1> QED
  BY <1>1, BoardAssumption DEF NoReport, Report, NoTarget, ManualFacts

\* The rows an import writes: of its run, live, one key each, and on every date
\* they touch one of them is preferred and not outranked by another.
LEMMA PackageRowsElected ==
  ASSUME NEW pkg \in Packages, NEW run \in Run
  PROVE  LET P == PackageObservations(pkg, run)
         IN  /\ P \subseteq Observation
             /\ \A o \in P : /\ o.pk[1] = run /\ o.quality # "superseded" /\ RowShape(o)
                             /\ o.source_kind # "manual"
             /\ \A o1, o2 \in P : o1.pk = o2.pk => o1 = o2
             /\ \A o \in P : \E w \in P : w.date = o.date /\ w.preferred
             /\ \A o, other \in P : o.preferred /\ o.date = other.date
                   => Precedence(o) <= Precedence(other)
             /\ pkg.rows # {} => P # {}
<1> DEFINE rows == {StoredRow(pkg, run, r) : r \in pkg.rows}
           wins(o) == o = ChoosePreferred(On(rows, o.date), FALSE)
           mark(o) == [o EXCEPT !.preferred = wins(o)]
           P == {mark(o) : o \in rows}
<1>1. PackageObservations(pkg, run) = P
  BY Zenon DEF PackageObservations
<1>2. ASSUME NEW r \in pkg.rows
      PROVE  /\ StoredRow(pkg, run, r) \in Observation
             /\ StoredRow(pkg, run, r).pk = <<run, r.sid>>
             /\ StoredRow(pkg, run, r).quality # "superseded"
             /\ StoredRow(pkg, run, r).source_kind # "manual"
             /\ StoredRow(pkg, run, r).confidence # "manual_verified"
  <2>1. r \in PackageRow
    BY BoardAssumption
  <2>2. Assess(r.facts, r.date \in pkg.conflicts) \in {"conflicted", "review_required", "verified"}
    BY DEF Assess
  <2>3. run \in Nat
    BY BoardAssumption DEF Run
  <2>4. <<r.sid, IF importer.seen = {} THEN 0 ELSE run>> \in Nat \X Nat
    BY <2>1, <2>3 DEF PackageRow
  <2> QED
    BY <2>1, <2>2, <2>4, NoReportIsReport DEF PackageRow, StoredRow, Observation, Quality
<1>3. /\ rows \subseteq Observation
      /\ \A o \in rows : /\ o.pk[1] = run /\ o.quality # "superseded"
                         /\ o.source_kind # "manual" /\ o.confidence # "manual_verified"
  BY <1>2
<1>4. \A o1, o2 \in rows : o1.pk[2] = o2.pk[2] => o1 = o2
  <2> SUFFICES ASSUME NEW r1 \in pkg.rows, NEW r2 \in pkg.rows,
                      StoredRow(pkg, run, r1).pk[2] = StoredRow(pkg, run, r2).pk[2]
               PROVE  StoredRow(pkg, run, r1) = StoredRow(pkg, run, r2)
    OBVIOUS
  <2>1. r1.sid = r2.sid
    BY <1>2
  <2> QED
    BY <2>1, BoardAssumption
<1>5. ASSUME NEW d \in Dates, On(rows, d) # {}
      PROVE  /\ ChoosePreferred(On(rows, d), FALSE) \in On(rows, d)
             /\ \A o \in On(rows, d) :
                   Precedence(ChoosePreferred(On(rows, d), FALSE)) <= Precedence(o)
  <2>1. /\ On(rows, d) \subseteq Observation
        /\ \A o1, o2 \in On(rows, d) : o1.pk[2] = o2.pk[2] => o1 = o2
    BY <1>3, <1>4 DEF On
  <2> QED
    BY <1>5, <2>1, PackageElects
<1> HIDE DEF rows
<1>6. ASSUME NEW o \in rows
      PROVE  /\ mark(o) \in Observation
             /\ mark(o).pk = o.pk /\ mark(o).date = o.date /\ mark(o).quality = o.quality
             /\ mark(o).source_kind = o.source_kind /\ mark(o).confidence = o.confidence
             /\ Precedence(mark(o)) = Precedence(o)
             /\ mark(o).preferred = wins(o)
             /\ o.date \in Dates /\ o \in On(rows, o.date)
  <2> DEFINE b == wins(o)
  <2>1. b \in BOOLEAN /\ o \in Observation
    BY <1>3
  <2> HIDE DEF b
  <2>2. /\ [o EXCEPT !.preferred = b] \in Observation
        /\ [o EXCEPT !.preferred = b].preferred = b
        /\ [o EXCEPT !.preferred = b].pk = o.pk
        /\ [o EXCEPT !.preferred = b].date = o.date
        /\ [o EXCEPT !.preferred = b].quality = o.quality
        /\ [o EXCEPT !.preferred = b].source_kind = o.source_kind
        /\ [o EXCEPT !.preferred = b].confidence = o.confidence
        /\ o.date \in Dates
    BY <2>1 DEF Observation
  <2>3. mark(o) = [o EXCEPT !.preferred = b]
    BY DEF b
  <2> QED
    BY <2>2, <2>3, Zenon DEF Precedence, On, b
<1> HIDE DEF mark, wins
<1>7. \A o \in P : /\ o.pk[1] = run /\ o.quality # "superseded" /\ RowShape(o)
                   /\ o.source_kind # "manual"
  BY <1>3, <1>6 DEF RowShape
<1>8. \A o1, o2 \in P : o1.pk = o2.pk => o1 = o2
  BY <1>4, <1>6
<1>9. \A o \in P : \E w \in P : w.date = o.date /\ w.preferred
  <2> SUFFICES ASSUME NEW o \in rows
               PROVE  \E w \in P : w.date = mark(o).date /\ w.preferred
    OBVIOUS
  <2> DEFINE w == ChoosePreferred(On(rows, o.date), FALSE)
  <2>1. w \in On(rows, o.date)
    BY <1>5, <1>6
  <2>2. w \in rows /\ w.date = o.date
    BY <2>1 DEF On
  <2>3. wins(w)
    BY <2>2 DEF wins
  <2> HIDE DEF w
  <2> QED
    BY <1>6, <2>2, <2>3
<1>10. ASSUME NEW o \in rows, NEW other \in rows, mark(o).preferred,
              mark(o).date = mark(other).date
       PROVE  Precedence(mark(o)) <= Precedence(mark(other))
  <2>1. wins(o) /\ o.date = other.date
    BY <1>6, <1>10
  <2>2. other \in On(rows, o.date)
    BY <1>6, <2>1
  <2>3. Precedence(o) <= Precedence(other)
    BY <1>5, <1>6, <2>1, <2>2 DEF wins
  <2> QED
    BY <1>6, <2>3
<1>11. pkg.rows # {} => P # {}
  BY DEF rows
<1> QED
  BY <1>1, <1>6, <1>7, <1>8, <1>9, <1>10, <1>11

-----------------------------------------------------------------------------
(* What a report's commit makes of each row. *)

Winner(s) == ChoosePreferred(Candidates(s), TRUE)

\* The row that o becomes.
After(s, o) ==
    IF o.pk \in staff[s].locked THEN Supersede(o)
    ELSE IF o \in Candidates(s) THEN [o EXCEPT !.preferred = (o = Winner(s))]
    ELSE o

Before(s) == observations \cup {NewObservation(s)}

LEMMA NewRow ==
  ASSUME BoardTypeOK, Elections, NEW s \in Staff, StaffAt(s, "elect")
  PROVE  LET new == NewObservation(s)
         IN  /\ new \in Observation
             /\ new.pk = <<staff[s].run, 0>> /\ new.date = staff[s].report.date
             /\ new.source_kind = "manual" /\ new.quality # "superseded" /\ ~new.preferred
             /\ RowShape(new)
             /\ new.pk \notin Keys(observations)
<1>1. staff[s].report \in Report /\ staff[s].run \in Run
  BY DEF BoardTypeOK, StaffState, Elections, OpenRequests, StaffAt
<1>2. Assess(staff[s].report.facts, FALSE) \in {"verified", "review_required"}
  BY DEF Assess
<1>3. <<staff[s].run, 0>> \notin Keys(observations)
  BY DEF Elections, OpenRequests, StaffAt, Keys
<1> QED
  BY <1>1, <1>2, <1>3 DEF NewObservation, Observation, Report, RowShape, Quality

LEMMA CandidatesElect ==
  ASSUME BoardTypeOK, Elections, NEW s \in Staff, StaffAt(s, "elect")
  PROVE  /\ Winner(s) \in Candidates(s)
         /\ Winner(s).source_kind = "manual"
         /\ \A o \in Candidates(s) : Precedence(Winner(s)) <= Precedence(o)
         /\ \A o \in Candidates(s) : o.date = staff[s].report.date /\ o.quality # "superseded"
         /\ \A o \in Candidates(s) : o.pk \notin staff[s].locked
         /\ Candidates(s) \subseteq Before(s)
         /\ \A o1, o2 \in Before(s) : o1.pk = o2.pk => o1 = o2
<1> DEFINE new == NewObservation(s)
<1>1. /\ new \in Observation
      /\ new.pk = <<staff[s].run, 0>> /\ new.date = staff[s].report.date
      /\ new.source_kind = "manual" /\ new.quality # "superseded"
      /\ RowShape(new)
      /\ new.pk \notin Keys(observations)
  BY NewRow
<1> HIDE DEF new
<1>2. Before(s) = observations \cup {new}
  BY DEF Before, new
<1>3. Candidates(s) = {o \in Live(observations) : o.pk \in staff[s].seen} \cup {new}
  BY DEF Candidates, new
<1>4. \A o1, o2 \in Before(s) : o1.pk = o2.pk => o1 = o2
  BY <1>1, <1>2 DEF Elections, KeysAreSpent, Keys
<1>5. Candidates(s) \subseteq Before(s)
  BY <1>2, <1>3 DEF Live
<1>6. /\ Candidates(s) \subseteq Observation
      /\ \A o \in Candidates(s) : RowShape(o) /\ o.quality # "superseded"
  BY <1>1, <1>3 DEF Live, BoardTypeOK, Elections, RowsAreShaped
<1>7. \A o1, o2 \in Candidates(s) : o1.pk = o2.pk => o1 = o2
  BY <1>4, <1>5
<1>8. new \in Candidates(s)
  BY <1>3
<1>9. /\ Winner(s) \in Candidates(s)
      /\ Winner(s).source_kind = "manual"
      /\ \A o \in Candidates(s) : Precedence(Winner(s)) <= Precedence(o)
  BY <1>1, <1>6, <1>7, <1>8, ReportElects DEF Winner
<1>10. \A o \in Candidates(s) : o.date = staff[s].report.date /\ o.pk \notin staff[s].locked
  <2>1. ASSUME NEW o \in Live(observations), o.pk \in staff[s].seen
        PROVE  o.date = staff[s].report.date /\ o.pk \notin staff[s].locked
    BY <2>1 DEF Elections, SeenIsOfDate, StaffAt, Live
  <2>2. new.pk \notin staff[s].locked
    BY <1>1 DEF Elections, LocksHeld
  <2> QED
    BY <1>1, <1>3, <2>1, <2>2
<1> QED
  BY <1>4, <1>5, <1>6, <1>9, <1>10

LEMMA AfterIs ==
  ASSUME BoardTypeOK, Elections, NEW s \in Staff, StaffAt(s, "elect"), NEW o \in Before(s)
  PROVE  LET after == After(s, o)
             held == o.pk \in staff[s].locked
         IN  /\ o \in Observation /\ after \in Observation
             /\ after.pk = o.pk /\ after.date = o.date /\ after.source_kind = o.source_kind
             /\ after.confidence = o.confidence
             /\ after.quality = IF held THEN "superseded" ELSE o.quality
             /\ after.preferred = (~held /\ (IF o \in Candidates(s) THEN o = Winner(s)
                                             ELSE o.preferred))
             /\ ~held => Precedence(after) = Precedence(o)
<1>1. o \in Observation
  BY NewRow DEF BoardTypeOK, Before
<1>2. CASE o.pk \in staff[s].locked
  <2>1. After(s, o) = Supersede(o)
    BY <1>2 DEF After
  <2> QED
    BY <1>1, <1>2, <2>1 DEF Supersede, Observation, Quality
<1>3. CASE o.pk \notin staff[s].locked /\ o \in Candidates(s)
  <2> DEFINE b == (o = Winner(s))
  <2>1. After(s, o) = [o EXCEPT !.preferred = b]
    BY <1>3 DEF After
  <2>2. b \in BOOLEAN
    OBVIOUS
  <2> HIDE DEF b
  <2>3. LET after == [o EXCEPT !.preferred = b]
        IN  /\ after \in Observation
            /\ after.pk = o.pk /\ after.date = o.date /\ after.source_kind = o.source_kind
            /\ after.confidence = o.confidence /\ after.quality = o.quality
            /\ after.preferred = b
    BY <1>1, <2>2 DEF Observation
  <2>4. Precedence([o EXCEPT !.preferred = b]) = Precedence(o)
    BY <2>3, Zenon DEF Precedence
  <2> QED
    BY <1>1, <1>3, <2>1, <2>3, <2>4, Zenon DEF b
<1>4. CASE o.pk \notin staff[s].locked /\ o \notin Candidates(s)
  <2>1. After(s, o) = o
    BY <1>4 DEF After
  <2>2. o.preferred \in BOOLEAN
    BY <1>1 DEF Observation
  <2> QED
    BY <1>1, <1>4, <2>1, <2>2, Zenon
<1> QED
  BY <1>2, <1>3, <1>4, Zenon

LEMMA CommitMapsRows ==
  ASSUME BoardTypeOK, Elections, NEW s \in Staff, StaffAt(s, "elect")
  PROVE  ObservationsPublished(s) = {After(s, o) : o \in Before(s)}
<1> DEFINE target == {o \in observations : o.pk \in staff[s].locked}
           kept == {o \in observations \ target : o.pk \notin Keys(Elected(s))}
<1>1. ObservationsPublished(s) = kept \cup Elected(s) \cup {Supersede(o) : o \in target}
  BY Zenon DEF ObservationsPublished
<1>2. /\ \A o \in Candidates(s) : o.pk \notin staff[s].locked /\ o \in Before(s)
      /\ \A o1, o2 \in Before(s) : o1.pk = o2.pk => o1 = o2
  BY CandidatesElect
<1>3. \A o \in Candidates(s) : After(s, o) = [o EXCEPT !.preferred = (o = Winner(s))]
  BY <1>2 DEF After
<1>4. Elected(s) = {After(s, o) : o \in Candidates(s)}
  <2> DEFINE mark(o) == [o EXCEPT !.preferred = (o = Winner(s))]
  <2>1. Elected(s) = {mark(o) : o \in Candidates(s)}
    BY Zenon DEF Elected, Winner
  <2>2. \A o \in Candidates(s) : After(s, o) = mark(o)
    BY <1>3
  <2> HIDE DEF mark
  <2> QED
    BY <2>1, <2>2
<1>5. Keys(Elected(s)) = Keys(Candidates(s))
  <2>1. \A o \in Candidates(s) : After(s, o).pk = o.pk
    BY <1>2, AfterIs
  <2> QED
    BY <1>4, <2>1 DEF Keys
<1>6. \A o \in target : After(s, o) = Supersede(o)
  BY DEF After
<1>7. \A o \in observations \ target :
         o \notin Candidates(s) => o.pk \notin Keys(Elected(s)) /\ After(s, o) = o
  <2> SUFFICES ASSUME NEW o \in observations \ target, o \notin Candidates(s)
               PROVE  o.pk \notin Keys(Elected(s)) /\ After(s, o) = o
    OBVIOUS
  <2>1. o \in Before(s)
    BY DEF Before
  <2>2. o.pk \notin Keys(Candidates(s))
    BY <1>2, <2>1 DEF Keys
  <2> QED
    BY <1>5, <2>2 DEF After
<1>8. \A o \in kept : o \notin Candidates(s)
  BY <1>5 DEF Keys
<1>9. NewObservation(s) \in Candidates(s)
  BY DEF Candidates
<1>10. {After(s, o) : o \in Before(s)} \subseteq ObservationsPublished(s)
  <2> SUFFICES ASSUME NEW o \in Before(s)
               PROVE  After(s, o) \in ObservationsPublished(s)
    OBVIOUS
  <2>1. CASE o \in Candidates(s)
    BY <1>1, <1>4, <2>1
  <2>2. CASE o \notin Candidates(s) /\ o \in target
    BY <1>1, <1>6, <2>2
  <2>3. CASE o \notin Candidates(s) /\ o \notin target
    <3>1. o \in observations \ target
      BY <1>9, <2>3 DEF Before
    <3> QED
      BY <1>1, <1>7, <2>3, <3>1
  <2> QED
    BY <2>1, <2>2, <2>3
<1>11. ObservationsPublished(s) \subseteq {After(s, o) : o \in Before(s)}
  <2> SUFFICES ASSUME NEW q \in ObservationsPublished(s)
               PROVE  \E o \in Before(s) : q = After(s, o)
    OBVIOUS
  <2>1. CASE q \in kept
    BY <1>7, <1>8, <2>1 DEF Before
  <2>2. CASE q \in Elected(s)
    BY <1>2, <1>4, <2>2
  <2>3. CASE q \in {Supersede(o) : o \in target}
    BY <1>6, <2>3 DEF Before
  <2> QED
    BY <1>1, <2>1, <2>2, <2>3
<1> QED
  BY <1>10, <1>11

-----------------------------------------------------------------------------
(* A report's commit. *)

\* What the steps below use of a commit, in one place.
LEMMA CommitRows ==
  ASSUME BoardTypeOK, Elections, NEW s \in Staff, CommitReport(s)
  PROVE  /\ observations' = {After(s, o) : o \in Before(s)}
         /\ \A q \in observations' : \E o \in Before(s) : q = After(s, o)
         /\ \A o \in Before(s) : After(s, o) \in observations'
         /\ After(s, Winner(s)).preferred
         /\ After(s, Winner(s)).date = staff[s].report.date
         /\ \A o \in Before(s) : After(s, o).preferred /\ o.date = staff[s].report.date
               => o = Winner(s)
         /\ \A o \in Before(s) : After(s, o).preferred /\ o # Winner(s)
               => /\ o.preferred /\ o \in observations /\ o \notin Candidates(s)
                  /\ o.pk \notin staff[s].locked
<1>1. StaffAt(s, "elect") /\ observations' = ObservationsPublished(s)
  BY DEF CommitReport
<1>2. observations' = {After(s, o) : o \in Before(s)}
  BY <1>1, CommitMapsRows
<1>3. /\ Winner(s) \in Candidates(s) /\ Winner(s) \in Before(s)
      /\ Winner(s).pk \notin staff[s].locked
      /\ Winner(s).date = staff[s].report.date
      /\ \A o1, o2 \in Before(s) : o1.pk = o2.pk => o1 = o2
  BY <1>1, CandidatesElect
<1>4. After(s, Winner(s)).preferred /\ After(s, Winner(s)).date = staff[s].report.date
  BY <1>1, <1>3, AfterIs
<1>5. ASSUME NEW o \in Before(s), After(s, o).preferred, o.date = staff[s].report.date
      PROVE  o = Winner(s)
  <2>1. OnePreferredPerDate(observations')
    BY <1>1 DEF CommitReport, TablesAllow
  <2>2. After(s, o) \in observations' /\ After(s, Winner(s)) \in observations'
    BY <1>2, <1>3
  <2>3. After(s, o).date = o.date
    BY <1>1, AfterIs
  <2>4. After(s, o) = After(s, Winner(s))
    BY <1>4, <1>5, <2>1, <2>2, <2>3 DEF OnePreferredPerDate
  <2>5. o.pk = Winner(s).pk
    BY <1>1, <1>3, <2>4, AfterIs
  <2> QED
    BY <1>3, <2>5
<1>6. ASSUME NEW o \in Before(s), After(s, o).preferred, o # Winner(s)
      PROVE  /\ o.preferred /\ o \in observations /\ o \notin Candidates(s)
             /\ o.pk \notin staff[s].locked
  <2>1. o.pk \notin staff[s].locked /\ o \notin Candidates(s) /\ o.preferred
    BY <1>1, <1>6, AfterIs
  <2>2. NewObservation(s) \in Candidates(s)
    BY DEF Candidates
  <2> QED
    BY <2>1, <2>2 DEF Before
<1> QED
  BY <1>2, <1>4, <1>5, <1>6

LEMMA CommitKeepsElections ==
  ASSUME BoardTypeOK, Elections, NEW s \in Staff, CommitReport(s)
  PROVE  Elections'
<1> DEFINE new == NewObservation(s)
<1>1. StaffAt(s, "elect") /\ UNCHANGED <<nextRun, importer>>
  BY DEF CommitReport
<1>2. staff' = [staff EXCEPT ![s] = IdleStaff] /\ staff \in [Staff -> StaffState]
  BY DEF CommitReport, BoardTypeOK
<1>3. \A t \in Staff : t # s => staff'[t] = staff[t]
  BY <1>2
<1>4. staff'[s].pc = "idle" /\ staff'[s].locked = {}
  BY <1>2 DEF IdleStaff
<1>5. /\ new \in Observation
      /\ new.pk = <<staff[s].run, 0>> /\ new.date = staff[s].report.date
      /\ new.source_kind = "manual" /\ new.quality # "superseded"
      /\ RowShape(new)
      /\ new.pk \notin Keys(observations)
      /\ new \in Candidates(s)
  BY <1>1, NewRow DEF Candidates
<1>6. Before(s) = observations \cup {new}
  BY DEF Before
<1> HIDE DEF new
<1>7. /\ \A q \in observations' : \E o \in Before(s) : q = After(s, o)
      /\ \A o \in Before(s) : After(s, o) \in observations'
      /\ \A o \in Before(s) : After(s, o).preferred /\ o.date = staff[s].report.date
               => o = Winner(s)
      /\ \A o \in Before(s) : After(s, o).preferred /\ o # Winner(s)
               => /\ o.preferred /\ o \in observations /\ o \notin Candidates(s)
                  /\ o.pk \notin staff[s].locked
  BY CommitRows
<1>8. /\ \A o1, o2 \in Before(s) : o1.pk = o2.pk => o1 = o2
      /\ Winner(s) \in Candidates(s) /\ Winner(s) \in Before(s)
      /\ Winner(s).source_kind = "manual"
      /\ \A o \in Candidates(s) : Precedence(Winner(s)) <= Precedence(o)
      /\ \A o \in Candidates(s) : o.date = staff[s].report.date /\ o.quality # "superseded"
  BY <1>1, CandidatesElect
<1>9. \A o \in Before(s) :
        /\ o \in Observation
        /\ After(s, o).pk = o.pk /\ After(s, o).date = o.date
        /\ After(s, o).source_kind = o.source_kind
        /\ After(s, o).confidence = o.confidence
        /\ After(s, o).quality = IF o.pk \in staff[s].locked THEN "superseded" ELSE o.quality
        /\ o.pk \notin staff[s].locked => Precedence(After(s, o)) = Precedence(o)
  BY <1>1, AfterIs
<1>10. Keys(observations) \subseteq Keys(observations')
  BY <1>6, <1>7, <1>9 DEF Keys
<1>11. KeysAreSpent'
  <2>1. staff[s].run < nextRun
    BY <1>1 DEF Elections, OpenRequests, StaffAt
  <2>2. \A o \in Before(s) : o.pk[1] < nextRun
    BY <1>5, <1>6, <2>1 DEF Elections, KeysAreSpent
  <2>3. \A q \in observations' : q.pk[1] < nextRun'
    BY <1>1, <1>7, <1>9, <2>2
  <2>4. \A q1, q2 \in observations' : q1.pk = q2.pk => q1 = q2
    BY <1>7, <1>8, <1>9
  <2> QED
    BY <2>3, <2>4 DEF KeysAreSpent
<1>12. RowsAreShaped'
  <2>1. \A o \in Before(s) : RowShape(o)
    BY <1>5, <1>6 DEF Elections, RowsAreShaped
  <2> QED
    BY <1>7, <1>9, <2>1 DEF RowsAreShaped, RowShape
<1>13. OpenRequests'
  <2>1. ASSUME NEW t \in Staff, staff'[t].pc # "idle"
        PROVE  /\ staff'[t].run \in Run
               /\ staff'[t].run < nextRun'
               /\ \A q \in observations' : q.pk[1] # staff'[t].run
               /\ staff'[t].report.supersedes \in Keys(observations') \cup {NoTarget}
    <3>1. t # s /\ staff'[t] = staff[t]
      BY <1>3, <1>4, <2>1
    <3>2. staff[t].run # staff[s].run
      BY <1>1, <2>1, <3>1 DEF Elections, OpenRequests, StaffAt
    <3>3. \A o \in Before(s) : o.pk[1] # staff[t].run
      BY <1>5, <1>6, <2>1, <3>1, <3>2 DEF Elections, OpenRequests
    <3>4. \A q \in observations' : q.pk[1] # staff[t].run
      BY <1>7, <1>9, <3>3
    <3> QED
      BY <1>1, <1>10, <2>1, <3>1, <3>4 DEF Elections, OpenRequests
  <2>2. ASSUME NEW t \in Staff, NEW u \in Staff, t # u, staff'[t].pc # "idle", staff'[u].pc # "idle"
        PROVE  staff'[t].run # staff'[u].run
    BY <1>3, <1>4, <2>2 DEF Elections, OpenRequests
  <2> QED
    BY <2>1, <2>2 DEF OpenRequests
<1>14. LocksHeld'
  BY <1>3, <1>4, <1>10 DEF Elections, LocksHeld
<1>15. SeenIsOfDate'
  <2> SUFFICES ASSUME NEW t \in Staff, staff'[t].pc = "elect"
               PROVE  /\ staff'[t].seen \cap staff'[t].locked = {}
                      /\ staff'[t].seen \subseteq Keys(observations')
                      /\ \A o \in observations' :
                            o.pk \in staff'[t].seen => o.date = staff'[t].report.date
    BY DEF SeenIsOfDate
  <2>1. staff'[t] = staff[t]
    BY <1>3, <1>4
  <2>2. /\ staff[t].seen \cap staff[t].locked = {}
        /\ staff[t].seen \subseteq Keys(observations)
        /\ \A o \in observations : o.pk \in staff[t].seen => o.date = staff[t].report.date
    BY <2>1 DEF Elections, SeenIsOfDate
  <2>3. \A o \in Before(s) : o.pk \in staff[t].seen => o.date = staff[t].report.date
    BY <1>5, <1>6, <2>2
  <2> QED
    BY <1>7, <1>9, <1>10, <2>1, <2>2, <2>3
<1>16. ASSUME NEW t \in Staff, staff'[t].pc = "elect"
       PROVE  /\ t # s /\ staff'[t] = staff[t]
              /\ \A o \in Before(s) : After(s, o) \in Missed(t)'
                    => o \in Missed(t) \/ (o = new /\ staff[t].report.date = staff[s].report.date)
  <2>1. t # s /\ staff'[t] = staff[t]
    BY <1>3, <1>4, <1>16
  <2>2. ASSUME NEW o \in Before(s), After(s, o) \in Missed(t)'
        PROVE  o \in Missed(t) \/ (o = new /\ staff[t].report.date = staff[s].report.date)
    <3>1. /\ After(s, o).date = staff[t].report.date /\ After(s, o).quality # "superseded"
          /\ After(s, o).pk \notin staff[t].seen \cup staff[t].locked
      BY <2>1, <2>2 DEF Missed, On, Live
    <3>2. /\ o.date = staff[t].report.date /\ o.quality # "superseded"
          /\ o.pk \notin staff[t].seen \cup staff[t].locked
      BY <1>9, <3>1
    <3>3. CASE o \in observations
      BY <3>2, <3>3 DEF Missed, On, Live
    <3>4. CASE o = new
      BY <1>5, <3>2, <3>4
    <3> QED
      BY <1>6, <3>3, <3>4
  <2> QED
    BY <2>1, <2>2
<1>18. NothingMissedBehindLock'
  <2> SUFFICES ASSUME NEW t \in Staff, staff'[t].pc = "elect",
                      NEW p \in observations', p.pk \in staff'[t].locked, p.preferred,
                      p.date = staff'[t].report.date,
                      NEW r \in Missed(t)'
               PROVE  FALSE
    BY DEF NothingMissedBehindLock
  <2>1. t # s /\ staff'[t] = staff[t]
    BY <1>16
  <2>2. PICK ro \in Before(s) : r = After(s, ro)
    BY <1>7 DEF Missed, On, Live
  <2>3. PICK po \in Before(s) : p = After(s, po)
    BY <1>7
  <2>4. po.pk \in staff[t].locked /\ po.date = staff[t].report.date
    BY <1>9, <2>1, <2>3
  <2>5. po \notin Candidates(s)
    <3>1. po # new
      BY <1>5, <2>4 DEF Elections, LocksHeld
    <3>2. staff[s].seen \cap staff[t].locked = {}
      BY <2>1 DEF CommitReport, LockedByOthers
    <3> QED
      BY <2>4, <3>1, <3>2 DEF Candidates, new
  <2>6. po # Winner(s)
    BY <1>8, <2>5
  <2>7. po.preferred /\ po \in observations
    BY <1>7, <2>3, <2>6
  <2>8. Missed(t) = {}
    BY <2>1, <2>4, <2>7 DEF Elections, NothingMissedBehindLock
  <2>9. staff[t].report.date = staff[s].report.date
    BY <1>16, <2>2, <2>8
  <2> QED
    BY <1>7, <2>3, <2>4, <2>6, <2>9
<1>19. ImportHolds'
  <2>1. ASSUME importer.pc = "write", NEW q \in observations', q.quality # "superseded",
               q.source_kind # "manual"
        PROVE  q.pk \in importer.seen
    <3>1. PICK o \in Before(s) : q = After(s, o)
      BY <1>7
    <3>2. o \in observations /\ o.quality # "superseded" /\ o.source_kind # "manual" /\ q.pk = o.pk
      BY <1>5, <1>6, <1>9, <2>1, <3>1
    <3> QED
      BY <2>1, <3>2 DEF Elections, ImportHolds, Live
  <2> QED
    BY <1>1, <1>10, <2>1 DEF Elections, ImportHolds, Live
<1>20. ElectedOrOrphaned'
  BY DEF ElectedOrOrphaned, CommitReport
<1>21. OnePreferredPerDate(observations')
  BY DEF CommitReport, TablesAllow
<1>22. ReportedOnce'
  <2>1. IdentitiesUnique(observations')
    BY DEF CommitReport, TablesAllow
  <2> QED
    BY <2>1 DEF IdentitiesUnique, ReportedOnce
<1>23. PreferredIsBest'
  <2> SUFFICES ASSUME NEW q \in observations', q.preferred
               PROVE  /\ q.quality # "superseded"
                      /\ q.date \notin orphaned' =>
                            \A r \in observations' :
                               /\ r.quality # "superseded" /\ r.date = q.date
                               /\ r.pk \notin passedOver'
                               => Precedence(q) <= Precedence(r)
    BY DEF PreferredIsBest, On, Live
  <2>1. PICK o \in Before(s) : q = After(s, o)
    BY <1>7
  <2>2. \A p \in observations : p.preferred => p.quality # "superseded"
    BY DEF Elections, PreferredIsBest
  <2>3. q.quality # "superseded" /\ o.pk \notin staff[s].locked
    <3>1. CASE o = Winner(s)
      <4>1. o.pk \notin staff[s].locked
        BY <1>1, <1>8, <3>1, CandidatesElect
      <4> QED
        BY <1>8, <1>9, <2>1, <3>1, <4>1
    <3>2. CASE o # Winner(s)
      BY <1>7, <1>9, <2>1, <2>2, <3>2
    <3> QED
      BY <3>1, <3>2
  <2>4. ASSUME q.date \notin orphaned',
               NEW r \in observations', r.quality # "superseded", r.date = q.date,
               r.pk \notin passedOver'
        PROVE  Precedence(q) <= Precedence(r)
    <3>1. PICK other \in Before(s) : r = After(s, other)
      BY <1>7
    <3>2. /\ other.pk \notin staff[s].locked /\ other.quality # "superseded"
          /\ other.date = o.date
          /\ Precedence(r) = Precedence(other) /\ Precedence(q) = Precedence(o)
          /\ r.pk = other.pk
      BY <1>9, <2>1, <2>3, <2>4, <3>1
    <3>3. o.date \notin orphaned /\ o.date \in Dates
      <4>1. orphaned \subseteq orphaned'
        BY DEF CommitReport
      <4> QED
        BY <1>9, <2>1, <2>4, <4>1 DEF Observation
    <3>7. other.pk \in passedOver => other.pk \in staff[s].seen
      BY <2>4, <3>2 DEF CommitReport
    <3>4. CASE o # Winner(s)
      <4>1. o \in observations /\ o.preferred /\ o.date # staff[s].report.date
        BY <1>7, <2>1, <3>4
      <4>2. other \in observations
        BY <1>5, <1>6, <3>2, <4>1
      <4>3. other.pk \notin passedOver
        BY <1>1, <3>2, <3>7, <4>1, <4>2 DEF Elections, SeenIsOfDate, StaffAt
      <4> QED
        BY <3>2, <3>3, <4>1, <4>2, <4>3 DEF Elections, PreferredIsBest, On, Live
    <3>5. CASE o = Winner(s) /\ other \in Candidates(s)
      BY <1>8, <3>2, <3>5
    <3>6. CASE o = Winner(s) /\ other \notin Candidates(s)
      <4>1. o.date = staff[s].report.date
        BY <1>8, <3>6
      <4>2. other \in observations
        BY <1>5, <1>6, <3>6
      <4>3. other.pk \notin staff[s].seen
        BY <3>2, <3>6, <4>2 DEF Candidates, Live
      <4>4. other \in Missed(s)
        BY <3>2, <4>1, <4>2, <4>3 DEF Missed, On, Live
      <4>5. PICK p \in observations : p.preferred /\ p.date = o.date
        BY <3>2, <3>3, <4>2 DEF Elections, ElectedOrOrphaned, Unelected, On, Live
      <4>6. p.quality # "superseded" /\ p \in Before(s)
        BY <1>6, <2>2, <4>5
      <4>7. p.pk \notin staff[s].locked
        BY <1>1, <4>1, <4>4, <4>5 DEF Elections, NothingMissedBehindLock, StaffAt
      <4>8. p \in Candidates(s)
        <5>1. SUFFICES ASSUME p \notin Candidates(s)
                       PROVE  FALSE
          OBVIOUS
        <5>2. After(s, p) = p
          BY <4>7, <5>1 DEF After
        <5> QED
          BY <1>7, <1>8, <4>1, <4>5, <4>6, <5>1, <5>2
      <4>11. Precedence(p) <= Precedence(other)
        BY <3>2, <3>3, <3>7, <4>2, <4>3, <4>5 DEF Elections, PreferredIsBest, On, Live
      <4>12. Precedence(o) <= Precedence(p)
        BY <1>8, <3>6, <4>8
      <4>13. Precedence(o) \in Nat /\ Precedence(p) \in Nat /\ Precedence(other) \in Nat
        BY <1>9, <4>6, PrecedenceIsNumber
      <4> QED
        BY <3>2, <4>11, <4>12, <4>13
    <3> QED
      BY <3>4, <3>5, <3>6
  <2> QED
    BY <2>3, <2>4
<1> QED
  BY <1>11, <1>12, <1>13, <1>14, <1>15, <1>18, <1>19, <1>20, <1>21, <1>22, <1>23
     DEF Elections

-----------------------------------------------------------------------------
(* An import. *)

LEMMA ReplacedRow ==
  ASSUME NEW o \in Observation
  PROVE  /\ Supersede(o) \in Observation
         /\ Supersede(o).pk = o.pk /\ Supersede(o).date = o.date
         /\ Supersede(o).source_kind = o.source_kind /\ Supersede(o).confidence = o.confidence
         /\ Supersede(o).quality = "superseded" /\ ~Supersede(o).preferred
  BY DEF Supersede, Observation, Quality

\* The table after an import: the rows it replaces are superseded, the others
\* are as they were, and its own come with new keys.
LEMMA ImportRows ==
  ASSUME BoardTypeOK, Elections, WriteHistory
  PROVE  LET P == PackageObservations(importer.package, nextRun)
             after(o) == IF o.pk \in importer.seen THEN Supersede(o) ELSE o
         IN  /\ observations' = {after(o) : o \in observations} \cup P
             /\ \A o \in observations :
                   /\ after(o) \in Observation
                   /\ after(o).pk = o.pk /\ after(o).date = o.date
                   /\ after(o).source_kind = o.source_kind /\ after(o).confidence = o.confidence
                   /\ o.pk \in importer.seen => ~after(o).preferred /\ after(o).quality = "superseded"
                   /\ o.pk \notin importer.seen => after(o) = o
             /\ importer.package \in Packages /\ nextRun \in Run
<1>1. importer.package \in Packages /\ nextRun \in Run
  BY BoardAssumption DEF BoardTypeOK, ImporterState, WriteHistory, Run
<1>2. observations \subseteq Observation
  BY DEF BoardTypeOK
<1>3. observations' = ReplacedObservations \cup PackageObservations(importer.package, nextRun)
  BY DEF WriteHistory
<1> QED
  BY <1>1, <1>2, <1>3, ReplacedRow DEF ReplacedObservations

LEMMA ImportKeepsElections ==
  ASSUME BoardTypeOK, Elections, WriteHistory
  PROVE  Elections'
<1> DEFINE P == PackageObservations(importer.package, nextRun)
           after(o) == IF o.pk \in importer.seen THEN Supersede(o) ELSE o
<1>1. /\ importer.pc = "write" /\ importer'.pc = "idle" /\ UNCHANGED staff
      /\ nextRun' = nextRun + 1 /\ nextRun \in Nat
      /\ importer.seen \cap AllLocked = {}
      /\ orphaned \subseteq orphaned' /\ Unelected(observations') \subseteq orphaned'
  BY DEF WriteHistory, IdleImporter, BoardTypeOK
<1>2. /\ observations' = {after(o) : o \in observations} \cup P
      /\ \A o \in observations :
            /\ after(o).pk = o.pk /\ after(o).date = o.date
            /\ after(o).source_kind = o.source_kind /\ after(o).confidence = o.confidence
            /\ o.pk \in importer.seen => ~after(o).preferred /\ after(o).quality = "superseded"
            /\ o.pk \notin importer.seen => after(o) = o
      /\ importer.package \in Packages /\ nextRun \in Run
  BY ImportRows
<1>3. /\ P \subseteq Observation
      /\ \A o \in P : /\ o.pk[1] = nextRun /\ o.quality # "superseded" /\ RowShape(o)
                      /\ o.source_kind # "manual"
      /\ \A o1, o2 \in P : o1.pk = o2.pk => o1 = o2
      /\ \A o \in P : \E w \in P : w.date = o.date /\ w.preferred
      /\ \A o, other \in P : o.preferred /\ o.date = other.date
            => Precedence(o) <= Precedence(other)
  BY <1>2, PackageRowsElected
<1> HIDE DEF P, after
<1>4. \A q \in observations' : (\E o \in observations : q = after(o)) \/ q \in P
  BY <1>2
<1>5. \A o \in observations : after(o) \in observations'
  BY <1>2
<1>6. \A o \in observations : o \in Observation /\ RowShape(o) /\ o.pk[1] < nextRun
  BY DEF BoardTypeOK, Elections, RowsAreShaped, KeysAreSpent
<1>7. Keys(observations) \subseteq Keys(observations')
  BY <1>2, <1>5 DEF Keys
<1>8. \A o \in P : o.pk \notin Keys(observations)
  BY <1>1, <1>3, <1>6 DEF Keys
<1>9. \A o \in observations : o.pk \notin importer.seen /\ o.quality # "superseded"
         => o.source_kind = "manual"
  BY <1>1 DEF Elections, ImportHolds, Live
<1>23. \A o \in P : \E row \in importer.package.rows : row.date = o.date
  <2>1. ASSUME NEW row \in importer.package.rows, NEW b \in BOOLEAN
        PROVE  [StoredRow(importer.package, nextRun, row) EXCEPT !.preferred = b].date = row.date
    BY DEF StoredRow
  <2> DEFINE rowsOf == {StoredRow(importer.package, nextRun, row) : row \in importer.package.rows}
             best(o) == o = ChoosePreferred(On(rowsOf, o.date), FALSE)
  <2>2. P = {[o EXCEPT !.preferred = best(o)] : o \in rowsOf}
    BY DEF P, PackageObservations
  <2>3. \A o \in rowsOf : best(o) \in BOOLEAN
    OBVIOUS
  <2> HIDE DEF best
  <2> SUFFICES ASSUME NEW o \in P PROVE \E row \in importer.package.rows : row.date = o.date
    OBVIOUS
  <2>4. PICK row \in importer.package.rows :
           o = [StoredRow(importer.package, nextRun, row)
                  EXCEPT !.preferred = best(StoredRow(importer.package, nextRun, row))]
    BY <2>2
  <2>5. best(StoredRow(importer.package, nextRun, row)) \in BOOLEAN
    BY <2>3
  <2> QED BY <2>1, <2>4, <2>5
<1>10. KeysAreSpent'
  <2>1. \A q \in observations' : q.pk[1] < nextRun'
    <3> SUFFICES ASSUME NEW q \in observations'
                 PROVE  q.pk[1] < nextRun'
      OBVIOUS
    <3>1. CASE q \in P
      BY <1>1, <1>3, <3>1
    <3>2. CASE \E o \in observations : q = after(o)
      <4>1. PICK o \in observations : q = after(o)
        BY <3>2
      <4>2. q.pk = o.pk /\ o.pk[1] < nextRun /\ o.pk[1] \in Nat
        BY <1>2, <1>6, <4>1, BoardAssumption DEF Observation, Run
      <4> QED
        BY <1>1, <4>2
    <3> QED
      BY <1>4, <3>1, <3>2
  <2>2. \A o1, o2 \in observations : o1.pk = o2.pk => o1 = o2
    BY DEF Elections, KeysAreSpent
  <2>3. \A q1, q2 \in observations' : q1.pk = q2.pk => q1 = q2
    BY <1>2, <1>3, <1>4, <1>8, <2>2 DEF Keys
  <2> QED
    BY <2>1, <2>3 DEF KeysAreSpent
<1>11. RowsAreShaped'
  <2> SUFFICES ASSUME NEW q \in observations'
               PROVE  RowShape(q)
    BY DEF RowsAreShaped
  <2>1. CASE \E o \in observations : q = after(o)
    <3>1. PICK o \in observations : q = after(o)
      BY <2>1
    <3>2. q = o \/ q.quality = "superseded"
      BY <1>2, <3>1
    <3> QED
      BY <1>2, <1>6, <3>1, <3>2 DEF RowShape
  <2> QED
    BY <1>3, <1>4, <2>1
<1>12. OpenRequests'
  <2>1. ASSUME NEW t \in Staff, staff[t].pc # "idle"
        PROVE  /\ staff[t].run \in Run
               /\ staff[t].run < nextRun'
               /\ \A q \in observations' : q.pk[1] # staff[t].run
               /\ staff[t].report.supersedes \in Keys(observations') \cup {NoTarget}
    <3>1. /\ staff[t].run \in Run /\ staff[t].run < nextRun
          /\ \A o \in observations : o.pk[1] # staff[t].run
          /\ staff[t].report.supersedes \in Keys(observations) \cup {NoTarget}
      BY <2>1 DEF Elections, OpenRequests
    <3>2. staff[t].run \in Nat
      BY <3>1, BoardAssumption DEF Run
    <3>3. \A q \in observations' : q.pk[1] # staff[t].run
      BY <1>1, <1>2, <1>3, <1>4, <3>1, <3>2
    <3> QED
      BY <1>1, <1>7, <3>1, <3>2, <3>3
  <2> QED
    BY <1>1, <2>1 DEF Elections, OpenRequests
<1>13. LocksHeld'
  BY <1>1, <1>7 DEF Elections, LocksHeld
<1>14. SeenIsOfDate'
  <2> SUFFICES ASSUME NEW t \in Staff, staff[t].pc = "elect"
               PROVE  /\ staff[t].seen \cap staff[t].locked = {}
                      /\ staff[t].seen \subseteq Keys(observations')
                      /\ \A q \in observations' :
                            q.pk \in staff[t].seen => q.date = staff[t].report.date
    BY <1>1 DEF SeenIsOfDate
  <2>1. /\ staff[t].seen \cap staff[t].locked = {}
        /\ staff[t].seen \subseteq Keys(observations)
        /\ \A o \in observations : o.pk \in staff[t].seen => o.date = staff[t].report.date
    BY DEF Elections, SeenIsOfDate
  <2> QED
    BY <1>2, <1>4, <1>7, <1>8, <2>1
<1>15. \A t \in Staff : \A r \in Missed(t)' :
          \/ r \in P /\ r.date = staff[t].report.date
          \/ r \in Missed(t)
  <2> SUFFICES ASSUME NEW t \in Staff, NEW r \in Missed(t)', r \notin P
               PROVE  r \in Missed(t)
    BY <1>1 DEF Missed, On
  <2>1. /\ r \in observations' /\ r.quality # "superseded" /\ r.date = staff[t].report.date
        /\ r.pk \notin staff[t].seen \cup staff[t].locked
    BY <1>1 DEF Missed, On, Live
  <2>2. PICK o \in observations : r = after(o)
    BY <1>4, <2>1
  <2>3. r = o
    BY <1>2, <2>1, <2>2
  <2> QED
    BY <2>1, <2>3 DEF Missed, On, Live
<1>17. NothingMissedBehindLock'
  <2> SUFFICES ASSUME NEW t \in Staff, staff[t].pc = "elect",
                      NEW p \in observations', p.pk \in staff[t].locked, p.preferred,
                      p.date = staff[t].report.date,
                      NEW r \in Missed(t)'
               PROVE  FALSE
    BY <1>1 DEF NothingMissedBehindLock
  <2>1. p \notin P
    BY <1>8 DEF Elections, LocksHeld
  <2>2. PICK o \in observations : p = after(o)
    BY <1>4, <2>1
  <2>3. p = o
    BY <1>2, <2>2
  <2>4. Missed(t) = {}
    BY <2>3 DEF Elections, NothingMissedBehindLock
  <2>5. r \in P /\ r.date = staff[t].report.date
    BY <1>15, <2>4
  <2>6. PICK w \in P : w.date = r.date /\ w.preferred
    BY <1>3, <2>5
  <2>7. w \in observations' /\ OnePreferredPerDate(observations')
    BY <1>2 DEF WriteHistory, TablesAllow
  <2> QED
    BY <2>1, <2>5, <2>6, <2>7 DEF OnePreferredPerDate
<1>18. ImportHolds'
  BY <1>1 DEF ImportHolds
<1>19. ElectedOrOrphaned'
  BY <1>1 DEF ElectedOrOrphaned
<1>20. OnePreferredPerDate(observations')
  BY DEF WriteHistory, TablesAllow
<1>21. ReportedOnce'
  <2>1. IdentitiesUnique(observations')
    BY DEF WriteHistory, TablesAllow
  <2> QED
    BY <2>1 DEF IdentitiesUnique, ReportedOnce
<1>22. PreferredIsBest'
  <2> SUFFICES ASSUME NEW q \in observations', q.preferred
               PROVE  /\ q.quality # "superseded"
                      /\ q.date \notin orphaned' =>
                            \A r \in observations' :
                               /\ r.quality # "superseded" /\ r.date = q.date
                               /\ r.pk \notin passedOver'
                               => Precedence(q) <= Precedence(r)
    BY DEF PreferredIsBest, On, Live
  <2>1. CASE q \in P
    <3>1. q.quality # "superseded"
      BY <1>3, <2>1
    <3>2. ASSUME NEW r \in observations', r.quality # "superseded", r.date = q.date,
                 r.pk \notin passedOver'
          PROVE  Precedence(q) <= Precedence(r)
      <4>1. r \in P
        <5>1. ASSUME NEW o \in observations, r = after(o)
              PROVE  FALSE
          <6>1. r = o /\ o.pk \notin importer.seen /\ o.source_kind = "manual"
            BY <1>2, <1>9, <3>2, <5>1
          <6>2. o \in Overlooked
            BY <1>23, <2>1, <3>2, <6>1 DEF Overlooked, Live
          <6> QED
            BY <3>2, <6>1, <6>2 DEF WriteHistory, Keys
        <5> QED
          BY <1>4, <5>1
      <4> QED
        BY <1>3, <2>1, <3>2, <4>1
    <3> QED
      BY <3>1, <3>2
  <2>2. CASE q \notin P
    <3>1. PICK o \in observations : q = after(o)
      BY <1>4, <2>2
    <3>2. q = o /\ o.pk \notin importer.seen
      BY <1>2, <3>1
    <3>3. q.quality # "superseded"
      BY <3>2 DEF Elections, PreferredIsBest
    <3>4. ASSUME q.date \notin orphaned',
                 NEW r \in observations', r.quality # "superseded", r.date = q.date,
                 r.pk \notin passedOver'
          PROVE  Precedence(q) <= Precedence(r)
      <4>1. CASE r \in P
        <5>1. Precedence(r) >= 16 /\ Precedence(r) \in Nat
          BY <1>3, <4>1, ReportsOutrank, PrecedenceIsNumber
        <5>2. Precedence(q) <= 8 /\ Precedence(q) \in Nat
          BY <1>6, <1>9, <3>2, <3>3, ReportsOutrank, PrecedenceIsNumber
        <5> QED
          BY <5>1, <5>2
      <4>2. CASE r \notin P
        <5>1. PICK other \in observations : r = after(other)
          BY <1>4, <4>2
        <5>2. r = other
          BY <1>2, <3>4, <5>1
        <5>3. other.pk \notin passedOver
          BY <3>4, <5>2 DEF WriteHistory
        <5> QED
          BY <1>1, <3>2, <3>4, <5>2, <5>3 DEF Elections, PreferredIsBest, On, Live
      <4> QED
        BY <4>1, <4>2
    <3> QED
      BY <3>3, <3>4
  <2> QED
    BY <2>1, <2>2
<1> QED
  BY <1>10, <1>11, <1>12, <1>13, <1>14, <1>17, <1>18, <1>19, <1>20, <1>21, <1>22
     DEF Elections

-----------------------------------------------------------------------------
(* Types. *)

LEMMA IdleIsTyped ==
  /\ IdleStaff \in StaffState
  /\ IdleImporter \in ImporterState
<1>1. (CHOOSE p \in Packages : TRUE) \in Packages
  BY BoardAssumption
<1> QED
  BY <1>1, NoReportIsReport, BoardAssumption
     DEF IdleStaff, IdleImporter, StaffState, ImporterState

LEMMA RetiredMonths ==
  ASSUME NEW M, M \subseteq Monthly
  PROVE  /\ {[m EXCEPT !.status = "superseded", !.current = FALSE] : m \in M} \subseteq Monthly
         /\ Retired(M) \subseteq Monthly
<1>1. ASSUME NEW m \in Monthly
      PROVE  [m EXCEPT !.status = "superseded", !.current = FALSE] \in Monthly
  BY DEF Monthly
<1>2. ASSUME NEW m \in Monthly
      PROVE  [m EXCEPT !.status = IF m.current THEN "superseded" ELSE @,
                       !.current = FALSE] \in Monthly
  BY DEF Monthly
<1>3. {[m EXCEPT !.status = IF m.current THEN "superseded" ELSE @, !.current = FALSE] : m \in M}
         \subseteq Monthly
  BY <1>2
<1> QED
  BY <1>1, <1>3 DEF Retired

LEMMA TypeStep ==
  ASSUME BoardTypeOK, Elections, [BoardNext]_boardVars
  PROVE  BoardTypeOK'
<1>1. ASSUME NEW s \in Staff, NEW r \in Reports, NEW target \in Keys(observations) \cup {NoTarget},
             ConfirmReport(s, [date |-> r.date, figures |-> r.figures, facts |-> r.facts,
                               month |-> r.month, supersedes |-> target])
      PROVE  BoardTypeOK'
  <2> DEFINE report == [date |-> r.date, figures |-> r.figures, facts |-> r.facts,
                        month |-> r.month, supersedes |-> target]
  <2>1. target \in (0..MaxRuns) \X Nat
    BY BoardAssumption DEF BoardTypeOK, Observation, Keys, NoTarget, Run
  <2>2. report \in Report
    BY <2>1, BoardAssumption DEF Report
  <2> HIDE DEF report
  <2>3. nextRun \in 0..MaxRuns /\ nextRun' \in 1..(MaxRuns + 1)
    BY <1>1, BoardAssumption DEF ConfirmReport, BoardTypeOK
  <2>4. [IdleStaff EXCEPT !.pc = "write", !.run = nextRun, !.report = report] \in StaffState
    BY <2>2, <2>3, IdleIsTyped DEF StaffState
  <2>5. staff' = [staff EXCEPT ![s] =
                    [IdleStaff EXCEPT !.pc = "write", !.run = nextRun, !.report = report]]
    BY <1>1 DEF ConfirmReport, report
  <2>6. staff' \in [Staff -> StaffState]
    BY <2>4, <2>5 DEF BoardTypeOK
  <2> QED
    BY <1>1, <2>3, <2>6 DEF ConfirmReport, BoardTypeOK
<1>2. ASSUME NEW s \in Staff, WriteRows(s)
      PROVE  BoardTypeOK'
  <2> DEFINE month == {m \in monthly : m.month = staff[s].report.date /\ m.current}
             retired == IF staff[s].report.month THEN month ELSE {}
             target == {staff[s].report.supersedes} \ {NoTarget}
             seen == Keys(On(Live(observations), staff[s].report.date)) \ target
  <2>1. staff' = [staff EXCEPT ![s] = [staff[s] EXCEPT !.pc = "elect", !.retired = retired,
                                                       !.locked = target, !.seen = seen]]
    BY <1>2 DEF WriteRows, BoardTypeOK
  <2>2. staff[s] \in StaffState
    BY DEF BoardTypeOK
  <2>3. retired \subseteq Monthly
    BY DEF BoardTypeOK
  <2>4. target \subseteq (0..MaxRuns) \X Nat
    BY <2>2 DEF StaffState, Report
  <2>5. seen \subseteq (0..MaxRuns) \X Nat
    <3>1. \A o \in observations : o.pk \in (0..MaxRuns) \X Nat
      BY BoardAssumption DEF BoardTypeOK, Observation, Run
    <3> QED
      BY <3>1 DEF Keys, On, Live
  <2> HIDE DEF retired, target, seen
  <2>6. [staff[s] EXCEPT !.pc = "elect", !.retired = retired, !.locked = target, !.seen = seen]
           \in StaffState
    BY <2>2, <2>3, <2>4, <2>5 DEF StaffState
  <2>7. staff' \in [Staff -> StaffState]
    BY <2>1, <2>6 DEF BoardTypeOK
  <2> QED
    BY <1>2, <2>7 DEF WriteRows, BoardTypeOK
<1>3. ASSUME NEW s \in Staff, CommitReport(s)
      PROVE  BoardTypeOK'
  <2>1. StaffAt(s, "elect")
    BY <1>3 DEF CommitReport
  <2>2. observations' \subseteq Observation
    BY <1>3, <2>1, CommitRows, AfterIs
  <2>3. monthly' \subseteq Monthly
    <3>1. monthly' = MonthlyPublished(s)
      BY <1>3 DEF CommitReport
    <3>2. staff[s].retired \subseteq Monthly /\ monthly \subseteq Monthly
      BY DEF BoardTypeOK, StaffState
    <3>3. [run |-> staff[s].run, month |-> staff[s].report.date,
           status |-> "manual_verified", current |-> TRUE] \in Monthly
      BY <2>1 DEF Monthly, BoardTypeOK, StaffState, Report, Elections, OpenRequests, StaffAt
    <3> QED
      BY <3>1, <3>2, <3>3, RetiredMonths DEF MonthlyPublished
  <2>4. staff' \in [Staff -> StaffState]
    BY <1>3, IdleIsTyped DEF CommitReport, BoardTypeOK
  <2>5. orphaned' \subseteq Dates /\ passedOver' \subseteq Run \X Nat
    BY <1>3 DEF CommitReport, BoardTypeOK, Unelected
  <2> QED
    BY <1>3, <2>2, <2>3, <2>4, <2>5 DEF CommitReport, BoardTypeOK
<1>4. ASSUME NEW s \in Staff, AbortReport(s)
      PROVE  BoardTypeOK'
  BY <1>4, IdleIsTyped DEF AbortReport, BoardTypeOK
<1>5. ASSUME NEW pkg \in Packages, NEW supersede \in BOOLEAN, BeginImport(pkg, supersede)
      PROVE  BoardTypeOK'
  BY <1>5 DEF BeginImport, BoardTypeOK, ImporterState
<1>6. CASE GuardHistory
  <2>1. Keys(Live(observations)) \subseteq Run \X Nat
    BY DEF BoardTypeOK, Observation, Keys, Live
  <2>2. importer' \in ImporterState
    BY <1>6, <2>1, IdleIsTyped DEF GuardHistory, BoardTypeOK, ImporterState
  <2> QED
    BY <1>6, <2>2 DEF GuardHistory, BoardTypeOK
<1>7. CASE WriteHistory
  <2>1. importer.package \in Packages /\ nextRun \in Run
    BY <1>7, ImportRows
  <2>2. observations' \subseteq Observation
    BY <1>7, <2>1, ImportRows, PackageRowsElected
  <2>3. monthly' \subseteq Monthly
    <3>1. PackageMonthly(importer.package, nextRun) \subseteq Monthly
      <4>1. importer.package.months \subseteq Dates
        BY <2>1, BoardAssumption
      <4>2. ASSUME NEW d \in Dates
            PROVE  [run |-> nextRun, month |-> d, current |-> TRUE,
                    status |-> IF d \in importer.package.conflicts THEN "conflict" ELSE "verified"]
                      \in Monthly
        BY <2>1 DEF Monthly
      <4> QED
        BY <4>1, <4>2 DEF PackageMonthly
    <3> QED
      BY <1>7, <3>1, RetiredMonths DEF WriteHistory, BoardTypeOK
  <2>4. batches' \subseteq Batch
    <3>1. \A b \in Batch : [b EXCEPT !.status = "superseded"] \in Batch
      BY DEF Batch
    <3>2. RetiredBatches(batches) \subseteq Batch
      BY <3>1 DEF RetiredBatches, BoardTypeOK
    <3> QED
      BY <1>7, <2>1, <3>2 DEF WriteHistory, Batch
  <2>5. nextRun' \in 1..(MaxRuns + 1)
    BY <1>7, <2>1, BoardAssumption DEF WriteHistory, Run
  <2>6. imported' \subseteq Packages /\ importer' \in ImporterState /\ orphaned' \subseteq Dates
    BY <1>7, <2>1, IdleIsTyped DEF WriteHistory, BoardTypeOK, Unelected
  <2>7. passedOver' \subseteq Run \X Nat
    BY <1>7 DEF WriteHistory, BoardTypeOK, Overlooked, Keys, Live, Observation
  <2> QED
    BY <1>7, <2>2, <2>3, <2>4, <2>5, <2>6, <2>7 DEF WriteHistory, BoardTypeOK
<1>8. CASE ImportFails
  BY <1>8, IdleIsTyped DEF ImportFails, BoardTypeOK
<1>9. CASE UNCHANGED boardVars
  BY <1>9 DEF boardVars, BoardTypeOK
<1> QED
  BY <1>1, <1>2, <1>3, <1>4, <1>5, <1>6, <1>7, <1>8, <1>9 DEF BoardNext

-----------------------------------------------------------------------------
(* The invariants. *)

LEMMA ElectionsStart ==
  ASSUME BoardInit
  PROVE  BoardTypeOK /\ Elections /\ Generations
<1>1. \A s \in Staff : staff[s] = IdleStaff
  BY DEF BoardInit
<1>2. BoardTypeOK
  BY IdleIsTyped, BoardAssumption DEF BoardInit, BoardTypeOK
<1>3. Elections
  BY <1>1 DEF BoardInit, Elections, KeysAreSpent, RowsAreShaped, OpenRequests, LocksHeld,
       SeenIsOfDate, NothingMissedBehindLock, ImportHolds, ElectedOrOrphaned,
       Unelected, OnePreferredPerDate, PreferredIsBest, ReportedOnce, IdleStaff, IdleImporter,
       On, Live
<1>4. Generations
  BY DEF BoardInit, Generations, LiveBatches, IdleImporter
<1> QED
  BY <1>2, <1>3, <1>4

\* Steps that leave the rows alone, and move one request.
LEMMA RequestKeepsElections ==
  ASSUME BoardTypeOK, Elections, NEW s \in Staff,
         UNCHANGED <<observations, importer, orphaned, passedOver>>,
         NEW st, staff' = [staff EXCEPT ![s] = st],
         KeysAreSpent', OpenRequests',
         st.pc # "elect" => st.locked = {},
         st.locked \subseteq Keys(observations),
         \A t \in Staff \ {s} : staff[t].locked \cap st.locked = {},
         st.pc = "elect" =>
            /\ st.seen \cap st.locked = {}
            /\ st.seen \subseteq Keys(observations)
            /\ \A o \in observations : o.pk \in st.seen <=>
                  o \in Live(observations) /\ o.date = st.report.date /\ o.pk \notin st.locked
  PROVE  Elections'
<1>1. staff'[s] = st /\ \A t \in Staff \ {s} : staff'[t] = staff[t]
  BY DEF BoardTypeOK
<1>2. Keys(observations)' = Keys(observations)
  BY DEF Keys
<1>3. LocksHeld'
  BY <1>1, <1>2 DEF Elections, LocksHeld
<1>4. SeenIsOfDate'
  BY <1>1, <1>2 DEF Elections, SeenIsOfDate
<1>5. \A t \in Staff \ {s} : Missed(t)' = Missed(t)
  BY <1>1 DEF Missed, On, Live
<1>6. st.pc = "elect" => Missed(s)' = {}
  BY <1>1 DEF Missed, On, Live
<1>8. NothingMissedBehindLock'
  BY <1>1, <1>5, <1>6 DEF Elections, NothingMissedBehindLock
<1>9. RowsAreShaped' /\ ImportHolds' /\ ElectedOrOrphaned' /\ ReportedOnce'
      /\ OnePreferredPerDate(observations')
  BY DEF Elections, RowsAreShaped, ImportHolds, ElectedOrOrphaned, Unelected, ReportedOnce,
         Keys, Live, On, OnePreferredPerDate
<1>10. PreferredIsBest'
  BY DEF Elections, PreferredIsBest, On, Live
<1> QED
  BY <1>3, <1>4, <1>8, <1>9, <1>10 DEF Elections

\* Steps of the import that write nothing.
LEMMA ReadingKeepsElections ==
  ASSUME BoardTypeOK, Elections, UNCHANGED <<observations, nextRun, staff, orphaned, passedOver>>, ImportHolds'
  PROVE  Elections'
<1>1. /\ KeysAreSpent' /\ RowsAreShaped' /\ OpenRequests' /\ LocksHeld' /\ SeenIsOfDate'
      /\ ElectedOrOrphaned' /\ OnePreferredPerDate(observations') /\ ReportedOnce'
  BY DEF Elections, KeysAreSpent, RowsAreShaped, OpenRequests, LocksHeld, SeenIsOfDate,
         ElectedOrOrphaned, Unelected, On, Live, Keys, ReportedOnce, OnePreferredPerDate
<1>2. \A t \in Staff : Missed(t)' = Missed(t)
  BY DEF Missed, On, Live
<1>3. NothingMissedBehindLock'
  BY <1>2 DEF Elections, NothingMissedBehindLock
<1>4. PreferredIsBest'
  BY DEF Elections, PreferredIsBest, On, Live
<1> QED
  BY <1>1, <1>3, <1>4 DEF Elections

LEMMA ElectionsStep ==
  ASSUME BoardTypeOK, Elections, [BoardNext]_boardVars
  PROVE  Elections'
<1>0. staff \in [Staff -> StaffState]
  BY DEF BoardTypeOK
<1>1. ASSUME NEW s \in Staff, NEW report,
             report.supersedes \in Keys(observations) \cup {NoTarget},
             ConfirmReport(s, report)
      PROVE  Elections'
  <2> DEFINE st == [IdleStaff EXCEPT !.pc = "write", !.run = nextRun, !.report = report]
  <2>1. /\ staff' = [staff EXCEPT ![s] = st] /\ nextRun' = nextRun + 1
        /\ UNCHANGED <<observations, importer, orphaned, passedOver>>
        /\ nextRun <= MaxRuns
    BY <1>1 DEF ConfirmReport
  <2>2. st.pc = "write" /\ st.run = nextRun /\ st.report = report /\ st.locked = {}
    BY DEF IdleStaff
  <2> HIDE DEF st
  <2>3. staff'[s] = st /\ \A t \in Staff \ {s} : staff'[t] = staff[t]
    BY <1>0, <2>1
  <2>4. nextRun \in Run /\ nextRun \in Nat
    BY <2>1, BoardAssumption DEF BoardTypeOK, Run
  <2>5. \A o \in observations : o.pk[1] \in Nat /\ o.pk[1] < nextRun
    BY BoardAssumption DEF BoardTypeOK, Observation, Run, Elections, KeysAreSpent
  <2>6. KeysAreSpent'
    BY <2>1, <2>4, <2>5 DEF Elections, KeysAreSpent
  <2>7. OpenRequests'
    <3>1. ASSUME NEW t \in Staff, staff'[t].pc # "idle"
          PROVE  /\ staff'[t].run \in Run /\ staff'[t].run < nextRun'
                 /\ \A o \in observations : o.pk[1] # staff'[t].run
                 /\ staff'[t].report.supersedes \in Keys(observations) \cup {NoTarget}
      <4>1. CASE t = s
        BY <1>1, <2>1, <2>2, <2>3, <2>4, <2>5, <4>1
      <4>2. CASE t # s
        <5>1. /\ staff[t].run \in Run /\ staff[t].run < nextRun
              /\ \A o \in observations : o.pk[1] # staff[t].run
              /\ staff[t].report.supersedes \in Keys(observations) \cup {NoTarget}
          BY <2>3, <3>1, <4>2 DEF Elections, OpenRequests
        <5> QED
          BY <2>1, <2>3, <2>4, <4>2, <5>1, BoardAssumption DEF Run
      <4> QED
        BY <4>1, <4>2
    <3>2. ASSUME NEW t \in Staff, t # s, staff[t].pc # "idle"
          PROVE  staff[t].run # nextRun
      <4>1. staff[t].run \in Run /\ staff[t].run < nextRun
        BY <3>2 DEF Elections, OpenRequests
      <4> QED
        BY <2>4, <4>1, BoardAssumption DEF Run
    <3>3. ASSUME NEW t \in Staff, NEW u \in Staff, t # u,
                 staff'[t].pc # "idle", staff'[u].pc # "idle"
          PROVE  staff'[t].run # staff'[u].run
      <4>1. CASE t = s
        BY <2>2, <2>3, <3>2, <3>3, <4>1
      <4>2. CASE u = s
        BY <2>2, <2>3, <3>2, <3>3, <4>2
      <4>3. CASE t # s /\ u # s
        <5>1. staff'[t] = staff[t] /\ staff'[u] = staff[u]
          BY <2>3, <4>3
        <5> QED
          BY <3>3, <5>1 DEF Elections, OpenRequests
      <4> QED
        BY <4>1, <4>2, <4>3
    <3>4. Keys(observations)' = Keys(observations)
      BY <2>1 DEF Keys
    <3> QED
      BY <2>1, <3>1, <3>3, <3>4 DEF OpenRequests
  <2> QED
    BY <2>1, <2>2, <2>6, <2>7, RequestKeepsElections
<1>2. ASSUME NEW s \in Staff, WriteRows(s)
      PROVE  Elections'
  <2> DEFINE month == {m \in monthly : m.month = staff[s].report.date /\ m.current}
             retired == IF staff[s].report.month THEN month ELSE {}
             target == {staff[s].report.supersedes} \ {NoTarget}
             seen == Keys(On(Live(observations), staff[s].report.date)) \ target
             st == [staff[s] EXCEPT !.pc = "elect", !.retired = retired,
                                    !.locked = target, !.seen = seen]
  <2>1. /\ staff' = [staff EXCEPT ![s] = st] /\ StaffAt(s, "write")
        /\ UNCHANGED <<observations, importer, orphaned, passedOver, nextRun>>
        /\ target \cap LockedByOthers(s) = {}
    BY <1>0, <1>2 DEF WriteRows
  <2>2. staff[s] \in StaffState
    BY <1>0
  <2> HIDE DEF retired
  <2>3. /\ st.pc = "elect" /\ st.run = staff[s].run /\ st.report = staff[s].report
        /\ st.locked = target /\ st.seen = seen
    BY <2>2 DEF StaffState
  <2> HIDE DEF st
  <2>4. staff'[s] = st /\ \A t \in Staff \ {s} : staff'[t] = staff[t]
    BY <1>0, <2>1
  <2>5. Keys(observations)' = Keys(observations)
    BY <2>1 DEF Keys
  <2>6. KeysAreSpent' /\ OpenRequests'
    <3>1. \A t \in Staff : /\ staff'[t].run = staff[t].run
                           /\ staff'[t].report = staff[t].report
                           /\ staff'[t].pc = "idle" <=> staff[t].pc = "idle"
      BY <2>1, <2>3, <2>4 DEF StaffAt
    <3> QED
      BY <2>1, <2>5, <3>1 DEF Elections, KeysAreSpent, OpenRequests
  <2>7. target \subseteq Keys(observations)
    BY <2>1 DEF Elections, OpenRequests, StaffAt
  <2>8. \A t \in Staff \ {s} : staff[t].locked \cap target = {}
    BY <2>1 DEF LockedByOthers
  <2>9. seen \subseteq Keys(observations)
    BY DEF Keys, On, Live
  <2>10. \A o \in observations : o.pk \in seen <=>
            o \in Live(observations) /\ o.date = staff[s].report.date /\ o.pk \notin target
    BY DEF Keys, On, Live, Elections, KeysAreSpent
  <2>11. seen \cap target = {}
    OBVIOUS
  <2> HIDE DEF seen, target
  <2> QED
    BY <2>1, <2>3, <2>6, <2>7, <2>8, <2>9, <2>10, <2>11, RequestKeepsElections
<1>3. ASSUME NEW s \in Staff, AbortReport(s)
      PROVE  Elections'
  <2>1. /\ staff' = [staff EXCEPT ![s] = IdleStaff]
        /\ UNCHANGED <<observations, importer, orphaned, passedOver, nextRun>>
    BY <1>3 DEF AbortReport
  <2>2. staff'[s] = IdleStaff /\ \A t \in Staff \ {s} : staff'[t] = staff[t]
    BY <1>0, <2>1
  <2>3. IdleStaff.pc = "idle" /\ IdleStaff.locked = {}
    BY DEF IdleStaff
  <2>4. KeysAreSpent' /\ OpenRequests'
    <3>1. Keys(observations)' = Keys(observations)
      BY <2>1 DEF Keys
    <3> QED
      BY <2>1, <2>2, <2>3, <3>1 DEF Elections, KeysAreSpent, OpenRequests
  <2> QED
    BY <2>1, <2>3, <2>4, RequestKeepsElections
<1>4. ASSUME NEW pkg \in Packages, NEW supersede \in BOOLEAN, BeginImport(pkg, supersede)
      PROVE  Elections'
  BY <1>4, ReadingKeepsElections DEF BeginImport, ImportHolds
<1>5. CASE GuardHistory
  <2>1. importer'.pc = "write" => importer'.seen = Keys(Live(observations))
    BY <1>5 DEF GuardHistory, IdleImporter, BoardTypeOK, ImporterState
  <2>2. UNCHANGED <<observations, nextRun, staff, orphaned, passedOver>>
    BY <1>5 DEF GuardHistory
  <2>3. ImportHolds'
    BY <2>1, <2>2 DEF ImportHolds, Keys, Live
  <2> QED
    BY <2>2, <2>3, ReadingKeepsElections
<1>6. CASE ImportFails
  <2>1. importer'.pc = "idle"
    BY <1>6 DEF ImportFails, IdleImporter
  <2> QED
    BY <1>6, <2>1, ReadingKeepsElections DEF ImportFails, ImportHolds
<1>7. CASE UNCHANGED boardVars
  <2>1. UNCHANGED <<observations, nextRun, staff, orphaned, passedOver, importer>>
    BY <1>7 DEF boardVars
  <2>2. ImportHolds'
    BY <2>1 DEF Elections, ImportHolds, Keys, Live
  <2> QED
    BY <2>1, <2>2, ReadingKeepsElections
<1>8. ASSUME NEW s \in Staff, NEW r \in Reports, NEW target \in Keys(observations) \cup {NoTarget},
             ConfirmReport(s, [date |-> r.date, figures |-> r.figures, facts |-> r.facts,
                               month |-> r.month, supersedes |-> target])
      PROVE  Elections'
  <2> DEFINE report == [date |-> r.date, figures |-> r.figures, facts |-> r.facts,
                        month |-> r.month, supersedes |-> target]
  <2>1. report.supersedes \in Keys(observations) \cup {NoTarget}
    OBVIOUS
  <2>2. ConfirmReport(s, report)
    BY <1>8
  <2> HIDE DEF report
  <2> QED
    BY <1>1, <2>1, <2>2
<1> QED
  BY <1>2, <1>3, <1>4, <1>5, <1>6, <1>7, <1>8, CommitKeepsElections, ImportKeepsElections
     DEF BoardNext

\* The batches: what is drawn has rows, provided no package is empty.  (A
\* package without observations leaves batches that the next import's guard does
\* not see.)
LEMMA GenerationsStep ==
  ASSUME \A pkg \in Packages : pkg.rows # {},
         BoardTypeOK, Elections, Generations, OneGeneration, [BoardNext]_boardVars
  PROVE  Generations' /\ OneGeneration'
<1>1. ASSUME UNCHANGED <<batches, observations>>,
             importer'.pc = "write" /\ importer'.seen = {} => LiveBatches = {}
      PROVE  Generations' /\ OneGeneration'
  BY <1>1 DEF Generations, OneGeneration, LiveBatches, Live
<1>2. ASSUME UNCHANGED <<batches, observations, importer>>
      PROVE  Generations' /\ OneGeneration'
  BY <1>2 DEF Generations, OneGeneration, LiveBatches, Live
<1>3. ASSUME NEW s \in Staff, NEW report,
             \/ ConfirmReport(s, report) \/ WriteRows(s) \/ AbortReport(s)
      PROVE  Generations' /\ OneGeneration'
  BY <1>2, <1>3 DEF ConfirmReport, WriteRows, AbortReport
<1>4. ASSUME NEW s \in Staff, CommitReport(s)
      PROVE  Generations' /\ OneGeneration'
  <2>1. UNCHANGED <<batches, importer>> /\ StaffAt(s, "elect")
    BY <1>4 DEF CommitReport
  <2>2. PICK w \in observations' : w.quality # "superseded"
    <3>1. Winner(s) \in Candidates(s) /\ Winner(s) \in Before(s)
      BY <2>1, CandidatesElect
    <3>2. Winner(s).quality # "superseded" /\ Winner(s).pk \notin staff[s].locked
      BY <2>1, <3>1, CandidatesElect
    <3> QED
      BY <1>4, <2>1, <3>1, <3>2, CommitRows, AfterIs
  <2>3. Live(observations)' # {}
    BY <2>2 DEF Live
  <2> QED
    BY <2>1, <2>3 DEF Generations, OneGeneration, LiveBatches
<1>5. ASSUME NEW pkg \in Packages, NEW supersede \in BOOLEAN, BeginImport(pkg, supersede)
      PROVE  Generations' /\ OneGeneration'
  BY <1>1, <1>5 DEF BeginImport
<1>6. CASE GuardHistory
  <2>1. UNCHANGED <<batches, observations>>
    BY <1>6 DEF GuardHistory
  <2>2. importer'.pc = "write" => importer'.seen = Keys(Live(observations))
    BY <1>6 DEF GuardHistory, IdleImporter, BoardTypeOK, ImporterState
  <2>3. importer'.pc = "write" /\ importer'.seen = {} => LiveBatches = {}
    BY <2>2 DEF Generations, Keys
  <2> QED
    BY <1>1, <2>1, <2>3
<1>7. CASE WriteHistory
  <2> DEFINE P == PackageObservations(importer.package, nextRun)
             new == [run |-> nextRun, status |-> "verified"]
  <2>1. importer'.pc = "idle" /\ importer.pc = "write"
    BY <1>7 DEF WriteHistory, IdleImporter
  <2>2. PICK o \in P : o.quality # "superseded"
    <3>1. importer.package \in Packages /\ nextRun \in Run
      BY <1>7, ImportRows
    <3> QED
      BY <3>1, PackageRowsElected
  <2>3. Live(observations)' # {}
    <3>1. o \in observations'
      BY <1>7, <2>2 DEF WriteHistory
    <3> QED
      BY <2>2, <3>1 DEF Live
  <2>4. LiveBatches' \subseteq {new}
    <3>1. batches' = RetiredBatches(batches) \cup {new}
      BY <1>7 DEF WriteHistory
    <3>2. \A b \in RetiredBatches(batches) : b.status = "superseded"
      <4>1. CASE importer.seen = {}
        BY <2>1, <4>1 DEF Generations, LiveBatches, RetiredBatches
      <4>2. CASE importer.seen # {}
        <5>1. \A b \in batches : [b EXCEPT !.status = "superseded"].status = "superseded"
          BY DEF BoardTypeOK, Batch
        <5> QED
          BY <4>2, <5>1 DEF RetiredBatches
      <4> QED
        BY <4>1, <4>2
    <3> QED
      BY <3>1, <3>2 DEF LiveBatches
  <2>5. Generations'
    BY <2>1, <2>3 DEF Generations
  <2>6. OneGeneration'
    BY <2>4 DEF OneGeneration, LiveBatches
  <2> QED
    BY <2>5, <2>6
<1>8. CASE ImportFails
  <2>1. importer'.pc = "idle" /\ UNCHANGED <<batches, observations>>
    BY <1>8 DEF ImportFails, IdleImporter
  <2> QED
    BY <1>1, <2>1
<1>9. CASE UNCHANGED boardVars
  BY <1>2, <1>9 DEF boardVars
<1> QED
  BY <1>3, <1>4, <1>5, <1>6, <1>7, <1>8, <1>9 DEF BoardNext

-----------------------------------------------------------------------------
(* The theorems. *)

THEOREM ElectionsInvariant ==
  BoardSpec => [](BoardTypeOK /\ Elections)
<1>1. BoardInit => BoardTypeOK /\ Elections
  BY ElectionsStart
<1>2. (BoardTypeOK /\ Elections) /\ [BoardNext]_boardVars => (BoardTypeOK /\ Elections)'
  BY TypeStep, ElectionsStep
<1> QED
  BY <1>1, <1>2, PTL DEF BoardSpec

\* Two sessions and an import at once, the preferred row of a date is the best
\* one there is and no report is published twice (choose_preferred,
\* _existing_observation), for any number of sessions, dates, reports, packages
\* and runs.
THEOREM PreferredRowIsBest ==
  BoardSpec => [](PreferredIsBest /\ ReportedOnce)
<1>1. Elections => PreferredIsBest /\ ReportedOnce
  BY DEF Elections
<1> QED
  BY <1>1, ElectionsInvariant, PTL

\* ... and what is drawn beside the observations belongs to one history, when
\* every package has a row (the guard of history_import looks at observations
\* only).
THEOREM BoardHistoryAlwaysStands ==
  ASSUME \A pkg \in Packages : pkg.rows # {}
  PROVE  BoardSpec => []BoardHistoryStands
<1> DEFINE I == BoardTypeOK /\ Elections /\ Generations /\ OneGeneration
<1>1. BoardInit => I
  <2>1. BoardInit => OneGeneration
    BY DEF BoardInit, OneGeneration
  <2> QED
    BY <2>1, ElectionsStart
<1>2. I /\ [BoardNext]_boardVars => I'
  BY TypeStep, ElectionsStep, GenerationsStep
<1>3. I => BoardHistoryStands
  BY DEF Elections, BoardHistoryStands
<1> HIDE DEF I
<1> QED
  BY <1>1, <1>2, <1>3, PTL DEF BoardSpec

-----------------------------------------------------------------------------
(* The packages of the history: what is stored of an accepted one. *)

\* What a package is, whatever was added to it.
IsPackage(p) ==
    /\ PackageTables \cup {"version"} \subseteq DOMAIN p
    /\ \A t \in PackageTables : p[t] \in Seq(TableRow)

\* The keys of an accepted package's tables, and the parents of their rows.
TablesAreKeyed(p) ==
    /\ \A i, j \in DOMAIN p.snapshots : p.snapshots[i].id = p.snapshots[j].id => i = j
    /\ \A i, j \in DOMAIN p.months :
          p.months[i].year = p.months[j].year /\ p.months[i].month = p.months[j].month => i = j
    /\ \A i, j \in DOMAIN p.movements :
          /\ p.movements[i].source = p.movements[j].source
          /\ p.movements[i].date = p.movements[j].date
          /\ p.movements[i].direction = p.movements[j].direction
          /\ p.movements[i].band = p.movements[j].band
          => i = j
    /\ \A i, j \in DOMAIN p.reasons :
          /\ p.reasons[i].source = p.reasons[j].source
          /\ p.reasons[i].date = p.reasons[j].date
          /\ p.reasons[i].reason = p.reasons[j].reason
          /\ p.reasons[i].label = p.reasons[j].label
          => i = j

LaterTablesAreKeyed(p) ==
    /\ \A i, j \in DOMAIN p.batches : p.batches[i].id = p.batches[j].id => i = j
    /\ \A i, j \in DOMAIN p.periods : p.periods[i].id = p.periods[j].id => i = j
    /\ \A i, j \in DOMAIN p.batch_sizes :
          /\ p.batch_sizes[i].batch = p.batch_sizes[j].batch
          /\ p.batch_sizes[i].band = p.batch_sizes[j].band
          => i = j
    /\ \A i, j \in DOMAIN p.batch_reasons :
          /\ p.batch_reasons[i].batch = p.batch_reasons[j].batch
          /\ p.batch_reasons[i].reason = p.batch_reasons[j].reason
          => i = j
    /\ \A i, j \in DOMAIN p.sizes :
          /\ p.sizes[i].period = p.sizes[j].period /\ p.sizes[i].year = p.sizes[j].year
          /\ p.sizes[i].month = p.sizes[j].month /\ p.sizes[i].band = p.sizes[j].band
          => i = j

ParentOf(p, r) ==
    IF r.period # NoId THEN r.period \in Ids(p.periods)
    ELSE \E m \in Range(p.months) : m.year = r.year /\ m.month = r.month

ParentsAreThere(p) ==
    /\ \A r \in Range(p.batch_sizes) : r.batch \in Ids(p.batches)
    /\ \A r \in Range(p.batch_reasons) : r.batch \in Ids(p.batches)
    /\ \A r \in Range(p.sizes) : ParentOf(p, r)

\* What a package of the first version says of the later tables is not read.
LEMMA ParsedTables ==
  ASSUME NEW p, IsPackage(p)
  PROVE  /\ IsPackage(Parsed(p))
         /\ \A t \in PackageTables :
               Parsed(p)[t] = IF p.version = "1.0" /\ t \in V2Tables THEN <<>> ELSE p[t]
<1> DEFINE q == [p EXCEPT !.batches = <<>>, !.batch_sizes = <<>>, !.batch_reasons = <<>>,
                          !.periods = <<>>, !.sizes = <<>>]
<1>1. /\ DOMAIN q = DOMAIN p
      /\ \A t \in DOMAIN p : q[t] = IF t \in V2Tables THEN <<>> ELSE p[t]
  BY DEF V2Tables
<1>2. Parsed(p) = IF p.version # "1.0" THEN p ELSE q
  BY DEF Parsed
<1> HIDE DEF q
<1>3. <<>> \in Seq(TableRow)
  OBVIOUS
<1>4. CASE p.version # "1.0"
  BY <1>2, <1>4
<1>5. CASE p.version = "1.0"
  BY <1>1, <1>2, <1>3, <1>5 DEF IsPackage
<1> QED BY <1>4, <1>5

LEMMA AcceptedIsKeyed ==
  ASSUME NEW p, IsPackage(p), ReadHistory(p)
  PROVE  TablesAreKeyed(Parsed(p)) /\ LaterTablesAreKeyed(Parsed(p)) /\ ParentsAreThere(Parsed(p))
<1> DEFINE q == Parsed(p)
<1>1. \A t \in PackageTables :
         q[t] = IF p.version = "1.0" /\ t \in V2Tables THEN <<>> ELSE p[t]
  BY ParsedTables
<1>2. /\ q.snapshots = p.snapshots /\ q.months = p.months /\ q.movements = p.movements
      /\ q.reasons = p.reasons
  BY <1>1 DEF PackageTables, V1Tables, V2Tables
<1>3. p.version = "1.0" =>
         /\ q.batches = <<>> /\ q.periods = <<>> /\ q.batch_sizes = <<>>
         /\ q.batch_reasons = <<>> /\ q.sizes = <<>>
  BY <1>1 DEF PackageTables, V1Tables, V2Tables
<1>4. p.version # "1.0" =>
         /\ q.batches = p.batches /\ q.periods = p.periods /\ q.batch_sizes = p.batch_sizes
         /\ q.batch_reasons = p.batch_reasons /\ q.sizes = p.sizes
  BY <1>1 DEF PackageTables, V1Tables, V2Tables
<1> HIDE DEF q
<1>5. TablesAreKeyed(p)
  <2>1. \A i, j \in DOMAIN p.snapshots : p.snapshots[i].id = p.snapshots[j].id => i = j
    BY DEF ReadHistory, ParseSnapshots, UniqueKeys
  <2>2. \A i, j \in DOMAIN p.months :
          p.months[i].year = p.months[j].year /\ p.months[i].month = p.months[j].month => i = j
    BY DEF ReadHistory, ParseMonthly, UniqueKeys
  <2>3. \A i, j \in DOMAIN p.movements :
          /\ p.movements[i].source = p.movements[j].source
          /\ p.movements[i].date = p.movements[j].date
          /\ p.movements[i].direction = p.movements[j].direction
          /\ p.movements[i].band = p.movements[j].band
          => i = j
    BY DEF ReadHistory, ParseMovements, UniqueKeys
  <2>4. \A i, j \in DOMAIN p.reasons :
          /\ p.reasons[i].source = p.reasons[j].source
          /\ p.reasons[i].date = p.reasons[j].date
          /\ p.reasons[i].reason = p.reasons[j].reason
          /\ p.reasons[i].label = p.reasons[j].label
          => i = j
    BY DEF ReadHistory, ParseRemovalReasons, UniqueKeys
  <2> QED BY <2>1, <2>2, <2>3, <2>4 DEF TablesAreKeyed
<1>6. TablesAreKeyed(q)
  BY <1>2, <1>5 DEF TablesAreKeyed
<1>7. LaterTablesAreKeyed(q)
  <2>1. CASE p.version = "1.0"
    BY <1>3, <2>1 DEF LaterTablesAreKeyed
  <2>2. CASE p.version # "1.0"
    <3>1. ParseV2Tables(p)
      BY DEF ReadHistory
    <3>2. /\ \A i, j \in DOMAIN p.batches : p.batches[i].id = p.batches[j].id => i = j
          /\ \A i, j \in DOMAIN p.periods : p.periods[i].id = p.periods[j].id => i = j
      BY <2>2, <3>1 DEF ParseV2Tables, ParseDecisionBatches, ParseNewMemberPeriods, UniqueKeys
    <3>3. \A i, j \in DOMAIN p.batch_sizes :
             /\ p.batch_sizes[i].batch = p.batch_sizes[j].batch
             /\ p.batch_sizes[i].band = p.batch_sizes[j].band
             => i = j
      BY <2>2, <3>1 DEF ParseV2Tables, ParseDecisionBatchSizes, UniqueKeys
    <3>4. \A i, j \in DOMAIN p.batch_reasons :
             /\ p.batch_reasons[i].batch = p.batch_reasons[j].batch
             /\ p.batch_reasons[i].reason = p.batch_reasons[j].reason
             => i = j
      BY <2>2, <3>1 DEF ParseV2Tables, ParseDecisionBatchReasons, UniqueKeys
    <3>5. \A i, j \in DOMAIN p.sizes :
             /\ p.sizes[i].period = p.sizes[j].period /\ p.sizes[i].year = p.sizes[j].year
             /\ p.sizes[i].month = p.sizes[j].month /\ p.sizes[i].band = p.sizes[j].band
             => i = j
      BY <2>2, <3>1 DEF ParseV2Tables, ParseNewMemberSizes, UniqueKeys
    <3> QED BY <1>4, <2>2, <3>2, <3>3, <3>4, <3>5 DEF LaterTablesAreKeyed
  <2> QED BY <2>1, <2>2
<1>8. ParentsAreThere(q)
  <2>1. CASE p.version = "1.0"
    BY <1>3, <2>1 DEF ParentsAreThere, Range
  <2>2. CASE p.version # "1.0"
    BY <1>2, <1>4, <2>2 DEF ParentsAreThere, ReadHistory, CheckReferences, ParentOf
  <2> QED BY <2>1, <2>2
<1> QED BY <1>6, <1>7, <1>8 DEF q

\* Rows that differ from each other are as many as the places they come from.
LEMMA CountOfRows ==
  ASSUME NEW n \in Nat, NEW f, \A i, j \in 1..n : f[i] = f[j] => i = j
  PROVE  Cardinality({f[i] : i \in 1..n}) = n
<1> DEFINE S == {f[i] : i \in 1..n}
           g == [i \in 1..n |-> f[i]]
<1>1. g \in [1..n -> S]
  OBVIOUS
<1>2. \A i, j \in 1..n : g[i] = g[j] => i = j
  OBVIOUS
<1>3. \A x \in S : \E i \in 1..n : g[i] = x
  OBVIOUS
<1> HIDE DEF g, S
<1>4. g \in Bijection(1..n, S)
  BY <1>1, <1>2, <1>3 DEF Bijection, Injection, Surjection, IsInjective
<1>5. ExistsBijection(1..n, S)
  BY <1>4 DEF ExistsBijection
<1> QED BY <1>5, FS_CountingElements DEF S

LEMMA CountOfImage ==
  ASSUME NEW t \in Seq(TableRow), NEW S, NEW f,
         \A i \in 1..Len(t) : f[i] \in S,
         \A x \in S : \E i \in 1..Len(t) : x = f[i],
         \A i, j \in 1..Len(t) : f[i] = f[j] => i = j
  PROVE  Cardinality(S) = Len(t)
<1>1. Len(t) \in Nat
  OBVIOUS
<1>2. S = {f[i] : i \in 1..Len(t)}
  OBVIOUS
<1> DEFINE n == Len(t)
<1>3. n \in Nat /\ \A i, j \in 1..n : f[i] = f[j] => i = j
  BY <1>1
<1> HIDE DEF n
<1>4. Cardinality({f[i] : i \in 1..n}) = n
  BY <1>3, CountOfRows
<1> QED BY <1>2, <1>4 DEF n

\* The rows of a sequence and its places.
LEMMA PlacesOfRows ==
  ASSUME NEW t \in Seq(TableRow)
  PROVE  /\ DOMAIN t = 1..Len(t) /\ Len(t) \in Nat
         /\ \A i \in 1..Len(t) : t[i] \in Range(t)
         /\ \A r \in Range(t) : \E i \in 1..Len(t) : r = t[i]
  BY DEF Range

\* The rows of one run.
RunRows(rows, run) == {r \in rows : r.run = run}

\* Dated rows as they are written, and after their retirement.
FactsOf(t, suffix, run, live) ==
    {[id |-> r.id, suffix |-> suffix, run |-> run, live |-> live] : r \in Range(t)}
MonthsOf(t, run, live) ==
    {[year |-> r.year, month |-> r.month, run |-> run, live |-> live] : r \in Range(t)}

LEMMA CountOfFacts ==
  ASSUME NEW t \in Seq(TableRow), \A i, j \in DOMAIN t : t[i].id = t[j].id => i = j,
         NEW suffix, NEW run, NEW live
  PROVE  Cardinality(FactsOf(t, suffix, run, live)) = Len(t)
<1> DEFINE f == [i \in 1..Len(t) |-> [id |-> t[i].id, suffix |-> suffix, run |-> run, live |-> live]]
<1>1. DOMAIN t = 1..Len(t) /\ Len(t) \in Nat
  OBVIOUS
<1>2. \A i \in 1..Len(t) : f[i].id = t[i].id
  OBVIOUS
<1>3. \A i, j \in 1..Len(t) : f[i] = f[j] => i = j
  BY <1>1, <1>2
<1>4. FactsOf(t, suffix, run, live) = {f[i] : i \in 1..Len(t)}
  BY <1>1 DEF FactsOf, Range
<1> HIDE DEF f
<1> QED BY <1>1, <1>3, <1>4, CountOfRows

LEMMA CountOfMonths ==
  ASSUME NEW t \in Seq(TableRow),
         \A i, j \in DOMAIN t : t[i].year = t[j].year /\ t[i].month = t[j].month => i = j,
         NEW run, NEW live
  PROVE  Cardinality(MonthsOf(t, run, live)) = Len(t)
<1> DEFINE f == [i \in 1..Len(t) |-> [year |-> t[i].year, month |-> t[i].month, run |-> run,
                                      live |-> live]]
<1>1. DOMAIN t = 1..Len(t) /\ Len(t) \in Nat
  OBVIOUS
<1>2. \A i \in 1..Len(t) : f[i].year = t[i].year /\ f[i].month = t[i].month
  OBVIOUS
<1>3. \A i, j \in 1..Len(t) : f[i] = f[j] => i = j
  BY <1>1, <1>2
<1>4. MonthsOf(t, run, live) = {f[i] : i \in 1..Len(t)}
  BY <1>1 DEF MonthsOf, Range
<1> HIDE DEF f
<1> QED BY <1>1, <1>3, <1>4, CountOfRows

\* A movement's parent is the reading of its own document and date.
LEMMA DirectParents ==
  ASSUME NEW p, IsPackage(p), TablesAreKeyed(p), ChildrenBelong(p)
  PROVE  \A r \in Range(p.movements) \cup Range(p.reasons) :
            \E x \in Range(p.snapshots) :
               /\ DirectOf(p, r) = x.id
               /\ x.source = r.source /\ ObservationDate(x) = r.date
<1> SUFFICES ASSUME NEW r \in Range(p.movements) \cup Range(p.reasons)
             PROVE  \E x \in Range(p.snapshots) :
                       /\ DirectOf(p, r) = x.id
                       /\ x.source = r.source /\ ObservationDate(x) = r.date
  OBVIOUS
<1> DEFINE x == CHOOSE y \in DirectFor(p, r) : TRUE
<1>1. x \in DirectFor(p, r)
  BY DEF ChildrenBelong
<1>2. DirectOf(p, r) = x.id
  BY DEF DirectOf
<1> HIDE DEF x
<1>3. x \in Range(p.snapshots) /\ x.source = r.source /\ ObservationDate(x) = r.date
  BY <1>1 DEF DirectFor, DirectSnapshots
<1> QED BY <1>2, <1>3

\* Two children with one parent are of one document and date.
LEMMA ParentsTellApart ==
  ASSUME NEW p, IsPackage(p), TablesAreKeyed(p), ChildrenBelong(p),
         NEW r \in Range(p.movements) \cup Range(p.reasons),
         NEW q \in Range(p.movements) \cup Range(p.reasons),
         DirectOf(p, r) = DirectOf(p, q)
  PROVE  r.source = q.source /\ r.date = q.date
<1>1. PICK x \in Range(p.snapshots) :
         /\ DirectOf(p, r) = x.id /\ x.source = r.source /\ ObservationDate(x) = r.date
  BY DirectParents
<1>2. PICK y \in Range(p.snapshots) :
         /\ DirectOf(p, q) = y.id /\ y.source = q.source /\ ObservationDate(y) = q.date
  BY DirectParents
<1>3. PICK i \in DOMAIN p.snapshots : p.snapshots[i] = x
  BY DEF Range
<1>4. PICK j \in DOMAIN p.snapshots : p.snapshots[j] = y
  BY DEF Range
<1>6. p.snapshots[i].id = p.snapshots[j].id
  BY <1>1, <1>2, <1>3, <1>4
<1>7. \A k, l \in DOMAIN p.snapshots : p.snapshots[k].id = p.snapshots[l].id => k = l
  BY DEF TablesAreKeyed
<1>5. i = j
  BY <1>6, <1>7
<1> QED BY <1>1, <1>2, <1>3, <1>4, <1>5

LEMMA TablesAreSequences ==
  ASSUME NEW p, IsPackage(p)
  PROVE  /\ \A t \in {p.snapshots, p.months, p.movements, p.reasons, p.warnings, p.conflicts} :
               t \in Seq(TableRow) /\ DOMAIN t = 1..Len(t) /\ Len(t) \in Nat
         /\ \A t \in {p.batches, p.batch_sizes, p.batch_reasons, p.periods, p.sizes} :
               t \in Seq(TableRow) /\ DOMAIN t = 1..Len(t) /\ Len(t) \in Nat
<1>1. \A t \in PackageTables : p[t] \in Seq(TableRow)
  BY DEF IsPackage
<1>2. /\ p.snapshots \in Seq(TableRow) /\ p.months \in Seq(TableRow)
      /\ p.movements \in Seq(TableRow) /\ p.reasons \in Seq(TableRow)
      /\ p.warnings \in Seq(TableRow) /\ p.conflicts \in Seq(TableRow)
  BY <1>1 DEF PackageTables, V1Tables
<1>3. /\ p.batches \in Seq(TableRow) /\ p.batch_sizes \in Seq(TableRow)
      /\ p.batch_reasons \in Seq(TableRow) /\ p.periods \in Seq(TableRow)
      /\ p.sizes \in Seq(TableRow)
  BY <1>1 DEF PackageTables, V2Tables
<1>4. \A t \in Seq(TableRow) : DOMAIN t = 1..Len(t) /\ Len(t) \in Nat
  OBVIOUS
<1> QED BY <1>2, <1>3, <1>4

LEMMA CountOfChildren ==
  ASSUME NEW p, IsPackage(p), TablesAreKeyed(p), ChildrenBelong(p), NEW run
  PROVE  /\ Cardinality(NewMovements(p, run)) = Len(p.movements)
         /\ Cardinality(NewReasons(p, run)) = Len(p.reasons)
<1>1. /\ DOMAIN p.movements = 1..Len(p.movements) /\ Len(p.movements) \in Nat
      /\ DOMAIN p.reasons = 1..Len(p.reasons) /\ Len(p.reasons) \in Nat
  BY TablesAreSequences
<1>2. Cardinality(NewMovements(p, run)) = Len(p.movements)
  <2> DEFINE t == p.movements
             f == [i \in 1..Len(t) |-> [run |-> run, parent |-> DirectOf(p, t[i]),
                                        direction |-> t[i].direction, band |-> t[i].band]]
  <2>1. \A i \in 1..Len(t) : /\ f[i].parent = DirectOf(p, t[i])
                             /\ f[i].direction = t[i].direction /\ f[i].band = t[i].band
    OBVIOUS
  <2>2. t \in Seq(TableRow)
    BY TablesAreSequences
  <2>3. /\ \A i \in 1..Len(t) : t[i] \in Range(t)
        /\ \A r \in Range(t) : \E i \in 1..Len(t) : r = t[i]
    BY <2>2, PlacesOfRows
  <2>5. \A i \in 1..Len(t) : f[i] \in NewMovements(p, run)
    BY <2>3 DEF NewMovements
  <2>6. \A x \in NewMovements(p, run) : \E i \in 1..Len(t) : x = f[i]
    BY <2>3 DEF NewMovements
  <2> HIDE DEF f
  <2>4. ASSUME NEW i \in 1..Len(t), NEW j \in 1..Len(t), f[i] = f[j]
        PROVE  i = j
    <3>1. t[i].source = t[j].source /\ t[i].date = t[j].date
      BY <2>1, <2>3, <2>4, ParentsTellApart
    <3>2. t[i].direction = t[j].direction /\ t[i].band = t[j].band
      BY <2>1, <2>4
    <3> QED BY <1>1, <3>1, <3>2 DEF TablesAreKeyed
  <2> QED BY <2>2, <2>4, <2>5, <2>6, CountOfImage
<1>3. Cardinality(NewReasons(p, run)) = Len(p.reasons)
  <2> DEFINE t == p.reasons
             f == [i \in 1..Len(t) |-> [run |-> run, parent |-> DirectOf(p, t[i]),
                                        reason |-> t[i].reason, label |-> t[i].label]]
  <2>1. \A i \in 1..Len(t) : /\ f[i].parent = DirectOf(p, t[i])
                             /\ f[i].reason = t[i].reason /\ f[i].label = t[i].label
    OBVIOUS
  <2>2. t \in Seq(TableRow)
    BY TablesAreSequences
  <2>3. /\ \A i \in 1..Len(t) : t[i] \in Range(t)
        /\ \A r \in Range(t) : \E i \in 1..Len(t) : r = t[i]
    BY <2>2, PlacesOfRows
  <2>5. \A i \in 1..Len(t) : f[i] \in NewReasons(p, run)
    BY <2>3 DEF NewReasons
  <2>6. \A x \in NewReasons(p, run) : \E i \in 1..Len(t) : x = f[i]
    BY <2>3 DEF NewReasons
  <2> HIDE DEF f
  <2>4. ASSUME NEW i \in 1..Len(t), NEW j \in 1..Len(t), f[i] = f[j]
        PROVE  i = j
    <3>1. t[i].source = t[j].source /\ t[i].date = t[j].date
      BY <2>1, <2>3, <2>4, ParentsTellApart
    <3>2. t[i].reason = t[j].reason /\ t[i].label = t[j].label
      BY <2>1, <2>4
    <3> QED BY <1>1, <3>1, <3>2 DEF TablesAreKeyed
  <2> QED BY <2>2, <2>4, <2>5, <2>6, CountOfImage
<1> QED BY <1>2, <1>3

\* The constraint on the sizes of one period.
OneBandEach(p) ==
    \A r \in Range(p.sizes), s \in Range(p.sizes) :
        r.period # NoId /\ r.period = s.period /\ r.band = s.band => r = s

LEMMA CountOfLaterChildren ==
  ASSUME NEW p, IsPackage(p), LaterTablesAreKeyed(p), ParentsAreThere(p), OneBandEach(p), NEW run
  PROVE  /\ Cardinality(NewBatchSizes(p, run)) = Len(p.batch_sizes)
         /\ Cardinality(NewBatchReasons(p, run)) = Len(p.batch_reasons)
         /\ Cardinality(NewSizes(p, run)) = Len(p.sizes)
<1>1. \A t \in {p.batch_sizes, p.batch_reasons, p.sizes} : DOMAIN t = 1..Len(t) /\ Len(t) \in Nat
  BY TablesAreSequences
<1>2. Cardinality(NewBatchSizes(p, run)) = Len(p.batch_sizes)
  <2> DEFINE t == p.batch_sizes
             f == [i \in 1..Len(t) |-> [run |-> run, parent |-> t[i].batch, band |-> t[i].band]]
  <2>1. \A i \in 1..Len(t) : f[i].parent = t[i].batch /\ f[i].band = t[i].band
    OBVIOUS
  <2>2. t \in Seq(TableRow)
    BY TablesAreSequences
  <2>3. /\ \A i \in 1..Len(t) : t[i] \in Range(t) /\ t[i].batch \in Ids(p.batches)
        /\ \A r \in Range(t) : \E i \in 1..Len(t) : r = t[i]
    BY <2>2, PlacesOfRows DEF ParentsAreThere
  <2>5. \A i \in 1..Len(t) : f[i] \in NewBatchSizes(p, run)
    BY <2>3 DEF NewBatchSizes
  <2>6. \A x \in NewBatchSizes(p, run) : \E i \in 1..Len(t) : x = f[i]
    BY <2>3 DEF NewBatchSizes
  <2> HIDE DEF f
  <2>4. \A i, j \in 1..Len(t) : f[i] = f[j] => i = j
    BY <1>1, <2>1 DEF LaterTablesAreKeyed
  <2> QED BY <2>2, <2>4, <2>5, <2>6, CountOfImage
<1>3. Cardinality(NewBatchReasons(p, run)) = Len(p.batch_reasons)
  <2> DEFINE t == p.batch_reasons
             f == [i \in 1..Len(t) |-> [run |-> run, parent |-> t[i].batch, reason |-> t[i].reason]]
  <2>1. \A i \in 1..Len(t) : f[i].parent = t[i].batch /\ f[i].reason = t[i].reason
    OBVIOUS
  <2>2. t \in Seq(TableRow)
    BY TablesAreSequences
  <2>3. /\ \A i \in 1..Len(t) : t[i] \in Range(t) /\ t[i].batch \in Ids(p.batches)
        /\ \A r \in Range(t) : \E i \in 1..Len(t) : r = t[i]
    BY <2>2, PlacesOfRows DEF ParentsAreThere
  <2>5. \A i \in 1..Len(t) : f[i] \in NewBatchReasons(p, run)
    BY <2>3 DEF NewBatchReasons
  <2>6. \A x \in NewBatchReasons(p, run) : \E i \in 1..Len(t) : x = f[i]
    BY <2>3 DEF NewBatchReasons
  <2> HIDE DEF f
  <2>4. \A i, j \in 1..Len(t) : f[i] = f[j] => i = j
    BY <1>1, <2>1 DEF LaterTablesAreKeyed
  <2> QED BY <2>2, <2>4, <2>5, <2>6, CountOfImage
<1>4. Cardinality(NewSizes(p, run)) = Len(p.sizes)
  <2> DEFINE t == p.sizes
             parent(r) == IF r.period # NoId THEN <<r.period>> ELSE <<r.year, r.month>>
             f == [i \in 1..Len(t) |-> [run |-> run, band |-> t[i].band, parent |-> parent(t[i])]]
  <2>1. \A i \in 1..Len(t) : f[i].band = t[i].band /\ f[i].parent = parent(t[i])
    OBVIOUS
  <2>2. t \in Seq(TableRow)
    BY TablesAreSequences
  <2>3. /\ \A i \in 1..Len(t) : t[i] \in Range(t) /\ ParentOf(p, t[i])
        /\ \A r \in Range(t) : \E i \in 1..Len(t) : r = t[i]
    BY <2>2, PlacesOfRows DEF ParentsAreThere
  <2>4. NewSizes(p, run) = {[run |-> run, band |-> r.band, parent |-> parent(r)] :
                               r \in {q \in Range(t) : ParentOf(p, q)}}
    BY DEF NewSizes, ParentOf
  <2>5. ASSUME NEW r, NEW q, parent(r) = parent(q)
        PROVE  \/ r.period # NoId /\ r.period = q.period
               \/ r.period = NoId /\ q.period = NoId /\ r.year = q.year /\ r.month = q.month
    <3>1. \A a, b, c : Len(<<a>>) = 1 /\ Len(<<b, c>>) = 2
      OBVIOUS
    <3>2. \A a, b, c : <<a>> # <<b, c>>
      BY <3>1
    <3>3. \A a, b : <<a>>[1] = a /\ <<a, b>>[1] = a /\ <<a, b>>[2] = b
      OBVIOUS
    <3>4. CASE r.period # NoId /\ q.period # NoId
      <4>1. <<r.period>> = <<q.period>>
        BY <2>5, <3>4
      <4>2. r.period = q.period
        BY <3>3, <4>1
      <4> QED BY <3>4, <4>2
    <3>5. CASE r.period # NoId /\ q.period = NoId
      BY <2>5, <3>2, <3>5
    <3>6. CASE r.period = NoId /\ q.period # NoId
      BY <2>5, <3>2, <3>6
    <3>7. CASE r.period = NoId /\ q.period = NoId
      <4>1. <<r.year, r.month>> = <<q.year, q.month>>
        BY <2>5, <3>7
      <4>2. r.year = q.year /\ r.month = q.month
        BY <3>3, <4>1
      <4> QED BY <3>7, <4>2
    <3> QED BY <3>4, <3>5, <3>6, <3>7
  <2> HIDE DEF parent
  <2>7. \A i \in 1..Len(t) : f[i] \in NewSizes(p, run)
    BY <2>3, <2>4
  <2>8. \A x \in NewSizes(p, run) : \E i \in 1..Len(t) : x = f[i]
    BY <2>3, <2>4
  <2> HIDE DEF f
  <2>6. ASSUME NEW i \in 1..Len(t), NEW j \in 1..Len(t), f[i] = f[j]
        PROVE  i = j
    <3>1. t[i].band = t[j].band /\ parent(t[i]) = parent(t[j])
      BY <2>1, <2>6
    <3>2. \/ t[i].period # NoId /\ t[i].period = t[j].period
          \/ /\ t[i].period = NoId /\ t[j].period = NoId
             /\ t[i].year = t[j].year /\ t[i].month = t[j].month
      BY <2>5, <3>1
    <3>3. t[i].period # NoId /\ t[i].period = t[j].period => t[i] = t[j]
      BY <2>3, <3>1 DEF OneBandEach
    <3>4. /\ t[i].period = t[j].period /\ t[i].year = t[j].year
          /\ t[i].month = t[j].month
      BY <3>2, <3>3
    <3> QED BY <1>1, <3>1, <3>4 DEF LaterTablesAreKeyed
  <2> QED BY <2>2, <2>6, <2>7, <2>8, CountOfImage
<1> QED BY <1>2, <1>3, <1>4

LEMMA CountOfIssues ==
  ASSUME NEW p, IsPackage(p), NEW suffix, NEW run
  PROVE  Cardinality(NewIssues(p, suffix, run)) = Len(p.warnings)
<1> DEFINE t == p.warnings
           f == [i \in 1..Len(t) |-> [n |-> i, id |-> t[i].id, suffix |-> suffix, run |-> run]]
<1>1. DOMAIN t = 1..Len(t) /\ Len(t) \in Nat
  BY TablesAreSequences
<1>2. \A i \in 1..Len(t) : f[i].n = i
  OBVIOUS
<1>3. /\ \A i \in 1..Len(t) : f[i] \in NewIssues(p, suffix, run)
      /\ \A x \in NewIssues(p, suffix, run) : \E i \in 1..Len(t) : x = f[i]
  BY <1>1 DEF NewIssues
<1>5. t \in Seq(TableRow)
  BY TablesAreSequences
<1> HIDE DEF f
<1>4. \A i, j \in 1..Len(t) : f[i] = f[j] => i = j
  BY <1>2
<1> QED BY <1>3, <1>4, <1>5, CountOfImage
-----------------------------------------------------------------------------
(* The history: the inductive invariant. *)

Tables == DOMAIN EmptyDatabase
FactTables == {"observations", "batches", "periods"}
RunTables == Tables \ {"documents", "conflicts"}

IsFact(r) == r = [id |-> r.id, suffix |-> r.suffix, run |-> r.run, live |-> r.live]
IsMonth(r) == r = [year |-> r.year, month |-> r.month, run |-> r.run, live |-> r.live]

\* A database whose rows are of runs before the n-th, and which records each
\* dispute once.
IsDatabase(db, n) ==
    /\ DOMAIN db = Tables
    /\ \A t \in FactTables : \A r \in db[t] : IsFact(r)
    /\ \A r \in db.months : IsMonth(r)
    /\ \A t \in RunTables : \A r \in db[t] : r.run \in Nat /\ r.run < n
    /\ \A c, d \in db.conflicts : c.date = d.date /\ c.metric = d.metric => c = d

\* The rows of a run are the tables of its package.
HoldsPackage(db, p, run, suffix, live) ==
    /\ RunRows(db.observations, run) = FactsOf(p.snapshots, suffix, run, live)
    /\ RunRows(db.batches, run) = FactsOf(p.batches, suffix, run, live)
    /\ RunRows(db.periods, run) = FactsOf(p.periods, suffix, run, live)
    /\ RunRows(db.months, run) = MonthsOf(p.months, run, live)
    /\ RunRows(db.movements, run) = NewMovements(p, run)
    /\ RunRows(db.reasons, run) = NewReasons(p, run)
    /\ RunRows(db.issues, run) = NewIssues(p, suffix, run)
    /\ RunRows(db.batch_sizes, run) = NewBatchSizes(p, run)
    /\ RunRows(db.batch_reasons, run) = NewBatchReasons(p, run)
    /\ RunRows(db.sizes, run) = NewSizes(p, run)
    /\ \A c \in Range(p.conflicts) :
          \E d \in db.conflicts : d.date = c.date /\ d.metric = c.metric

\* A package that was imported was accepted, and its rows are there.
ImportStands(db, s) ==
    /\ IsPackage(s.package) /\ ReadHistory(s.package)
    /\ ChildrenBelong(Parsed(s.package)) /\ OneBandEach(Parsed(s.package))
    /\ \E suffix, live : HoldsPackage(db, Parsed(s.package), s.run, suffix, live)

LiveIn(db) == {r \in db.observations : r.live}

\* Where every import brought an observation, the next one finds a history to
\* replace, so what is live is of the last.
OneGenerationLives(db, runs) ==
    (\A s \in Range(runs) : s.package.snapshots # <<>>) =>
        /\ runs # <<>> => LiveIn(db) # {}
        /\ \A t \in FactTables \cup {"months"}, s \in Range(runs) :
              \A r \in db[t] : r.live => r.run >= s.run

HistoryInv ==
    /\ nextImport \in Nat \ {0}
    /\ IsPackage(package)
    /\ imports \in Seq(Range(imports))
    /\ imports = <<>> => stored = EmptyDatabase
    /\ IsDatabase(stored, nextImport)
    /\ \A s \in Range(imports) :
          s.run \in Nat /\ s.run < nextImport /\ ImportStands(stored, s)
    /\ OneGenerationLives(stored, imports)

-----------------------------------------------------------------------------
(* The history: what a generation leaves when it is retired. *)

\* What a retired row says of its life.
Gone == FALSE

RetiredRows(rows) == {[r EXCEPT !.live = Gone] : r \in rows}

LEMMA RetiredFactRows ==
  ASSUME NEW T, \A r \in T : IsFact(r)
  PROVE  /\ \A x \in RetiredRows(T) : IsFact(x) /\ x.live = Gone /\ \E r \in T : x.run = r.run
         /\ \A t, suffix, run, live : RunRows(T, run) = FactsOf(t, suffix, run, live)
               => RunRows(RetiredRows(T), run) = FactsOf(t, suffix, run, Gone)
<1> DEFINE off(r) == [id |-> r.id, suffix |-> r.suffix, run |-> r.run, live |-> Gone]
<1>1. \A r \in T : [r EXCEPT !.live = Gone] = off(r)
  <2>1. ASSUME NEW r \in T PROVE [r EXCEPT !.live = Gone] = off(r)
    <3>1. r = [id |-> r.id, suffix |-> r.suffix, run |-> r.run, live |-> r.live]
      BY DEF IsFact
    <3>2. ASSUME NEW a, NEW b, NEW c, NEW d
          PROVE  [[id |-> a, suffix |-> b, run |-> c, live |-> d] EXCEPT !.live = Gone]
                    = [id |-> a, suffix |-> b, run |-> c, live |-> Gone]
      <4> DEFINE x == [id |-> a, suffix |-> b, run |-> c, live |-> d]
                 y == [x EXCEPT !.live = Gone]
                 z == [id |-> a, suffix |-> b, run |-> c, live |-> Gone]
      <4>1. DOMAIN x = {"id", "suffix", "run", "live"} /\ DOMAIN z = {"id", "suffix", "run", "live"} /\ DOMAIN y = DOMAIN x
        OBVIOUS
      <4>2. \A k \in DOMAIN z : y[k] = z[k]
        OBVIOUS
      <4>3. y = [k \in DOMAIN y |-> y[k]] /\ z = [k \in DOMAIN z |-> z[k]]
        OBVIOUS
      <4> QED BY <4>1, <4>2, <4>3
    <3> QED BY <3>1, <3>2
  <2> QED BY <2>1
<1>3. \A r : /\ off(r).id = r.id /\ off(r).suffix = r.suffix /\ off(r).run = r.run
             /\ off(r).live = Gone /\ IsFact(off(r))
  BY DEF IsFact
<1> HIDE DEF off
<1>2. RetiredRows(T) = {off(r) : r \in T}
  BY <1>1 DEF RetiredRows
<1>4. \A x \in RetiredRows(T) : IsFact(x) /\ x.live = Gone /\ \E r \in T : x.run = r.run
  BY <1>2, <1>3
<1>5. ASSUME NEW t, NEW suffix, NEW run, NEW live,
             RunRows(T, run) = FactsOf(t, suffix, run, live)
      PROVE  RunRows(RetiredRows(T), run) = FactsOf(t, suffix, run, Gone)
  <2> DEFINE fact(q, b) == [id |-> q.id, suffix |-> suffix, run |-> run, live |-> b]
  <2>1. \A q : off(fact(q, live)) = fact(q, Gone)
    BY DEF off
  <2>2. \A b : FactsOf(t, suffix, run, b) = {fact(q, b) : q \in Range(t)}
    BY DEF FactsOf
  <2>3. \A q, b : fact(q, b).run = run
    OBVIOUS
  <2> HIDE DEF fact
  <2>4. ASSUME NEW x \in RunRows(RetiredRows(T), run) PROVE x \in FactsOf(t, suffix, run, Gone)
    <3>1. PICK r \in T : x = off(r)
      BY <1>2 DEF RunRows
    <3>2. r \in RunRows(T, run)
      BY <1>3, <3>1 DEF RunRows
    <3>3. PICK q \in Range(t) : r = fact(q, live)
      BY <1>5, <2>2, <3>2
    <3> QED BY <2>1, <2>2, <3>1, <3>3
  <2>5. ASSUME NEW x \in FactsOf(t, suffix, run, Gone) PROVE x \in RunRows(RetiredRows(T), run)
    <3>1. PICK q \in Range(t) : x = fact(q, Gone)
      BY <2>2
    <3>2. fact(q, live) \in RunRows(T, run)
      BY <1>5, <2>2
    <3>3. fact(q, live) \in T
      BY <3>2 DEF RunRows
    <3> QED BY <1>2, <2>1, <2>3, <3>1, <3>3 DEF RunRows
  <2> QED BY <2>4, <2>5
<1> QED BY <1>4, <1>5

LEMMA RetiredMonthRows ==
  ASSUME NEW T, \A r \in T : IsMonth(r)
  PROVE  /\ \A x \in RetiredRows(T) : IsMonth(x) /\ x.live = Gone /\ \E r \in T : x.run = r.run
         /\ \A t, run, live : RunRows(T, run) = MonthsOf(t, run, live)
               => RunRows(RetiredRows(T), run) = MonthsOf(t, run, Gone)
<1> DEFINE off(r) == [year |-> r.year, month |-> r.month, run |-> r.run, live |-> Gone]
<1>1. \A r \in T : [r EXCEPT !.live = Gone] = off(r)
  <2>1. ASSUME NEW r \in T PROVE [r EXCEPT !.live = Gone] = off(r)
    <3>1. r = [year |-> r.year, month |-> r.month, run |-> r.run, live |-> r.live]
      BY DEF IsMonth
    <3>2. ASSUME NEW a, NEW b, NEW c, NEW d
          PROVE  [[year |-> a, month |-> b, run |-> c, live |-> d] EXCEPT !.live = Gone]
                    = [year |-> a, month |-> b, run |-> c, live |-> Gone]
      <4> DEFINE x == [year |-> a, month |-> b, run |-> c, live |-> d]
                 y == [x EXCEPT !.live = Gone]
                 z == [year |-> a, month |-> b, run |-> c, live |-> Gone]
      <4>1. DOMAIN x = {"year", "month", "run", "live"} /\ DOMAIN z = {"year", "month", "run", "live"} /\ DOMAIN y = DOMAIN x
        OBVIOUS
      <4>2. \A k \in DOMAIN z : y[k] = z[k]
        OBVIOUS
      <4>3. y = [k \in DOMAIN y |-> y[k]] /\ z = [k \in DOMAIN z |-> z[k]]
        OBVIOUS
      <4> QED BY <4>1, <4>2, <4>3
    <3> QED BY <3>1, <3>2
  <2> QED BY <2>1
<1>3. \A r : /\ off(r).year = r.year /\ off(r).month = r.month /\ off(r).run = r.run
             /\ off(r).live = Gone /\ IsMonth(off(r))
  BY DEF IsMonth
<1> HIDE DEF off
<1>2. RetiredRows(T) = {off(r) : r \in T}
  BY <1>1 DEF RetiredRows
<1>4. \A x \in RetiredRows(T) : IsMonth(x) /\ x.live = Gone /\ \E r \in T : x.run = r.run
  BY <1>2, <1>3
<1>5. ASSUME NEW t, NEW run, NEW live, RunRows(T, run) = MonthsOf(t, run, live)
      PROVE  RunRows(RetiredRows(T), run) = MonthsOf(t, run, Gone)
  <2> DEFINE row(q, b) == [year |-> q.year, month |-> q.month, run |-> run, live |-> b]
  <2>1. \A q : off(row(q, live)) = row(q, Gone)
    BY DEF off
  <2>2. \A b : MonthsOf(t, run, b) = {row(q, b) : q \in Range(t)}
    BY DEF MonthsOf
  <2>3. \A q, b : row(q, b).run = run
    OBVIOUS
  <2> HIDE DEF row
  <2>4. ASSUME NEW x \in RunRows(RetiredRows(T), run) PROVE x \in MonthsOf(t, run, Gone)
    <3>1. PICK r \in T : x = off(r)
      BY <1>2 DEF RunRows
    <3>2. r \in RunRows(T, run)
      BY <1>3, <3>1 DEF RunRows
    <3>3. PICK q \in Range(t) : r = row(q, live)
      BY <1>5, <2>2, <3>2
    <3> QED BY <2>1, <2>2, <3>1, <3>3
  <2>5. ASSUME NEW x \in MonthsOf(t, run, Gone) PROVE x \in RunRows(RetiredRows(T), run)
    <3>1. PICK q \in Range(t) : x = row(q, Gone)
      BY <2>2
    <3>2. row(q, live) \in RunRows(T, run)
      BY <1>5, <2>2
    <3>3. row(q, live) \in T
      BY <3>2 DEF RunRows
    <3> QED BY <1>2, <2>1, <2>3, <3>1, <3>3 DEF RunRows
  <2> QED BY <2>4, <2>5
<1> QED BY <1>4, <1>5

LEMMA RetiredTables ==
  ASSUME NEW db, DOMAIN db = Tables
  PROVE  /\ DOMAIN RetireGeneration(db) = Tables
         /\ \A t \in FactTables \cup {"months"} : RetireGeneration(db)[t] = RetiredRows(db[t])
         /\ \A t \in Tables \ (FactTables \cup {"months"}) : RetireGeneration(db)[t] = db[t]
  BY DEF RetireGeneration, RetiredRows, Gone, FactTables, Tables, EmptyDatabase

LEMMA RetirementKeeps ==
  ASSUME NEW db, NEW n, IsDatabase(db, n)
  PROVE  /\ IsDatabase(RetireGeneration(db), n)
         /\ \A s : ImportStands(db, s) => ImportStands(RetireGeneration(db), s)
         /\ \A t \in FactTables \cup {"months"} : \A r \in RetireGeneration(db)[t] : r.live = Gone
<1> DEFINE after == RetireGeneration(db)
<1>1. DOMAIN db = Tables
  BY DEF IsDatabase
<1>2. /\ DOMAIN after = Tables
      /\ \A t \in FactTables \cup {"months"} : after[t] = RetiredRows(db[t])
      /\ \A t \in Tables \ (FactTables \cup {"months"}) : after[t] = db[t]
  BY <1>1, RetiredTables
<1> HIDE DEF after
<1>3. \A t \in FactTables : \A r \in db[t] : IsFact(r)
  BY DEF IsDatabase
<1>4. \A r \in db.months : IsMonth(r)
  BY DEF IsDatabase
<1>5. \A t \in FactTables : \A x \in after[t] :
         IsFact(x) /\ x.live = Gone /\ \E r \in db[t] : x.run = r.run
  <2> SUFFICES ASSUME NEW t \in FactTables
               PROVE  \A x \in after[t] :
                         IsFact(x) /\ x.live = Gone /\ \E r \in db[t] : x.run = r.run
    OBVIOUS
  <2>1. after[t] = RetiredRows(db[t]) /\ \A r \in db[t] : IsFact(r)
    BY <1>2, <1>3
  <2>2. \A x \in RetiredRows(db[t]) : IsFact(x) /\ x.live = Gone /\ \E r \in db[t] : x.run = r.run
    BY <2>1, RetiredFactRows
  <2> QED BY <2>1, <2>2
<1>6. \A x \in after.months : IsMonth(x) /\ x.live = Gone /\ \E r \in db.months : x.run = r.run
  <2>1. after.months = RetiredRows(db.months)
    BY <1>2
  <2>2. \A x \in RetiredRows(db.months) :
           IsMonth(x) /\ x.live = Gone /\ \E r \in db.months : x.run = r.run
    BY <1>4, RetiredMonthRows
  <2> QED BY <2>1, <2>2
<1>7. /\ after.conflicts = db.conflicts /\ after.movements = db.movements
      /\ after.reasons = db.reasons /\ after.issues = db.issues
      /\ after.batch_sizes = db.batch_sizes /\ after.batch_reasons = db.batch_reasons
      /\ after.sizes = db.sizes
  BY <1>2 DEF Tables, EmptyDatabase, FactTables
<1>8. \A t \in RunTables : \A r \in after[t] : r.run \in Nat /\ r.run < n
  <2>1. \A t \in RunTables : \A r \in db[t] : r.run \in Nat /\ r.run < n
    BY DEF IsDatabase
  <2>2. FactTables \cup {"months"} \subseteq RunTables
    BY DEF FactTables, RunTables, Tables, EmptyDatabase
  <2>3. \A t \in RunTables : \A x \in after[t] : \E r \in db[t] : x.run = r.run
    BY <1>2, <1>5, <1>6 DEF RunTables
  <2> QED BY <2>1, <2>3
<1>9. IsDatabase(after, n)
  BY <1>2, <1>5, <1>6, <1>7, <1>8 DEF IsDatabase
<1>10. ASSUME NEW s, ImportStands(db, s) PROVE ImportStands(after, s)
  <2> DEFINE p == Parsed(s.package)
  <2>1. PICK suffix, live : HoldsPackage(db, p, s.run, suffix, live)
    BY <1>10 DEF ImportStands
  <2> HIDE DEF p
  <2>2. /\ after.observations = RetiredRows(db.observations)
        /\ after.batches = RetiredRows(db.batches)
        /\ after.periods = RetiredRows(db.periods)
        /\ after.months = RetiredRows(db.months)
    BY <1>2 DEF FactTables
  <2>3. /\ \A r \in db.observations : IsFact(r)
        /\ \A r \in db.batches : IsFact(r)
        /\ \A r \in db.periods : IsFact(r)
    BY <1>3 DEF FactTables
  <2>4. RunRows(after.observations, s.run) = FactsOf(p.snapshots, suffix, s.run, Gone)
    <3>1. RunRows(db.observations, s.run) = FactsOf(p.snapshots, suffix, s.run, live)
      BY <2>1 DEF HoldsPackage
    <3>2. RunRows(RetiredRows(db.observations), s.run) = FactsOf(p.snapshots, suffix, s.run, Gone)
      BY <2>3, <3>1, RetiredFactRows
    <3> QED BY <2>2, <3>2
  <2>5. RunRows(after.batches, s.run) = FactsOf(p.batches, suffix, s.run, Gone)
    <3>1. RunRows(db.batches, s.run) = FactsOf(p.batches, suffix, s.run, live)
      BY <2>1 DEF HoldsPackage
    <3>2. RunRows(RetiredRows(db.batches), s.run) = FactsOf(p.batches, suffix, s.run, Gone)
      BY <2>3, <3>1, RetiredFactRows
    <3> QED BY <2>2, <3>2
  <2>6. RunRows(after.periods, s.run) = FactsOf(p.periods, suffix, s.run, Gone)
    <3>1. RunRows(db.periods, s.run) = FactsOf(p.periods, suffix, s.run, live)
      BY <2>1 DEF HoldsPackage
    <3>2. RunRows(RetiredRows(db.periods), s.run) = FactsOf(p.periods, suffix, s.run, Gone)
      BY <2>3, <3>1, RetiredFactRows
    <3> QED BY <2>2, <3>2
  <2>7. RunRows(after.months, s.run) = MonthsOf(p.months, s.run, Gone)
    <3>1. RunRows(db.months, s.run) = MonthsOf(p.months, s.run, live)
      BY <2>1 DEF HoldsPackage
    <3>2. RunRows(RetiredRows(db.months), s.run) = MonthsOf(p.months, s.run, Gone)
      BY <1>4, <3>1, RetiredMonthRows
    <3> QED BY <2>2, <3>2
  <2>8. HoldsPackage(after, p, s.run, suffix, Gone)
    BY <1>7, <2>1, <2>4, <2>5, <2>6, <2>7 DEF HoldsPackage
  <2> QED BY <1>10, <2>1, <2>8 DEF ImportStands, p
<1> QED BY <1>5, <1>6, <1>9, <1>10 DEF after
-----------------------------------------------------------------------------
(* The history: what an import adds. *)

Alive == TRUE

LEMMA WrittenTables ==
  ASSUME NEW db, DOMAIN db = Tables, NEW p, NEW suffix, NEW run
  PROVE  LET after == Written(p, db, suffix, run) IN
         /\ DOMAIN after = Tables
         /\ after.observations = db.observations \cup NewFacts(p.snapshots, suffix, run)
         /\ after.batches = db.batches \cup NewFacts(p.batches, suffix, run)
         /\ after.periods = db.periods \cup NewFacts(p.periods, suffix, run)
         /\ after.months = db.months \cup NewMonths(p.months, run)
         /\ after.movements = db.movements \cup NewMovements(p, run)
         /\ after.reasons = db.reasons \cup NewReasons(p, run)
         /\ after.issues = db.issues \cup NewIssues(p, suffix, run)
         /\ after.batch_sizes = db.batch_sizes \cup NewBatchSizes(p, run)
         /\ after.batch_reasons = db.batch_reasons \cup NewBatchReasons(p, run)
         /\ after.sizes = db.sizes \cup NewSizes(p, run)
         /\ after.conflicts = db.conflicts \cup NewConflicts(p, db, run)
  BY DEF Written, Tables, EmptyDatabase

\* The rows that one table gains are new rows of the run.
LEMMA NewRowsAreOfTheRun ==
  ASSUME NEW p, NEW suffix, NEW run
  PROVE  /\ \A x \in NewFacts(p.snapshots, suffix, run) : IsFact(x) /\ x.run = run
         /\ \A x \in NewFacts(p.batches, suffix, run) : IsFact(x) /\ x.run = run
         /\ \A x \in NewFacts(p.periods, suffix, run) : IsFact(x) /\ x.run = run
         /\ \A x \in NewMonths(p.months, run) : IsMonth(x) /\ x.run = run
         /\ \A x \in NewMovements(p, run) : x.run = run
         /\ \A x \in NewReasons(p, run) : x.run = run
         /\ \A x \in NewIssues(p, suffix, run) : x.run = run
         /\ \A x \in NewBatchSizes(p, run) : x.run = run
         /\ \A x \in NewBatchReasons(p, run) : x.run = run
         /\ \A x \in NewSizes(p, run) : x.run = run
<1>1. ASSUME NEW t PROVE \A x \in NewFacts(t, suffix, run) : IsFact(x) /\ x.run = run
  BY DEF NewFacts, Fact, IsFact
<1>2. \A x \in NewMonths(p.months, run) : IsMonth(x) /\ x.run = run
  BY DEF NewMonths, IsMonth
<1>3. \A x \in NewMovements(p, run) : x.run = run
  BY DEF NewMovements
<1>4. \A x \in NewReasons(p, run) : x.run = run
  BY DEF NewReasons
<1>5. \A x \in NewIssues(p, suffix, run) : x.run = run
  BY DEF NewIssues
<1>6. \A x \in NewBatchSizes(p, run) : x.run = run
  BY DEF NewBatchSizes
<1>7. \A x \in NewBatchReasons(p, run) : x.run = run
  BY DEF NewBatchReasons
<1>8. \A x \in NewSizes(p, run) : x.run = run
  BY DEF NewSizes
<1> QED BY <1>1, <1>2, <1>3, <1>4, <1>5, <1>6, <1>7, <1>8

\* The rows of the earlier runs are as they were.
LEMMA WritingKeeps ==
  ASSUME NEW db, DOMAIN db = Tables, NEW p, NEW suffix, NEW run,
         NEW s, ImportStands(db, s), s.run # run
  PROVE  ImportStands(Written(p, db, suffix, run), s)
<1> DEFINE after == Written(p, db, suffix, run)
           q == Parsed(s.package)
<1>1. PICK old, live : HoldsPackage(db, q, s.run, old, live)
  BY DEF ImportStands
<1>2. /\ after.observations = db.observations \cup NewFacts(p.snapshots, suffix, run)
      /\ after.batches = db.batches \cup NewFacts(p.batches, suffix, run)
      /\ after.periods = db.periods \cup NewFacts(p.periods, suffix, run)
      /\ after.months = db.months \cup NewMonths(p.months, run)
      /\ after.movements = db.movements \cup NewMovements(p, run)
      /\ after.reasons = db.reasons \cup NewReasons(p, run)
      /\ after.issues = db.issues \cup NewIssues(p, suffix, run)
      /\ after.batch_sizes = db.batch_sizes \cup NewBatchSizes(p, run)
      /\ after.batch_reasons = db.batch_reasons \cup NewBatchReasons(p, run)
      /\ after.sizes = db.sizes \cup NewSizes(p, run)
      /\ after.conflicts = db.conflicts \cup NewConflicts(p, db, run)
  BY WrittenTables
<1> HIDE DEF after, q
<1>3. /\ RunRows(after.observations, s.run) = RunRows(db.observations, s.run)
      /\ RunRows(after.batches, s.run) = RunRows(db.batches, s.run)
      /\ RunRows(after.periods, s.run) = RunRows(db.periods, s.run)
      /\ RunRows(after.months, s.run) = RunRows(db.months, s.run)
      /\ RunRows(after.movements, s.run) = RunRows(db.movements, s.run)
  <2>1. RunRows(after.observations, s.run) = RunRows(db.observations, s.run)
    <3>1. \A x \in NewFacts(p.snapshots, suffix, run) : x.run = run
      BY DEF NewFacts, Fact
    <3>2. RunRows(db.observations \cup NewFacts(p.snapshots, suffix, run), s.run) = RunRows(db.observations, s.run)
      BY <3>1 DEF RunRows
    <3> QED BY <1>2, <3>2
  <2>2. RunRows(after.batches, s.run) = RunRows(db.batches, s.run)
    <3>1. \A x \in NewFacts(p.batches, suffix, run) : x.run = run
      BY DEF NewFacts, Fact
    <3>2. RunRows(db.batches \cup NewFacts(p.batches, suffix, run), s.run) = RunRows(db.batches, s.run)
      BY <3>1 DEF RunRows
    <3> QED BY <1>2, <3>2
  <2>3. RunRows(after.periods, s.run) = RunRows(db.periods, s.run)
    <3>1. \A x \in NewFacts(p.periods, suffix, run) : x.run = run
      BY DEF NewFacts, Fact
    <3>2. RunRows(db.periods \cup NewFacts(p.periods, suffix, run), s.run) = RunRows(db.periods, s.run)
      BY <3>1 DEF RunRows
    <3> QED BY <1>2, <3>2
  <2>4. RunRows(after.months, s.run) = RunRows(db.months, s.run)
    <3>1. \A x \in NewMonths(p.months, run) : x.run = run
      BY DEF NewMonths
    <3>2. RunRows(db.months \cup NewMonths(p.months, run), s.run) = RunRows(db.months, s.run)
      BY <3>1 DEF RunRows
    <3> QED BY <1>2, <3>2
  <2>5. RunRows(after.movements, s.run) = RunRows(db.movements, s.run)
    <3>1. \A x \in NewMovements(p, run) : x.run = run
      BY DEF NewMovements
    <3>2. RunRows(db.movements \cup NewMovements(p, run), s.run) = RunRows(db.movements, s.run)
      BY <3>1 DEF RunRows
    <3> QED BY <1>2, <3>2
  <2> QED BY <2>1, <2>2, <2>3, <2>4, <2>5
<1>4. /\ RunRows(after.reasons, s.run) = RunRows(db.reasons, s.run)
      /\ RunRows(after.issues, s.run) = RunRows(db.issues, s.run)
      /\ RunRows(after.batch_sizes, s.run) = RunRows(db.batch_sizes, s.run)
      /\ RunRows(after.batch_reasons, s.run) = RunRows(db.batch_reasons, s.run)
      /\ RunRows(after.sizes, s.run) = RunRows(db.sizes, s.run)
  <2>1. RunRows(after.reasons, s.run) = RunRows(db.reasons, s.run)
    <3>1. \A x \in NewReasons(p, run) : x.run = run
      BY DEF NewReasons
    <3>2. RunRows(db.reasons \cup NewReasons(p, run), s.run) = RunRows(db.reasons, s.run)
      BY <3>1 DEF RunRows
    <3> QED BY <1>2, <3>2
  <2>2. RunRows(after.issues, s.run) = RunRows(db.issues, s.run)
    <3>1. \A x \in NewIssues(p, suffix, run) : x.run = run
      BY DEF NewIssues
    <3>2. RunRows(db.issues \cup NewIssues(p, suffix, run), s.run) = RunRows(db.issues, s.run)
      BY <3>1 DEF RunRows
    <3> QED BY <1>2, <3>2
  <2>3. RunRows(after.batch_sizes, s.run) = RunRows(db.batch_sizes, s.run)
    <3>1. \A x \in NewBatchSizes(p, run) : x.run = run
      BY DEF NewBatchSizes
    <3>2. RunRows(db.batch_sizes \cup NewBatchSizes(p, run), s.run) = RunRows(db.batch_sizes, s.run)
      BY <3>1 DEF RunRows
    <3> QED BY <1>2, <3>2
  <2>4. RunRows(after.batch_reasons, s.run) = RunRows(db.batch_reasons, s.run)
    <3>1. \A x \in NewBatchReasons(p, run) : x.run = run
      BY DEF NewBatchReasons
    <3>2. RunRows(db.batch_reasons \cup NewBatchReasons(p, run), s.run) = RunRows(db.batch_reasons, s.run)
      BY <3>1 DEF RunRows
    <3> QED BY <1>2, <3>2
  <2>5. RunRows(after.sizes, s.run) = RunRows(db.sizes, s.run)
    <3>1. \A x \in NewSizes(p, run) : x.run = run
      BY DEF NewSizes
    <3>2. RunRows(db.sizes \cup NewSizes(p, run), s.run) = RunRows(db.sizes, s.run)
      BY <3>1 DEF RunRows
    <3> QED BY <1>2, <3>2
  <2> QED BY <2>1, <2>2, <2>3, <2>4, <2>5
<1>5. HoldsPackage(after, q, s.run, old, live)
  BY <1>1, <1>2, <1>3, <1>4 DEF HoldsPackage
<1> QED BY <1>5 DEF ImportStands, after, q

\* The rows of this run are its package's.
LEMMA WritingStores ==
  ASSUME NEW db, NEW n, IsDatabase(db, n), n \in Nat, NEW q, IsPackage(q), ReadHistory(q),
         ChildrenBelong(Parsed(q)), OneBandEach(Parsed(q)), NEW suffix
  PROVE  ImportStands(Written(Parsed(q), db, suffix, n), [run |-> n, package |-> q])
<1> DEFINE p == Parsed(q)
           after == Written(p, db, suffix, n)
<1>1. DOMAIN db = Tables
  BY DEF IsDatabase
<1>2. /\ after.observations = db.observations \cup NewFacts(p.snapshots, suffix, n)
      /\ after.batches = db.batches \cup NewFacts(p.batches, suffix, n)
      /\ after.periods = db.periods \cup NewFacts(p.periods, suffix, n)
      /\ after.months = db.months \cup NewMonths(p.months, n)
      /\ after.movements = db.movements \cup NewMovements(p, n)
      /\ after.reasons = db.reasons \cup NewReasons(p, n)
      /\ after.issues = db.issues \cup NewIssues(p, suffix, n)
      /\ after.batch_sizes = db.batch_sizes \cup NewBatchSizes(p, n)
      /\ after.batch_reasons = db.batch_reasons \cup NewBatchReasons(p, n)
      /\ after.sizes = db.sizes \cup NewSizes(p, n)
      /\ after.conflicts = db.conflicts \cup NewConflicts(p, db, n)
  BY <1>1, WrittenTables
<1> HIDE DEF after, p
<1>3. \A t \in RunTables : \A r \in db[t] : r.run # n
  BY DEF IsDatabase
<1>4. /\ \A r \in db.observations : r.run # n
      /\ \A r \in db.batches : r.run # n
      /\ \A r \in db.periods : r.run # n
      /\ \A r \in db.months : r.run # n
      /\ \A r \in db.movements : r.run # n
      /\ \A r \in db.reasons : r.run # n
      /\ \A r \in db.issues : r.run # n
      /\ \A r \in db.batch_sizes : r.run # n
      /\ \A r \in db.batch_reasons : r.run # n
      /\ \A r \in db.sizes : r.run # n
  BY <1>3 DEF RunTables, Tables, EmptyDatabase
<1>5. /\ RunRows(after.observations, n) = NewFacts(p.snapshots, suffix, n)
      /\ RunRows(after.batches, n) = NewFacts(p.batches, suffix, n)
      /\ RunRows(after.periods, n) = NewFacts(p.periods, suffix, n)
      /\ RunRows(after.months, n) = NewMonths(p.months, n)
      /\ RunRows(after.movements, n) = NewMovements(p, n)
  <2>1. RunRows(after.observations, n) = NewFacts(p.snapshots, suffix, n)
    <3>1. \A x \in NewFacts(p.snapshots, suffix, n) : x.run = n
      BY DEF NewFacts, Fact
    <3>2. RunRows(db.observations \cup NewFacts(p.snapshots, suffix, n), n) = NewFacts(p.snapshots, suffix, n)
      BY <1>4, <3>1 DEF RunRows
    <3> QED BY <1>2, <3>2
  <2>2. RunRows(after.batches, n) = NewFacts(p.batches, suffix, n)
    <3>1. \A x \in NewFacts(p.batches, suffix, n) : x.run = n
      BY DEF NewFacts, Fact
    <3>2. RunRows(db.batches \cup NewFacts(p.batches, suffix, n), n) = NewFacts(p.batches, suffix, n)
      BY <1>4, <3>1 DEF RunRows
    <3> QED BY <1>2, <3>2
  <2>3. RunRows(after.periods, n) = NewFacts(p.periods, suffix, n)
    <3>1. \A x \in NewFacts(p.periods, suffix, n) : x.run = n
      BY DEF NewFacts, Fact
    <3>2. RunRows(db.periods \cup NewFacts(p.periods, suffix, n), n) = NewFacts(p.periods, suffix, n)
      BY <1>4, <3>1 DEF RunRows
    <3> QED BY <1>2, <3>2
  <2>4. RunRows(after.months, n) = NewMonths(p.months, n)
    <3>1. \A x \in NewMonths(p.months, n) : x.run = n
      BY DEF NewMonths
    <3>2. RunRows(db.months \cup NewMonths(p.months, n), n) = NewMonths(p.months, n)
      BY <1>4, <3>1 DEF RunRows
    <3> QED BY <1>2, <3>2
  <2>5. RunRows(after.movements, n) = NewMovements(p, n)
    <3>1. \A x \in NewMovements(p, n) : x.run = n
      BY DEF NewMovements
    <3>2. RunRows(db.movements \cup NewMovements(p, n), n) = NewMovements(p, n)
      BY <1>4, <3>1 DEF RunRows
    <3> QED BY <1>2, <3>2
  <2> QED BY <2>1, <2>2, <2>3, <2>4, <2>5
<1>6. /\ RunRows(after.reasons, n) = NewReasons(p, n)
      /\ RunRows(after.issues, n) = NewIssues(p, suffix, n)
      /\ RunRows(after.batch_sizes, n) = NewBatchSizes(p, n)
      /\ RunRows(after.batch_reasons, n) = NewBatchReasons(p, n)
      /\ RunRows(after.sizes, n) = NewSizes(p, n)
  <2>1. RunRows(after.reasons, n) = NewReasons(p, n)
    <3>1. \A x \in NewReasons(p, n) : x.run = n
      BY DEF NewReasons
    <3>2. RunRows(db.reasons \cup NewReasons(p, n), n) = NewReasons(p, n)
      BY <1>4, <3>1 DEF RunRows
    <3> QED BY <1>2, <3>2
  <2>2. RunRows(after.issues, n) = NewIssues(p, suffix, n)
    <3>1. \A x \in NewIssues(p, suffix, n) : x.run = n
      BY DEF NewIssues
    <3>2. RunRows(db.issues \cup NewIssues(p, suffix, n), n) = NewIssues(p, suffix, n)
      BY <1>4, <3>1 DEF RunRows
    <3> QED BY <1>2, <3>2
  <2>3. RunRows(after.batch_sizes, n) = NewBatchSizes(p, n)
    <3>1. \A x \in NewBatchSizes(p, n) : x.run = n
      BY DEF NewBatchSizes
    <3>2. RunRows(db.batch_sizes \cup NewBatchSizes(p, n), n) = NewBatchSizes(p, n)
      BY <1>4, <3>1 DEF RunRows
    <3> QED BY <1>2, <3>2
  <2>4. RunRows(after.batch_reasons, n) = NewBatchReasons(p, n)
    <3>1. \A x \in NewBatchReasons(p, n) : x.run = n
      BY DEF NewBatchReasons
    <3>2. RunRows(db.batch_reasons \cup NewBatchReasons(p, n), n) = NewBatchReasons(p, n)
      BY <1>4, <3>1 DEF RunRows
    <3> QED BY <1>2, <3>2
  <2>5. RunRows(after.sizes, n) = NewSizes(p, n)
    <3>1. \A x \in NewSizes(p, n) : x.run = n
      BY DEF NewSizes
    <3>2. RunRows(db.sizes \cup NewSizes(p, n), n) = NewSizes(p, n)
      BY <1>4, <3>1 DEF RunRows
    <3> QED BY <1>2, <3>2
  <2> QED BY <2>1, <2>2, <2>3, <2>4, <2>5
<1>7. /\ NewFacts(p.snapshots, suffix, n) = FactsOf(p.snapshots, suffix, n, Alive)
      /\ NewFacts(p.batches, suffix, n) = FactsOf(p.batches, suffix, n, Alive)
      /\ NewFacts(p.periods, suffix, n) = FactsOf(p.periods, suffix, n, Alive)
      /\ NewMonths(p.months, n) = MonthsOf(p.months, n, Alive)
  BY DEF NewFacts, Fact, NewMonths, FactsOf, MonthsOf, Alive
<1>8. \A c \in Range(p.conflicts) :
         \E d \in after.conflicts : d.date = c.date /\ d.metric = c.metric
  <2> SUFFICES ASSUME NEW c \in Range(p.conflicts)
               PROVE  \E d \in after.conflicts : d.date = c.date /\ d.metric = c.metric
    OBVIOUS
  <2>1. CASE \E d \in db.conflicts : d.date = c.date /\ d.metric = c.metric
    BY <1>2, <2>1
  <2>2. CASE ~\E d \in db.conflicts : d.date = c.date /\ d.metric = c.metric
    <3> DEFINE e == [date |-> c.date, metric |-> c.metric, run |-> n]
    <3>1. e.date = c.date /\ e.metric = c.metric
      OBVIOUS
    <3>2. e \in NewConflicts(p, db, n)
      BY <2>2 DEF NewConflicts
    <3> HIDE DEF e
    <3> QED BY <1>2, <3>1, <3>2
  <2> QED BY <2>1, <2>2
<1>9. HoldsPackage(after, p, n, suffix, Alive)
  BY <1>5, <1>6, <1>7, <1>8 DEF HoldsPackage
<1> DEFINE s == [run |-> n, package |-> q]
<1>10. s.run = n /\ s.package = q
  OBVIOUS
<1> HIDE DEF s
<1>11. ImportStands(after, s)
  BY <1>9, <1>10 DEF ImportStands, p
<1> QED BY <1>11 DEF s, after, p

\* A dispute is recorded once, however many packages name it.
LEMMA DisputesStayApart ==
  ASSUME NEW db, NEW n, IsDatabase(db, n), NEW p, NEW documents,
         ParseConflicts(p.conflicts, documents), NEW run
  PROVE  \A c, d \in db.conflicts \cup NewConflicts(p, db, run) :
            c.date = d.date /\ c.metric = d.metric => c = d
<1> DEFINE new == NewConflicts(p, db, run)
<1>1. \A c, d \in db.conflicts : c.date = d.date /\ c.metric = d.metric => c = d
  BY DEF IsDatabase
<1>2. \A c \in new : /\ \E r \in Range(p.conflicts) :
                            c = [date |-> r.date, metric |-> r.metric, run |-> run]
                     /\ \A d \in db.conflicts : d.date # c.date \/ d.metric # c.metric
  BY DEF NewConflicts
<1>3. \A c \in new : c = [date |-> c.date, metric |-> c.metric, run |-> run]
  BY <1>2
<1> HIDE DEF new
<1>4. \A c, d \in new : c.date = d.date /\ c.metric = d.metric => c = d
  BY <1>3
<1> QED BY <1>1, <1>2, <1>4 DEF new

LEMMA WritingIsDatabase ==
  ASSUME NEW db, NEW n \in Nat, IsDatabase(db, n), NEW q, ReadHistory(q), IsPackage(q), NEW suffix
  PROVE  IsDatabase(Written(Parsed(q), db, suffix, n), n + 1)
<1> DEFINE p == Parsed(q)
           after == Written(p, db, suffix, n)
<1>1. DOMAIN db = Tables
  BY DEF IsDatabase
<1>2. /\ DOMAIN after = Tables
      /\ after.observations = db.observations \cup NewFacts(p.snapshots, suffix, n)
      /\ after.batches = db.batches \cup NewFacts(p.batches, suffix, n)
      /\ after.periods = db.periods \cup NewFacts(p.periods, suffix, n)
      /\ after.months = db.months \cup NewMonths(p.months, n)
      /\ after.movements = db.movements \cup NewMovements(p, n)
      /\ after.reasons = db.reasons \cup NewReasons(p, n)
      /\ after.issues = db.issues \cup NewIssues(p, suffix, n)
      /\ after.batch_sizes = db.batch_sizes \cup NewBatchSizes(p, n)
      /\ after.batch_reasons = db.batch_reasons \cup NewBatchReasons(p, n)
      /\ after.sizes = db.sizes \cup NewSizes(p, n)
      /\ after.conflicts = db.conflicts \cup NewConflicts(p, db, n)
  BY <1>1, WrittenTables
<1>3. p.conflicts = q.conflicts
  BY ParsedTables DEF PackageTables, V1Tables, V2Tables
<1>4. ParseConflicts(p.conflicts, q.documents)
  BY <1>3 DEF ReadHistory
<1> HIDE DEF after, p
<1>5. \A c, d \in after.conflicts : c.date = d.date /\ c.metric = d.metric => c = d
  BY <1>2, <1>4, DisputesStayApart
<1>6. \A r \in after.months : IsMonth(r)
  BY <1>2, NewRowsAreOfTheRun DEF IsDatabase
<1>7. \A t \in FactTables : \A r \in after[t] : IsFact(r)
  BY <1>2, NewRowsAreOfTheRun DEF IsDatabase, FactTables
<1>8. \A t \in RunTables : \A r \in after[t] : r.run \in Nat /\ r.run < n + 1
  <2>1. \A t \in RunTables : \A r \in db[t] : r.run \in Nat /\ r.run < n
    BY DEF IsDatabase
  <2>2. RunTables = {"observations", "movements", "reasons", "months", "issues",
                     "batches", "batch_sizes", "batch_reasons", "periods", "sizes"}
    BY DEF RunTables, Tables, EmptyDatabase
  <2>3. \A t \in RunTables : \A r \in after[t] : r \in db[t] \/ r.run = n
    BY <1>2, <2>2, NewRowsAreOfTheRun
  <2> QED BY <2>1, <2>3
<1> QED BY <1>2, <1>5, <1>6, <1>7, <1>8 DEF IsDatabase, after, p
-----------------------------------------------------------------------------
(* The history: its steps. *)

LEMMA PackagesArePackages == \A p \in HistoryPackages : IsPackage(p)
  BY PackageAssumption DEF IsPackage

LEMMA EmptyIsDatabase == IsDatabase(EmptyDatabase, 1)
<1>1. \A t \in Tables : EmptyDatabase[t] = {}
  BY DEF Tables, EmptyDatabase
<1>2. /\ FactTables \subseteq Tables /\ RunTables \subseteq Tables
      /\ "months" \in Tables /\ "conflicts" \in Tables
  BY DEF FactTables, RunTables, Tables, EmptyDatabase
<1> QED BY <1>1, <1>2 DEF IsDatabase, Tables

LEMMA HistoryStarts == HistoryInit => HistoryInv
<1> SUFFICES ASSUME HistoryInit PROVE HistoryInv
  OBVIOUS
<1>1. /\ package \in HistoryPackages /\ stored = EmptyDatabase
      /\ nextImport = 1 /\ imports = <<>>
  BY DEF HistoryInit
<1>2. Range(imports) = {} /\ imports \in Seq(Range(imports))
  BY <1>1 DEF Range
<1>3. IsPackage(package)
  BY <1>1, PackagesArePackages
<1>4. \A t \in FactTables \cup {"months"} : stored[t] = {}
  BY <1>1 DEF EmptyDatabase, FactTables
<1>5. OneGenerationLives(stored, imports)
  BY <1>1, <1>2 DEF OneGenerationLives
<1> QED BY <1>1, <1>2, <1>3, <1>5, EmptyIsDatabase DEF HistoryInv

\* A package with a row more is a package.
LEMMA RowAdded ==
  ASSUME IsPackage(package), NEW t \in DOMAIN Extra, NEW r \in Extra[t]
  PROVE  IsPackage([package EXCEPT ![t] = Append(@, r)])
<1>1. t \in PackageTables
  BY PackageAssumption
<1>2. r \in TableRow
  BY DEF TableRow, ExtraRow
<1>3. package[t] \in Seq(TableRow) /\ t \in DOMAIN package
  BY <1>1 DEF IsPackage
<1>4. Append(package[t], r) \in Seq(TableRow)
  BY <1>2, <1>3
<1> DEFINE after == [package EXCEPT ![t] = Append(@, r)]
<1>5. DOMAIN after = DOMAIN package
      /\ \A u \in DOMAIN package : after[u] = IF u = t THEN Append(package[t], r) ELSE package[u]
  BY <1>3
<1> HIDE DEF after
<1>6. IsPackage(after)
  BY <1>4, <1>5 DEF IsPackage
<1> QED BY <1>6 DEF after

\* One import more.
LEMMA ImportAppended ==
  ASSUME NEW runs, runs \in Seq(Range(runs)), NEW s
  PROVE  /\ Append(runs, s) \in Seq(Range(Append(runs, s)))
         /\ Range(Append(runs, s)) = Range(runs) \cup {s}
         /\ Append(runs, s) # <<>>
<1> DEFINE n == Len(runs)
           after == Append(runs, s)
<1>1. n \in Nat /\ DOMAIN runs = 1..n
  OBVIOUS
<1>2. after \in Seq(Range(runs) \cup {s})
  OBVIOUS
<1>3. /\ Len(after) = n + 1 /\ DOMAIN after = 1..(n + 1)
      /\ \A i \in 1..n : after[i] = runs[i]
      /\ after[n + 1] = s
  OBVIOUS
<1> HIDE DEF n, after
<1>4. Range(after) = Range(runs) \cup {s}
  BY <1>1, <1>3 DEF Range
<1>5. after # <<>>
  BY <1>1, <1>3
<1> QED BY <1>2, <1>4, <1>5 DEF after

LEMMA ImportKeepsHistory ==
  ASSUME HistoryInv, NEW supersede \in BOOLEAN, ImportPackage(supersede)
  PROVE  HistoryInv'
<1> DEFINE p == Parsed(package)
           replacing == LiveObservations # {}
           suffix == IF replacing THEN nextImport ELSE NoSuffix
           db == IF replacing THEN RetireGeneration(stored) ELSE stored
           allowed == /\ replacing => supersede
                      /\ OneDirectEach(p)
                      /\ ChildrenBelong(p)
                      /\ ConstraintsAllow(p, db, suffix, nextImport)
           s == [run |-> nextImport, package |-> package]
<1>1. /\ ReadHistory(package) /\ nextImport' = nextImport + 1 /\ package' = package
      /\ \/ /\ allowed
            /\ stored' = Written(p, db, suffix, nextImport)
            /\ imports' = Append(imports, s)
         \/ stored' = stored /\ imports' = imports
  BY DEF ImportPackage
<1>2. /\ nextImport \in Nat \ {0} /\ IsPackage(package)
      /\ imports \in Seq(Range(imports))
      /\ IsDatabase(stored, nextImport)
      /\ \A u \in Range(imports) :
            u.run \in Nat /\ u.run < nextImport /\ ImportStands(stored, u)
      /\ OneGenerationLives(stored, imports)
      /\ imports = <<>> => stored = EmptyDatabase
  BY DEF HistoryInv
<1>3. nextImport + 1 \in Nat \ {0}
  BY <1>2
<1>4. CASE stored' = stored /\ imports' = imports
  <2>1. IsDatabase(stored, nextImport + 1)
    BY <1>2 DEF IsDatabase
  <2> QED BY <1>1, <1>2, <1>3, <1>4, <2>1 DEF HistoryInv
<1>5. CASE /\ allowed
           /\ stored' = Written(p, db, suffix, nextImport)
           /\ imports' = Append(imports, s)
  <2>1. /\ IsDatabase(db, nextImport)
        /\ \A u \in Range(imports) : ImportStands(db, u)
        /\ replacing => \A t \in FactTables \cup {"months"} : \A r \in db[t] : r.live = Gone
    <3>1. CASE replacing
      BY <1>2, <3>1, RetirementKeeps
    <3>2. CASE ~replacing
      BY <1>2, <3>2
    <3> QED BY <3>1, <3>2
  <2>2. ChildrenBelong(p) /\ OneBandEach(p)
    BY <1>5 DEF ConstraintsAllow, OneBandEach
  <2>3. s.run = nextImport /\ s.package = package
    OBVIOUS
  <2>4. /\ imports' \in Seq(Range(imports')) /\ Range(imports') = Range(imports) \cup {s}
        /\ imports' # <<>>
    BY <1>2, <1>5, ImportAppended
  <2> HIDE DEF p, db, suffix, replacing, allowed, s
  <2>5. IsDatabase(stored', nextImport + 1)
    BY <1>1, <1>2, <1>5, <2>1, WritingIsDatabase DEF p
  <2>6. DOMAIN db = Tables
    BY <2>1 DEF IsDatabase
  <2>7. \A u \in Range(imports) : ImportStands(stored', u)
    <3> SUFFICES ASSUME NEW u \in Range(imports) PROVE ImportStands(stored', u)
      OBVIOUS
    <3>1. ImportStands(db, u) /\ u.run # nextImport
      BY <1>2, <2>1
    <3> QED BY <1>5, <2>6, <3>1, WritingKeeps
  <2>8. ImportStands(stored', s)
    BY <1>1, <1>2, <1>5, <2>1, <2>2, WritingStores DEF p, s
  <2>9. \A u \in Range(imports') :
           u.run \in Nat /\ u.run < nextImport + 1 /\ ImportStands(stored', u)
    BY <1>2, <2>3, <2>4, <2>7, <2>8
  <2>10. OneGenerationLives(stored', imports')
    <3> SUFFICES ASSUME \A u \in Range(imports') : u.package.snapshots # <<>>
                 PROVE  /\ LiveIn(stored') # {}
                        /\ \A t \in FactTables \cup {"months"}, u \in Range(imports') :
                              \A r \in stored'[t] : r.live => r.run >= u.run
      BY DEF OneGenerationLives
    <3>1. /\ stored'.observations = db.observations \cup NewFacts(p.snapshots, suffix, nextImport)
          /\ stored'.batches = db.batches \cup NewFacts(p.batches, suffix, nextImport)
          /\ stored'.periods = db.periods \cup NewFacts(p.periods, suffix, nextImport)
          /\ stored'.months = db.months \cup NewMonths(p.months, nextImport)
      BY <1>5, <2>6, WrittenTables
    <3>2. p.snapshots = package.snapshots /\ p.snapshots \in Seq(TableRow)
      <4>1. "snapshots" \in PackageTables /\ "snapshots" \notin V2Tables
        BY DEF PackageTables, V1Tables, V2Tables
      <4> QED BY <1>2, <4>1, ParsedTables DEF p, IsPackage
    <3>3. p.snapshots # <<>>
      BY <2>3, <2>4, <3>2
    <3>4. LiveIn(stored') # {}
      <4>1. 1 \in DOMAIN p.snapshots
        BY <3>2, <3>3
      <4>2. p.snapshots[1] \in Range(p.snapshots)
        BY <4>1 DEF Range
      <4> DEFINE f == Fact(p.snapshots[1].id, suffix, nextImport)
      <4>3. f \in NewFacts(p.snapshots, suffix, nextImport) /\ f.live
        BY <4>2 DEF NewFacts, Fact
      <4> HIDE DEF f
      <4> QED BY <3>1, <4>3 DEF LiveIn
    <3>5. ASSUME NEW t \in FactTables \cup {"months"}, NEW r \in db[t] PROVE ~r.live
      <4>1. CASE replacing
        BY <2>1, <4>1 DEF Gone
      <4>2. CASE ~replacing
        <5>1. LiveIn(stored) = {}
          BY <4>2 DEF replacing, LiveObservations, LiveIn
        <5>2. imports = <<>>
          BY <1>2, <2>4, <5>1 DEF OneGenerationLives
        <5>3. db = EmptyDatabase
          BY <1>2, <4>2, <5>2 DEF db
        <5>4. db[t] = {}
          BY <5>3 DEF EmptyDatabase, FactTables
        <5> QED BY <5>4
      <4> QED BY <4>1, <4>2
    <3>6. \A t \in FactTables \cup {"months"} : \A r \in stored'[t] : r.live => r.run = nextImport
      <4>1. \A t \in FactTables \cup {"months"} : \A r \in stored'[t] :
               r \in db[t] \/ r.run = nextImport
        <5>1. \A t : \A x \in NewFacts(t, suffix, nextImport) : x.run = nextImport
          BY DEF NewFacts, Fact
        <5>2. \A x \in NewMonths(p.months, nextImport) : x.run = nextImport
          BY DEF NewMonths
        <5> QED BY <3>1, <5>1, <5>2 DEF FactTables
      <4> QED BY <3>5, <4>1
    <3>7. \A u \in Range(imports') : u.run \in Nat /\ u.run <= nextImport
      BY <1>2, <2>9
    <3> QED BY <1>2, <3>4, <3>6, <3>7
  <2> QED BY <1>1, <1>2, <1>3, <2>4, <2>5, <2>9, <2>10 DEF HistoryInv
<1> QED BY <1>1, <1>4, <1>5

LEMMA HistorySteps == HistoryInv /\ [HistoryNext]_historyVars => HistoryInv'
<1> SUFFICES ASSUME HistoryInv, [HistoryNext]_historyVars PROVE HistoryInv'
  OBVIOUS
<1>1. ASSUME NEW supersede \in BOOLEAN, ImportPackage(supersede) PROVE HistoryInv'
  BY <1>1, ImportKeepsHistory
<1>2. ASSUME UNCHANGED <<stored, nextImport, imports>>, IsPackage(package') PROVE HistoryInv'
  BY <1>2 DEF HistoryInv
<1>3. CASE HandOver
  BY <1>2, <1>3, PackagesArePackages DEF HandOver
<1>4. CASE AddRow
  <2>1. PICK t \in DOMAIN Extra :
           \E r \in Extra[t] : package' = [package EXCEPT ![t] = Append(@, r)]
    BY <1>4 DEF AddRow
  <2>3. PICK r \in Extra[t] : package' = [package EXCEPT ![t] = Append(@, r)]
    BY <2>1
  <2>2. IsPackage(package')
    BY <2>3, RowAdded DEF HistoryInv
  <2> QED BY <1>2, <1>4, <2>2 DEF AddRow
<1>5. CASE UNCHANGED historyVars
  BY <1>2, <1>5 DEF historyVars, HistoryInv
<1> QED BY <1>1, <1>3, <1>4, <1>5 DEF HistoryNext
-----------------------------------------------------------------------------
(* The history: what a reader finds. *)

LEMMA ImportIsWhole ==
  ASSUME NEW s, ImportStands(stored, s), NEW n, IsDatabase(stored, n)
  PROVE  LET p == Parsed(s.package)
             run == s.run
             idsOf(table) == {r.id : r \in RowsOf(table, run)}
         IN /\ Counts("observations", p.snapshots, run)
            /\ Counts("movements", p.movements, run)
            /\ Counts("reasons", p.reasons, run)
            /\ Counts("months", p.months, run)
            /\ Counts("issues", p.warnings, run)
            /\ Counts("batches", p.batches, run)
            /\ Counts("batch_sizes", p.batch_sizes, run)
            /\ Counts("batch_reasons", p.batch_reasons, run)
            /\ Counts("periods", p.periods, run)
            /\ Counts("sizes", p.sizes, run)
            /\ \A r \in RowsOf("movements", run) \cup RowsOf("reasons", run) :
                 r.parent \in idsOf("observations")
            /\ \A r \in RowsOf("batch_sizes", run) \cup RowsOf("batch_reasons", run) :
                 r.parent \in idsOf("batches")
            /\ \A c \in Range(p.conflicts) :
                 Cardinality({d \in stored.conflicts : d.date = c.date /\ d.metric = c.metric}) = 1
<1> DEFINE p == Parsed(s.package)
           run == s.run
           idsOf(table) == {r.id : r \in RowsOf(table, run)}
<1>1. /\ IsPackage(s.package) /\ ReadHistory(s.package) /\ ChildrenBelong(p) /\ OneBandEach(p)
  BY DEF ImportStands
<1>2. PICK suffix, live : HoldsPackage(stored, p, run, suffix, live)
  BY DEF ImportStands
<1>3. /\ IsPackage(p) /\ TablesAreKeyed(p) /\ LaterTablesAreKeyed(p) /\ ParentsAreThere(p)
  BY <1>1, ParsedTables, AcceptedIsKeyed
<1> HIDE DEF p, run
<1>4. /\ RowsOf("observations", run) = FactsOf(p.snapshots, suffix, run, live)
      /\ RowsOf("batches", run) = FactsOf(p.batches, suffix, run, live)
      /\ RowsOf("periods", run) = FactsOf(p.periods, suffix, run, live)
      /\ RowsOf("months", run) = MonthsOf(p.months, run, live)
      /\ RowsOf("movements", run) = NewMovements(p, run)
      /\ RowsOf("reasons", run) = NewReasons(p, run)
      /\ RowsOf("issues", run) = NewIssues(p, suffix, run)
      /\ RowsOf("batch_sizes", run) = NewBatchSizes(p, run)
      /\ RowsOf("batch_reasons", run) = NewBatchReasons(p, run)
      /\ RowsOf("sizes", run) = NewSizes(p, run)
  BY <1>2 DEF HoldsPackage, RowsOf, RunRows
<1>5. /\ p.snapshots \in Seq(TableRow) /\ p.batches \in Seq(TableRow)
      /\ p.periods \in Seq(TableRow) /\ p.months \in Seq(TableRow)
  BY <1>3, TablesAreSequences
<1>6. Counts("observations", p.snapshots, run)
  <2>1. \A i, j \in DOMAIN p.snapshots : p.snapshots[i].id = p.snapshots[j].id => i = j
    BY <1>3 DEF TablesAreKeyed
  <2>2. Cardinality(FactsOf(p.snapshots, suffix, run, live)) = Len(p.snapshots)
    BY <1>5, <2>1, CountOfFacts
  <2> QED BY <1>4, <2>2 DEF Counts
<1>7. Counts("batches", p.batches, run)
  <2>1. \A i, j \in DOMAIN p.batches : p.batches[i].id = p.batches[j].id => i = j
    BY <1>3 DEF LaterTablesAreKeyed
  <2>2. Cardinality(FactsOf(p.batches, suffix, run, live)) = Len(p.batches)
    BY <1>5, <2>1, CountOfFacts
  <2> QED BY <1>4, <2>2 DEF Counts
<1>8. Counts("periods", p.periods, run)
  <2>1. \A i, j \in DOMAIN p.periods : p.periods[i].id = p.periods[j].id => i = j
    BY <1>3 DEF LaterTablesAreKeyed
  <2>2. Cardinality(FactsOf(p.periods, suffix, run, live)) = Len(p.periods)
    BY <1>5, <2>1, CountOfFacts
  <2> QED BY <1>4, <2>2 DEF Counts
<1>9. Counts("months", p.months, run)
  <2>1. \A i, j \in DOMAIN p.months :
           p.months[i].year = p.months[j].year /\ p.months[i].month = p.months[j].month => i = j
    BY <1>3 DEF TablesAreKeyed
  <2>2. Cardinality(MonthsOf(p.months, run, live)) = Len(p.months)
    BY <1>5, <2>1, CountOfMonths
  <2> QED BY <1>4, <2>2 DEF Counts
<1>10. /\ Counts("movements", p.movements, run) /\ Counts("reasons", p.reasons, run)
       /\ Counts("issues", p.warnings, run)
  BY <1>1, <1>3, <1>4, CountOfChildren, CountOfIssues DEF Counts
<1>11. /\ Counts("batch_sizes", p.batch_sizes, run)
       /\ Counts("batch_reasons", p.batch_reasons, run)
       /\ Counts("sizes", p.sizes, run)
  BY <1>1, <1>3, <1>4, CountOfLaterChildren DEF Counts
<1>12. ASSUME NEW r \in RowsOf("movements", run) \cup RowsOf("reasons", run)
       PROVE  r.parent \in idsOf("observations")
  <2>1. PICK q \in Range(p.movements) \cup Range(p.reasons) : r.parent = DirectOf(p, q)
    BY <1>4 DEF NewMovements, NewReasons
  <2>2. PICK x \in Range(p.snapshots) : DirectOf(p, q) = x.id
    BY <1>1, <1>3, DirectParents
  <2> DEFINE f == [id |-> x.id, suffix |-> suffix, run |-> run, live |-> live]
  <2>3. f \in FactsOf(p.snapshots, suffix, run, live) /\ f.id = x.id
    BY DEF FactsOf
  <2> HIDE DEF f
  <2> QED BY <1>4, <2>1, <2>2, <2>3
<1>13. ASSUME NEW r \in RowsOf("batch_sizes", run) \cup RowsOf("batch_reasons", run)
       PROVE  r.parent \in idsOf("batches")
  <2>1. r.parent \in Ids(p.batches)
    BY <1>4 DEF NewBatchSizes, NewBatchReasons
  <2>2. PICK x \in Range(p.batches) : r.parent = x.id
    BY <2>1 DEF Ids
  <2> DEFINE f == [id |-> x.id, suffix |-> suffix, run |-> run, live |-> live]
  <2>3. f \in FactsOf(p.batches, suffix, run, live) /\ f.id = x.id
    BY DEF FactsOf
  <2> HIDE DEF f
  <2> QED BY <1>4, <2>2, <2>3
<1>14. ASSUME NEW c \in Range(p.conflicts)
       PROVE  Cardinality({d \in stored.conflicts : d.date = c.date /\ d.metric = c.metric}) = 1
  <2>1. PICK d \in stored.conflicts : d.date = c.date /\ d.metric = c.metric
    BY <1>2 DEF HoldsPackage
  <2>2. {e \in stored.conflicts : e.date = c.date /\ e.metric = c.metric} = {d}
    BY <2>1 DEF IsDatabase
  <2> QED BY <2>2, FS_Singleton
<1> QED BY <1>6, <1>7, <1>8, <1>9, <1>10, <1>11, <1>12, <1>13, <1>14 DEF p, run

LEMMA HistoryIsRead == HistoryInv => HistoryIsWhole
<1> SUFFICES ASSUME HistoryInv PROVE HistoryIsWhole
  OBVIOUS
<1>1. /\ IsDatabase(stored, nextImport) /\ OneGenerationLives(stored, imports)
      /\ \A s \in Range(imports) : ImportStands(stored, s)
      /\ \A i \in DOMAIN imports : imports[i] \in Range(imports)
  BY DEF HistoryInv, Range
<1>2. StoredIsWhole
  BY <1>1, ImportIsWhole DEF StoredIsWhole
<1>3. OneLiveGeneration
  BY <1>1 DEF OneLiveGeneration, OneGenerationLives, FactTables
<1> QED BY <1>2, <1>3 DEF HistoryIsWhole

\* Of every package that was accepted, every row of every table is stored once
\* and every child under its parent, whatever packages were imported before and
\* after it; and where every import brought an observation, the rows the pages
\* read are all of the last one (history_import.py).
THEOREM HistoryStaysWhole == HistorySpec => []HistoryIsWhole
<1>1. HistorySpec => []HistoryInv
  BY HistoryStarts, HistorySteps, PTL DEF HistorySpec
<1> QED BY <1>1, HistoryIsRead, PTL
=============================================================================
