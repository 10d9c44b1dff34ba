-------------------------- MODULE MemberComposition --------------------------
(***************************************************************************)
(* What a roster becomes (apps/membership/composition.py) and what the     *)
(* pages read from it (composition_selectors.py).                          *)
(*                                                                         *)
(* Rows are streamed: each is classified along seven dimensions, counted   *)
(* and dropped.  The status is looked up in a vocabulary; so are the legal *)
(* form and the region, which are left out.  The size, the sector, the     *)
(* tenure and the year of joining are computed.  A date is a year and a    *)
(* day of it, all years as long.                                           *)
(***************************************************************************)
EXTENDS Integers, Sequences, FiniteSets, FiniteSetsExt, SequencesExt

CONSTANTS
    Raw,          \* the rows a roster may hold, see RawRow
    Snapshot,     \* the snapshot date
    YearDays,     \* days of a year
    RecentDays,   \* RECENT_JOINER_WINDOW_DAYS
    TopCategories,\* TOP_CATEGORY_LIMIT
    MinOverall, MinRecent,   \* MIN_OVERALL_FOR_INDEX, MIN_RECENT_FOR_INDEX
    MaxRows       \* bound: the rows of a roster

\* An empty sequence is an empty cell.  nace: the first two digits of the code.
Date == [year : Nat, day : Nat]
RawRow == [status : STRING, employees : {<<>>} \cup Seq(Int), nace : {<<>>} \cup Seq(Nat),
           start : {<<>>} \cup Seq(Date)]

VARIABLES
    rows_read,   \* CompositionTally.rows_read
    counts,      \* counts[population][dimension]: category -> members
    unmapped,    \* per dimension: rows counted as unknown
    tenures      \* the tenures in days, sorted

vars == <<rows_read, counts, unmapped, tenures>>

Dimension == {"status", "employee_size", "sector", "tenure_band", "join_cohort"}
Population == {"all_current", "recent_joiners"}

Init ==
    /\ rows_read = 0
    /\ counts = [p \in Population |-> [d \in Dimension |-> <<>>]]
    /\ unmapped = [d \in Dimension |-> 0]
    /\ tenures = <<>>

-----------------------------------------------------------------------------
(* Classification. *)

Unknown == "unknown"

STATUS_KEYS == [s \in {"koja liige", "peatatud liige", "toetaja liige"} |->
    CASE s = "koja liige" -> "regular" [] s = "peatatud liige" -> "suspended" [] OTHER -> "supporter"]

\* A word outside the vocabulary is unknown, never its nearest neighbour.
ClassifyStatus(raw) == IF raw \in DOMAIN STATUS_KEYS THEN STATUS_KEYS[raw] ELSE Unknown

\* The name of the first band whose upper bound is not below n.
BandOf(n, bands) == bands[Min({i \in DOMAIN bands : n <= bands[i].upto})].key

SIZE_BANDS == <<[key |-> "employees_0", upto |-> 0], [key |-> "employees_1_9", upto |-> 9],
                [key |-> "employees_10_49", upto |-> 49], [key |-> "employees_50_249", upto |-> 249]>>

\* Nought is a band of its own; a negative count is a fault of the source.
ClassifyEmployeeSize(raw) ==
    IF raw = <<>> THEN Unknown
    ELSE IF raw[1] < 0 THEN Unknown
    ELSE IF raw[1] > 249 THEN "employees_250_plus" ELSE BandOf(raw[1], SIZE_BANDS)

\* A few of the published division ranges, with the gaps between them.
SECTOR_SECTIONS ==
    {[key |-> "A", low |-> 1, high |-> 3], [key |-> "B", low |-> 5, high |-> 9],
     [key |-> "C", low |-> 10, high |-> 33], [key |-> "D", low |-> 35, high |-> 35],
     [key |-> "E", low |-> 36, high |-> 39], [key |-> "F", low |-> 41, high |-> 43]}

ClassifySector(raw) ==
    IF raw = <<>> THEN Unknown
    ELSE LET in == {s \in SECTOR_SECTIONS : raw[1] \in s.low..s.high}
         IN  IF in = {} THEN Unknown ELSE (CHOOSE s \in in : TRUE).key

NotYet(start) == start = <<>> \/
    (start # <<>> /\ (start[1].year > Snapshot.year
                      \/ (start[1].year = Snapshot.year /\ start[1].day > Snapshot.day)))

\* completed_years, measured at the snapshot.
CompletedYears(start) ==
    Snapshot.year - start[1].year - (IF Snapshot.day < start[1].day THEN 1 ELSE 0)

TENURE_BANDS == <<[key |-> "under_1", upto |-> 0], [key |-> "years_1_2", upto |-> 2],
                  [key |-> "years_3_5", upto |-> 5], [key |-> "years_6_10", upto |-> 10],
                  [key |-> "years_11_20", upto |-> 20]>>

ClassifyTenure(start) ==
    IF NotYet(start) THEN Unknown
    ELSE IF CompletedYears(start) > 20 THEN "years_20_plus"
    ELSE BandOf(CompletedYears(start), TENURE_BANDS)

\* The years of joining the instance can meet.
YEARS == [y \in 0..40 |-> ToString(y)]

ClassifyJoinCohort(start) == IF NotYet(start) THEN Unknown ELSE YEARS[start[1].year]

TenureDays(start) ==
    (Snapshot.year - start[1].year) * YearDays + Snapshot.day - start[1].day

\* A plausible error: the calendar year instead of the window.
JoinedThisYear(start) == ~NotYet(start) /\ start[1].year = Snapshot.year

IsRecentJoiner(start) == ~NotYet(start) /\ TenureDays(start) <= RecentDays

\* build_member_row
BuildMemberRow(raw) ==
    [status |-> ClassifyStatus(raw.status),
     employee_size |-> ClassifyEmployeeSize(raw.employees),
     sector |-> ClassifySector(raw.nace),
     tenure_band |-> ClassifyTenure(raw.start),
     join_cohort |-> ClassifyJoinCohort(raw.start)]

-----------------------------------------------------------------------------
(* Counting. *)

Bump(counter, key) ==
    [k \in DOMAIN counter \cup {key} |->
        (IF k \in DOMAIN counter THEN counter[k] ELSE 0) + (IF k = key THEN 1 ELSE 0)]

Populations(raw) == IF IsRecentJoiner(raw.start) THEN Population ELSE {"all_current"}

\* CompositionTally.add, once for every row of the roster.
Add(raw) ==
    LET row == BuildMemberRow(raw)
    IN  /\ rows_read < MaxRows /\ rows_read' = rows_read + 1
        /\ counts' = [p \in Population |-> [d \in Dimension |->
              IF p \in Populations(raw) THEN Bump(counts[p][d], row[d]) ELSE counts[p][d]]]
        /\ unmapped' = [d \in Dimension |-> unmapped[d] + (IF row[d] = Unknown THEN 1 ELSE 0)]
        /\ tenures' = IF NotYet(raw.start) THEN tenures
                      ELSE SortSeq(Append(tenures, TenureDays(raw.start)), LAMBDA a, b : a < b)

Next == \E raw \in Raw : Add(raw)
Spec == Init /\ [][Next]_vars

SumOf(counter) == FoldSet(LAMBDA k, n : n + counter[k], 0, DOMAIN counter)

\* The denominator of a population.
Total(p) == SumOf(counts[p]["status"])

MedianTenureDays ==
    LET middle == (Len(tenures) \div 2) + 1
    IN  IF Len(tenures) % 2 = 1 THEN tenures[middle]
        ELSE (tenures[middle - 1] + tenures[middle]) \div 2

\* Tenths of a per cent of the rows that could be classified.
CoveragePct(d) == ((rows_read - unmapped[d]) * 1000) \div rows_read

\* validate: what the importer refuses.
Validate ==
    /\ Total("all_current") = rows_read
    /\ Total("recent_joiners") <= Total("all_current")
    /\ \A d \in Dimension : SumOf(counts["all_current"][d]) = Total("all_current")

-----------------------------------------------------------------------------
(* Reading: the ranked chart and the growth index. *)

\* The keys of a counter, the largest first.
Ranking(counter) ==
    LET known == DOMAIN counter \ {Unknown}
    IN  SetToSortSeq(known, LAMBDA a, b : counter[a] > counter[b])

\* CompositionDimensionResult.ranked: the tail becomes "other", and unknown
\* stays a category of its own.
Ranked(counter) ==
    LET order == Ranking(counter)
        head == SubSeq(order, 1, IF Len(order) < TopCategories THEN Len(order) ELSE TopCategories)
        tail == DOMAIN counter \ ({Unknown} \cup Range(head))
        Category(k) == [key |-> k, count |-> counter[k]]
        unknown == IF Unknown \in DOMAIN counter THEN <<Category(Unknown)>> ELSE <<>>
        other == IF tail = {} THEN <<>>
                 ELSE <<[key |-> "other", count |-> FoldSet(LAMBDA k, n : n + counter[k], 0, tail)]>>
    IN  [i \in DOMAIN head |-> Category(head[i])] \o other \o unknown

Known(counter) == [k \in DOMAIN counter \ {Unknown} |-> counter[k]]
CountIn(counter, k) == IF k \in DOMAIN counter THEN counter[k] ELSE 0

\* growth_index: a category below the sample floors is withheld, not averaged.
Withheld(overall, recent) ==
    IF SumOf(overall) = 0 \/ SumOf(recent) = 0 THEN DOMAIN overall
    ELSE {k \in DOMAIN overall : overall[k] < MinOverall \/ CountIn(recent, k) < MinRecent}

\* The index of a category: its share of the recent over its share overall.
GrowthIndex(overall, recent) ==
    [k \in DOMAIN overall \ Withheld(overall, recent) |->
        (CountIn(recent, k) * SumOf(overall) * 100 * 2 + SumOf(recent) * overall[k])
            \div (2 * SumOf(recent) * overall[k])]

-----------------------------------------------------------------------------
(* Properties. *)

\* Every row is in every dimension: the importer's own validation never
\* refuses what its counting produced, no population has two denominators,
\* the chart that folds its tail still adds up to the population, and what
\* is counted as unknown is what the coverage leaves out.
DenominatorsAgree ==
    /\ Validate
    /\ \A p \in Population, d \in Dimension :
          LET chart == Ranked(counts[p][d])
          IN  /\ SumOf(counts[p][d]) = Total(p)
              /\ FoldSeq(LAMBDA c, n : n + c.count, 0, chart) = Total(p)
              /\ unmapped[d] = CountIn(counts["all_current"][d], Unknown)

\* The growth index never divides by nothing and is never out of the question:
\* if every category is measured, one of them stands at 100 or above and one at
\* 100 or below.
IndexIsBalanced ==
    \A d \in Dimension :
        LET overall == Known(counts["all_current"][d])
            recent == Known(counts["recent_joiners"][d])
            index == GrowthIndex(overall, recent)
        IN  (DOMAIN overall # {} /\ DOMAIN index = DOMAIN overall) =>
                (\E k \in DOMAIN index : index[k] >= 100) /\ (\E k \in DOMAIN index : index[k] <= 100)

\* Whoever has completed no year of membership is a recent joiner, and the
\* middle tenure lies between the shortest and the longest.
TenureIsConsistent ==
    /\ CountIn(counts["recent_joiners"]["tenure_band"], "under_1")
          = CountIn(counts["all_current"]["tenure_band"], "under_1")
    /\ tenures # <<>> => tenures[1] <= MedianTenureDays /\ MedianTenureDays <= tenures[Len(tenures)]

\* What the composition pages show adds up.
CompositionAddsUp == DenominatorsAgree /\ IndexIsBalanced /\ TenureIsConsistent
=============================================================================
