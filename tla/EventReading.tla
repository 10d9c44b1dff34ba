---------------------------- MODULE EventReading ----------------------------
(***************************************************************************)
(* The Sündmused page (apps/event_programme): which workbook is accepted,  *)
(* the register with its filters, links, orders and paging, the figures of *)
(* a year's events above it, and what the overview's card says of them.    *)
(*                                                                         *)
(* Days are numbers from 1 in a calendar of equal months; keys, names and  *)
(* addresses are numbers, and 0 is a blank cell.  Wording and the colours  *)
(* of the charts are left out.                                             *)
(***************************************************************************)
EXTENDS Integers, Sequences, FiniteSets, FiniteSetsExt, Functions

CONSTANTS
    Tables,         \* states of the workbook, the links and what is measured
    Path,           \* the page each address leads to; 0 for none
    DaysPerMonth, MonthsPerYear, MonthsPerQuarter,
    PerPage,
    TopTypes,       \* categories shown before the remainder
    PreviewLimit, Horizon, TimelineLimit,
    NearTermDays, RecentDays,
    DateUnknown, Online,  \* a status and a delivery mode
    Terms,          \* per search term: the names it is contained in
    MaxPage,        \* bound: the page an address may name
    MaxClicks       \* bound: links followed from one typed address

NoDate == 0
Blank == 0
Unmeasured == -1
Absent == 0
All == -1
NoTerm == 0

\* The dimensions a reader may filter by, and all that are counted.
Dimensions == {"month", "quarter", "tag", "type", "mode", "status"}
Cells == Dimensions \cup {"price"}

EventReadingAssumption ==
    /\ {DaysPerMonth, MonthsPerYear, MonthsPerQuarter, PerPage, TopTypes, PreviewLimit, Horizon,
        TimelineLimit, NearTermDays, RecentDays} \subseteq Nat \ {0}
    /\ MonthsPerYear % MonthsPerQuarter = 0
    /\ \A t \in Tables : Path \in [DOMAIN Path -> Nat] /\ t.today >= 1

VARIABLES
    table,    \* the published programme, the matched links, the measurements, today
    address,  \* the address of the page on the reader's screen
    clicks,   \* bound: links followed since the last typed address
    shown     \* what the page shows

vars == <<table, address, clicks, shown>>

Larger(a, b) == IF a >= b THEN a ELSE b
Smaller(a, b) == IF a <= b THEN a ELSE b

(***************************************************************************)
(* The calendar.                                                           *)
(***************************************************************************)

DaysPerYear == DaysPerMonth * MonthsPerYear
YearOf(day) == ((day - 1) \div DaysPerYear) + 1
MonthOf(day) == (((day - 1) \div DaysPerMonth) % MonthsPerYear) + 1
QuarterOf(day) == ((MonthOf(day) - 1) \div MonthsPerQuarter) + 1
FirstDay(year) == (year - 1) * DaysPerYear + 1
SameDayIn(year, day) == FirstDay(year) + ((day - 1) % DaysPerYear)
ThisYear == YearOf(table.today)

(***************************************************************************)
(* The workbook.                                                           *)
(***************************************************************************)

\* _require_control: the generator's own gate.
RequireControl(book) ==
    /\ book.status \in {"ready", "ready_with_warnings"}
    /\ book.blocking = 0

\* _parse_rows: every row named, told apart by both of its keys, and ending no
\* earlier than it starts.
ParseRows(rows) ==
    /\ \A i \in DOMAIN rows :
         /\ rows[i].id # Blank /\ rows[i].code # Blank /\ rows[i].name # Blank
         /\ rows[i].start = NoDate => rows[i].end = NoDate
         /\ rows[i].end # NoDate => rows[i].end >= rows[i].start
    /\ \A i, j \in DOMAIN rows :
         (rows[i].id = rows[j].id \/ rows[i].code = rows[j].code) => i = j

RowsOf(book) == {book.rows[i] : i \in DOMAIN book.rows}

\* _require_agreement: the summary tells the rows and links the table carries.
RequireAgreement(book) ==
    /\ book.stated = Len(book.rows)
    /\ book.linked = Cardinality({i \in DOMAIN book.rows : book.rows[i].url # Blank})

ParseWorkbook(book) ==
    /\ RequireControl(book)
    /\ ParseRows(book.rows)
    /\ RequireAgreement(book)

\* A refused workbook leaves the published programme where it is.
Published(t, rows) ==
    [rows |-> IF ParseWorkbook(t.book) THEN RowsOf(t.book) ELSE rows, matched |-> t.matched,
     views |-> t.views, reported |-> t.reported, products |-> t.products, units |-> t.units,
     today |-> t.today]

(***************************************************************************)
(* Links and measurements.                                                 *)
(***************************************************************************)

\* resolve: the address the Chamber entered, else the matched page.
PublicLink(row) ==
    IF row.url # Blank THEN row.url
    ELSE IF row.id \in DOMAIN table.matched THEN table.matched[row.id] ELSE Blank

\* A plausible error: only the links of the workbook count.
HasWorkbookLink(row) == row.url # Blank

HasEffectiveLink(row) == row.url # Blank \/ row.id \in DOMAIN table.matched

PathFor(row) == LET url == PublicLink(row) IN IF url = Blank THEN Blank ELSE Path[url]

\* Page views of a path in some days; a path without a row is unmeasured.
ViewsIn(path, days) ==
    MapThenSumSet(LAMBDA v : v.n, {v \in table.views : v.path = path /\ v.day \in days})

IsMeasured(path) == \E v \in table.views : v.path = path

PageViewTotal(row) ==
    IF IsMeasured(PathFor(row)) THEN ViewsIn(PathFor(row), table.reported) ELSE Unmeasured

\* registration_pages and attach_registrations: every product of the page,
\* and nothing where none of them was ever sold.
SellsRegistrations == DOMAIN table.products # {}

ProductsOf(row) ==
    IF PathFor(row) \in DOMAIN table.products THEN table.products[PathFor(row)] ELSE {}

Registrations(row) ==
    LET sold == ProductsOf(row) \cap DOMAIN table.units
    IN IF sold = {} THEN Unmeasured ELSE MapThenSumSet(LAMBDA p : table.units[p], sold)

(***************************************************************************)
(* The register: what an address asks.                                     *)
(***************************************************************************)

YearsIn(rows) == {r.year : r \in rows} \ {Blank}

\* get_event_programme_filter_options.
Offered(d) == {r.cell[d] : r \in table.rows} \ {Blank}

\* default_year: this year when the programme has it, else the latest.
DefaultYear ==
    LET years == YearsIn(table.rows)
    IN CASE years = {} -> All
         [] ThisYear \in years -> ThisYear
         [] OTHER -> Max(years)

ParseYear(asked) ==
    IF asked = All \/ asked \in YearsIn(table.rows) THEN asked ELSE DefaultYear

NoChoice == [d \in Dimensions |-> Blank]

\* parse_filters: what the programme does not contain is not a filter.
ParseFilters(a) ==
    [term |-> a.term, year |-> ParseYear(a.year),
     chosen |-> [d \in Dimensions |-> IF a.chosen[d] \in Offered(d) THEN a.chosen[d] ELSE Blank],
     link |-> IF a.link \in {"linked", "unlinked"} THEN a.link ELSE "all",
     review |-> IF a.review \in {"required", "clear"} THEN a.review ELSE "all",
     sort |-> IF a.sort \in {"views", "registrations"} THEN a.sort ELSE "date"]

\* get_filtered_event_programme_items.
Matches(f) ==
    {r \in table.rows :
        /\ f.term # NoTerm => r.name \in Terms[f.term]
        /\ f.year # All => r.year = f.year
        /\ \A d \in Dimensions : f.chosen[d] # Blank => r.cell[d] = f.chosen[d]
        /\ f.link = "linked" => HasEffectiveLink(r)
        /\ f.link = "unlinked" => ~HasEffectiveLink(r)
        /\ f.review = "required" => r.review
        /\ f.review = "clear" => ~r.review}

\* Rows in the order that "ahead", a strict total order, gives them.
Ranked(rows, ahead(_, _)) ==
    [n \in 1..Cardinality(rows) |->
        CHOOSE r \in rows : Cardinality({s \in rows : ahead(s, r)}) = n - 1]

ByName(r, s) == r.name < s.name \/ (r.name = s.name /\ r.code < s.code)

\* Newest first, undated last.
Newer(r, s) == r.start > s.start \/ (r.start = s.start /\ ByName(r, s))

Sooner(r, s) == r.start < s.start \/ (r.start = s.start /\ ByName(r, s))

\* _ranked_by_views and _ranked_by_registrations: the measured by their
\* figure, the unmeasured behind them as they were.
RankedBy(figure, rows) ==
    Ranked(rows, LAMBDA r, s :
        \/ figure[r] > figure[s]
        \/ figure[r] = figure[s] /\ figure[r] # Unmeasured /\ r.id < s.id
        \/ figure[r] = figure[s] /\ figure[r] = Unmeasured /\ Newer(r, s))

Ordered(f) ==
    LET rows == Matches(f)
    IN CASE f.sort = "views" -> RankedBy([r \in rows |-> PageViewTotal(r)], rows)
         [] f.sort = "registrations" /\ SellsRegistrations ->
              RankedBy([r \in rows |-> Registrations(r)], rows)
         [] OTHER -> Ranked(rows, Newer)

\* A row as the table shows it.
Item(r) ==
    [id |-> r.id, link |-> PublicLink(r), views |-> PageViewTotal(r),
     units |-> IF SellsRegistrations THEN Registrations(r) ELSE Unmeasured]

\* _url: the address of some filters; the year is always written.
Url(f, page) ==
    [term |-> f.term, year |-> f.year, chosen |-> f.chosen, link |-> f.link,
     review |-> f.review, sort |-> f.sort, page |-> page]

PlainAddress == Url([term |-> NoTerm, year |-> Absent, chosen |-> NoChoice, link |-> "all",
                     review |-> "all", sort |-> "date"], 1)
NoFilter == ParseFilters([PlainAddress EXCEPT !.year = All])

\* _quality_links: a count and the register it opens, unless it is zero.
QualityLinks ==
    {q \in {[count |-> Cardinality({r \in table.rows : r.start = NoDate}),
             url |-> Url([NoFilter EXCEPT !.chosen["status"] = DateUnknown], 1)],
            [count |-> Cardinality({r \in table.rows : r.review}),
             url |-> Url([NoFilter EXCEPT !.review = "required"], 1)]} : q.count > 0}

Sorts == {"date", "views"} \cup (IF SellsRegistrations THEN {"registrations"} ELSE {})

\* build_programme_page.
Items(window) == [i \in DOMAIN window |-> Item(window[i])]

RegisterPage(f, rows, pages, number) ==
    [filters |-> f, count |-> Len(rows), pages |-> pages, number |-> number,
     items |-> Items(SubSeq(rows, (number - 1) * PerPage + 1, Smaller(number * PerPage, Len(rows)))),
     turns |-> {Url(f, n) : n \in {number - 1, number + 1} \cap (1..pages)},
     sorts |-> {Url([f EXCEPT !.sort = s], 1) : s \in Sorts},
     allYears |-> Url([f EXCEPT !.year = All], 1), quality |-> QualityLinks]

RegisterAt(f, rows, pages, asked) == RegisterPage(f, rows, pages, Smaller(Larger(1, asked), pages))

RegisterOf(f, rows, asked) ==
    RegisterAt(f, rows, Larger(1, (Len(rows) + PerPage - 1) \div PerPage), asked)

RegisterFor(f, asked) == RegisterOf(f, Ordered(f), asked)

ProgrammePage(a) == RegisterFor(ParseFilters(a), a.page)

(***************************************************************************)
(* The figures of a year.                                                  *)
(***************************************************************************)

Population(year) == {r \in table.rows : year # All => r.year = year}

\* labelled_distribution and delivery_mode_distribution: a blank is a value of
\* its own, and what does not fit among the first is the remainder.
Distribution(rows, d, top) ==
    LET values == {r.cell[d] : r \in rows}
        count == [v \in values |-> Cardinality({r \in rows : r.cell[d] = v})]
        before(v) == {w \in values : count[w] > count[v] \/ (count[w] = count[v] /\ w < v)}
        first == {v \in values : Cardinality(before(v)) < top}
    IN [count |-> [v \in first |-> count[v]], total |-> Cardinality(rows),
        rest |-> MapThenSumSet(LAMBDA v : count[v], values \ first)]

Share(dist, v) == IF v \in DOMAIN dist.count THEN dist.count[v] ELSE 0

Ended(r) == IF r.end = NoDate THEN r.start < table.today ELSE r.end < table.today
Dated(rows) == {r \in rows : r.start # NoDate}

\* temporal_state: from the dates, not from the workbook's status.
TemporalState(rows) ==
    [unknown |-> Cardinality(rows \ Dated(rows)),
     past |-> Cardinality({r \in Dated(rows) : Ended(r)}),
     ongoing |-> Cardinality({r \in Dated(rows) : r.start <= table.today /\ ~Ended(r)}),
     upcoming |-> Cardinality({r \in rows : r.start > table.today})]

CountsByYear == [y \in YearsIn(table.rows) |-> Cardinality(Population(y))]
CountsByMonth(year) ==
    [m \in 1..MonthsPerYear |-> Cardinality({r \in Population(year) : r.cell["month"] = m})]
QuarterDistribution(year) ==
    [q \in 1..(MonthsPerYear \div MonthsPerQuarter) |->
        Cardinality({r \in Population(year) : r.cell["quarter"] = q})]

\* _month_rows: what is over and what is ahead, told apart for this year alone.
MonthRows(year) ==
    [m \in 1..MonthsPerYear |->
        LET rows == {r \in Population(year) : r.cell["month"] = m}
            split == year = ThisYear /\ rows # {}
            done == {r \in rows : Ended(r)}
        IN [count |-> CountsByMonth(year)[m],
            done |-> IF split THEN Cardinality(done) ELSE Unmeasured,
            ahead |-> IF split THEN Cardinality(rows \ done) ELSE Unmeasured]]

FirstYearIsPartial ==
    Dated(table.rows) # {} /\ MonthOf(Min({r.start : r \in Dated(table.rows)})) > 1

\* complete_years_for: over, and not begun in the middle.
CompleteYears ==
    LET over == {y \in YearsIn(table.rows) : y < ThisYear}
    IN IF over # {} /\ FirstYearIsPartial THEN over \ {Min(over)} ELSE over

\* Twice the median of a function's values.
TwiceMedian(values) ==
    LET n == Cardinality(DOMAIN values)
        less(i) == {j \in DOMAIN values : values[j] < values[i] \/ (values[j] = values[i] /\ j < i)}
        nth(k) == values[CHOOSE i \in DOMAIN values : Cardinality(less(i)) = k]
    IN nth((n - 1) \div 2) + nth(n \div 2)

\* seasonality: a typical month needs two complete years.
Seasonality ==
    IF Cardinality(CompleteYears) < 2 THEN <<>>
    ELSE [m \in 1..MonthsPerYear |-> TwiceMedian([y \in CompleteYears |-> CountsByMonth(y)[m]])]

\* count_year_to_date and count_events_starting_within.
YearToDate(year) ==
    Cardinality({r \in Population(year) :
                    r.start \in FirstDay(year)..SameDayIn(year, table.today)})

StartingWithin(days) ==
    Cardinality({r \in table.rows : r.start \in table.today..table.today + days})

\* _headlines.
Headlines(year) ==
    LET state == TemporalState(Population(year))
        previous == year - 1
        compares == year # All /\ previous \in YearsIn(table.rows)
        counts == QuarterDistribution(year)
        mode(y) == Distribution(Population(y), "mode", Cardinality(table.rows))
    IN [total |-> Cardinality(Population(year)), past |-> state.past, upcoming |-> state.upcoming,
        started |-> IF compares /\ year = ThisYear THEN YearToDate(year) ELSE state.past,
        before |-> IF compares /\ year = ThisYear THEN YearToDate(previous) ELSE Unmeasured,
        starting |-> StartingWithin(NearTermDays),
        quarters |-> IF year # ThisYear THEN {}
                     ELSE {q \in DOMAIN counts : counts[q] > 0 /\ q >= QuarterOf(table.today)},
        online |-> IF compares THEN <<Share(mode(previous), Online), Share(mode(year), Online)>>
                   ELSE <<>>]

Ids(rows) == [i \in DOMAIN rows |-> rows[i].id]
FirstOf(rows, limit) == SubSeq(rows, 1, Smaller(limit, Len(rows)))

Upcoming == Ranked({r \in table.rows : r.start >= table.today}, Sooner)

\* The near upcoming events whose page was measured, by the views of the last
\* reported days (attach_attention, build_overview).
MostViewed(views) ==
    Ranked(DOMAIN views, LAMBDA r, s :
        \/ views[r] > views[s]
        \/ views[r] = views[s] /\ r.name < s.name
        \/ views[r] = views[s] /\ r.name = s.name /\ Sooner(r, s))

MeasuredIn(near) == {r \in {near[i] : i \in DOMAIN near} : IsMeasured(PathFor(r))}

Watched ==
    LET last == Max(table.reported)
        recent == (last - RecentDays + 1)..last
    IN IF table.reported = {} THEN <<>>
       ELSE FirstOf(MostViewed([r \in MeasuredIn(FirstOf(Upcoming, Horizon)) |->
                                    ViewsIn(PathFor(r), recent)]), PreviewLimit)

\* build_coverage: the block on data, here and on the page for keepers.
Coverage ==
    LET filled(d) == Cardinality({r \in table.rows : r.cell[d] # Blank})
    IN [events |-> Cardinality(table.rows), undated |-> Cardinality(table.rows \ Dated(table.rows)),
        review |-> Cardinality({r \in table.rows : r.review}),
        workbookLinks |-> Cardinality({r \in table.rows : r.url # Blank}),
        effectiveLinks |-> Cardinality({r \in table.rows : HasEffectiveLink(r)}),
        types |-> filled("type"), tags |-> filled("tag"), modes |-> filled("mode"),
        prices |-> filled("price")]

\* build_intelligence_page with build_overview and build_volume.
IntelligencePage(a) ==
    LET year == ParseYear(a.year)
        rows == Population(year)
        many == Cardinality(table.rows) + 1
    IN [year |-> year, headline |-> Headlines(year), state |-> TemporalState(rows),
        types |-> Distribution(rows, "type", TopTypes), modes |-> Distribution(rows, "mode", many),
        prices |-> Distribution(rows, "price", many),
        upcoming |-> Ids(FirstOf(Upcoming, PreviewLimit)), watched |-> Ids(Watched),
        years |-> CountsByYear, quarters |-> QuarterDistribution(year),
        months |-> IF year = All THEN <<>> ELSE MonthRows(year), typical |-> Seasonality,
        yearLinks |-> {[PlainAddress EXCEPT !.year = y] : y \in YearsIn(table.rows) \cup {All}},
        coverage |-> Coverage]

\* get_events_executive, with the signal and the shared timeline.
Executive ==
    LET due == {r \in Dated(table.rows) : IF r.end = NoDate THEN r.start >= table.today
                                          ELSE r.end >= table.today}
        next == FirstOf(Ranked(due, Sooner), TimelineLimit)
    IN [ytd |-> YearToDate(ThisYear), previous |-> YearToDate(ThisYear - 1),
        starting |-> StartingWithin(NearTermDays),
        completed |-> Cardinality({r \in Dated(Population(ThisYear)) : Ended(r)}),
        upcoming |-> Ids(next), links |-> [i \in DOMAIN next |-> PublicLink(next[i])],
        unlinked |-> Cardinality({i \in DOMAIN next : PublicLink(next[i]) = Blank}),
        timeline |-> {next[i].id : i \in {j \in DOMAIN next :
                                            next[j].start <= table.today + NearTermDays}}]

(***************************************************************************)
(* The reader.                                                             *)
(***************************************************************************)

NothingShown == [kind |-> "nothing"]
Waiting == [kind |-> "waiting"]
EventPage(a) ==
    [kind |-> "events", whole |-> TRUE, register |-> ProgrammePage(a),
     intelligence |-> IntelligencePage(a), overview |-> Executive]

EmptyTable ==
    [rows |-> {}, matched |-> <<>>, views |-> {}, reported |-> {}, products |-> <<>>,
     units |-> <<>>, today |-> 1]

Init ==
    /\ table = EmptyTable
    /\ address = PlainAddress
    /\ clicks = 0
    /\ shown = NothingShown

\* A workbook, a match, Google Analytics or the shop brings something, or a
\* day passes.
Collect ==
    /\ \E t \in Tables : table' = Published(t, table.rows)
    /\ table' # table
    /\ address' = PlainAddress
    /\ clicks' = 0
    /\ shown' = NothingShown

\* What a reader narrows by, one thing at a time.
Narrowed ==
    {PlainAddress}
    \cup {[PlainAddress EXCEPT !.chosen[d] = v] :
            d \in Dimensions, v \in {1, DateUnknown}}
    \cup {[PlainAddress EXCEPT !.link = l] : l \in {"linked", "unlinked"}}
    \cup {[PlainAddress EXCEPT !.review = v] : v \in {"required", "clear", "unreadable"}}
    \cup {[PlainAddress EXCEPT !.term = q] : q \in DOMAIN Terms}

\* event_programme_overview: an address typed or bookmarked.
OpenAddress ==
    /\ shown = NothingShown
    /\ table.rows # {}
    /\ \E a \in Narrowed, year \in {Absent, All} \cup 1..(ThisYear + 1),
          sort \in {"date", "views", "registrations"}, page \in 1..MaxPage :
         /\ page > 1 \/ sort # "date" => a = PlainAddress
         /\ address' = [a EXCEPT !.year = year, !.sort = sort, !.page = page]
    /\ shown' = Waiting
    /\ clicks' = 0
    /\ UNCHANGED table

\* event_programme_overview: the request is answered from the current rows.
Respond ==
    /\ shown = Waiting
    /\ shown' = EventPage(address)
    /\ UNCHANGED <<table, address, clicks>>

\* A link of the register, or of a year of the figures.
Follow ==
    /\ shown.kind = "events"
    /\ clicks < MaxClicks
    /\ clicks' = clicks + 1
    /\ address' \in shown.register.turns \cup shown.register.sorts \cup {shown.register.allYears}
                    \cup {q.url : q \in shown.register.quality} \cup shown.intelligence.yearLinks
    /\ shown' = Waiting
    /\ UNCHANGED table

\* programme_search_fragment: the form as it stands, from page one; only the
\* register is exchanged, and the address shows what the form carries.
SearchProgramme ==
    /\ shown.kind = "events"
    /\ clicks < MaxClicks
    /\ clicks' = clicks + 1
    /\ address' \in {[Url(shown.register.filters, 1) EXCEPT !.term = q, !.year = year] :
                        q \in DOMAIN Terms \cup {NoTerm}, year \in YearsIn(table.rows) \cup {All}}
    /\ shown' = [shown EXCEPT !.register = ProgrammePage(address'), !.whole = FALSE]
    /\ UNCHANGED table

Next ==
    \/ Collect
    \/ OpenAddress
    \/ Follow
    \/ SearchProgramme
    \/ Respond

Spec == Init /\ [][Next]_vars

(***************************************************************************)
(* Properties.                                                             *)
(***************************************************************************)

Summed(values) == MapThenSumSet(LAMBDA i : values[i], DOMAIN values)
Accounted(dist) == Summed(dist.count) + dist.rest

\* The pages of a question hold each row it matches once; a page number past
\* the end shows the last page; what was measured stands before what was not.
RegisterReadsOn(register) ==
    LET f == register.filters
        page(n) == ProgrammePage(Url(f, n)).items
        standing == UNION {{<<n, item.id>> : item \in Range(page(n))} : n \in 1..register.pages}
        figure(i) == IF f.sort = "views" THEN register.items[i].views ELSE register.items[i].units
    IN /\ register.items = page(register.number)
       /\ register.count > 0 => register.items # <<>>
       /\ {place[2] : place \in standing} = {r.id : r \in Matches(f)}
       /\ Cardinality(standing) = register.count
       /\ f.sort = "views" \/ (f.sort = "registrations" /\ SellsRegistrations) =>
            \A i \in 1..Len(register.items) - 1 : figure(i) >= figure(i + 1)

\* A row stands under "linked" when it shows a link, and the coverage counts
\* the same rows, whichever of the two sources the link is from.
LinksAreTold(register, coverage) ==
    LET with(l) == Cardinality(Matches([NoFilter EXCEPT !.link = l]))
        shows(i) == register.items[i].link # Blank
    IN /\ register.filters.link = "linked" => \A i \in DOMAIN register.items : shows(i)
       /\ register.filters.link = "unlinked" => \A i \in DOMAIN register.items : ~shows(i)
       /\ coverage.effectiveLinks = Cardinality({r \in table.rows : PublicLink(r) # Blank})
       /\ with("linked") = coverage.effectiveLinks
       /\ with("linked") + with("unlinked") = coverage.events
       /\ coverage.workbookLinks <= coverage.effectiveLinks

\* Every event of the year stands once in the past, now, ahead or nowhere;
\* once in a month and a quarter unless it has no date; once in each of the
\* shares.  The years and the undated are the whole programme.
TimeAddsUp(p) ==
    LET total == p.headline.total
        dated == total - p.state.unknown
    IN /\ p.state.past + p.state.ongoing + p.state.upcoming + p.state.unknown = total
       /\ Summed(p.years) + p.coverage.undated = p.coverage.events
       /\ Summed(p.quarters) = dated
       /\ p.year # All => Summed([m \in DOMAIN p.months |-> p.months[m].count]) = dated
       /\ \A m \in DOMAIN p.months : p.months[m].done # Unmeasured =>
            p.months[m].done + p.months[m].ahead = p.months[m].count
       /\ {Accounted(p.types), Accounted(p.modes), Accounted(p.prices)} = {total}

\* The page of this year and the card on the overview tell one story.
CardAgrees(p, card) ==
    /\ p.headline.starting = card.starting
    /\ p.year = ThisYear =>
         /\ p.headline.past = card.completed
         /\ p.headline.before # Unmeasured =>
              p.headline.started = card.ytd /\ p.headline.before = card.previous
    /\ Range(p.watched) \subseteq {r.id : r \in {s \in table.rows : s.start >= table.today}}
    /\ Range(p.upcoming) \subseteq Range(card.upcoming) \/ Len(card.upcoming) = TimelineLimit
    /\ card.unlinked = Cardinality({i \in DOMAIN card.upcoming :
                          ~HasEffectiveLink(CHOOSE r \in table.rows : r.id = card.upcoming[i])})

\* A link keeps the question but for what it changes, and a number that is a
\* link opens as many rows; the year links open the years they name.
LinksKeepTheQuestion(register, p) ==
    /\ \A u \in register.turns : ParseFilters(u) = register.filters
    /\ \A u \in register.sorts : ParseFilters(u) = [register.filters EXCEPT !.sort = u.sort]
    /\ ParseFilters(register.allYears) = [register.filters EXCEPT !.year = All]
    /\ ProgrammePage(register.allYears).count >= register.count
    /\ \A q \in register.quality : ProgrammePage(q.url).count = q.count
    /\ \A u \in p.yearLinks : ParseYear(u.year) = u.year
    /\ shown.whole => register.filters.year = p.year

\* The two halves of the Sündmused page and the card agree with each other
\* (build_programme_page, build_intelligence_page, get_events_executive).
EventPagesAgree ==
    shown.kind = "events" =>
        /\ RegisterReadsOn(shown.register)
        /\ LinksAreTold(shown.register, shown.intelligence.coverage)
        /\ TimeAddsUp(shown.intelligence)
        /\ CardAgrees(shown.intelligence, shown.overview)
        /\ LinksKeepTheQuestion(shown.register, shown.intelligence)
=============================================================================
