----------------------------- MODULE ShopReading -----------------------------
(***************************************************************************)
(* The E-pood pages (apps/shop): the period a request resolves to, the     *)
(* windows each source may answer, the totals, comparisons, mixes, movers  *)
(* and product rows read from the current rows, and the links by which a   *)
(* reader moves between the pages while packages are imported.             *)
(*                                                                         *)
(* Days are numbers from 1.  A table is one state of the current rows that *)
(* ShopImport and Ga4Sync leave; units, orders and values keep their sums, *)
(* wording and layout are left out.                                        *)
(***************************************************************************)
EXTENDS Integers, FiniteSets, FiniteSetsExt, TLC

CONSTANTS
    Tables,        \* the states of the current shop and traffic rows
    PeriodDays,    \* the named periods and their lengths, without all and custom
    DefaultPeriod, \* the period of an address that names none
    PageSize,      \* rows of one page of the product table
    MoverLimit,    \* rows of each list of movers
    TopCount,      \* the products whose share is the concentration
    MonthDays,     \* the length of a month
    AddressDates,  \* bound: the dates an address may name
    MaxClicks,     \* bound: links followed from one typed address
    Sorts          \* the orders of the product table, "units" among them

NoDate == 0
Unknown == -1
Anything == {}   \* a filter that is not set
NoProduct == 0
AllTypes == "all types"

ReadingAssumption ==
    /\ DefaultPeriod \in DOMAIN PeriodDays
    /\ \A k \in DOMAIN PeriodDays : PeriodDays[k] \in Nat \ {0}
    /\ {PageSize, MoverLimit, TopCount, MonthDays} \subseteq Nat \ {0}
    /\ AddressDates \subseteq Nat \ {0}
    /\ MaxClicks \in Nat
    /\ "units" \in Sorts

VARIABLES
    table,    \* the current rows
    address,  \* the address of the page on the reader's screen
    clicks,   \* bound: links followed since the last typed address
    shown     \* what the page shows, or NothingShown

vars == <<table, address, clicks, shown>>

Dates == AddressDates \cup {NoDate}
Keys == DOMAIN PeriodDays \cup {"all", "custom", "unreadable"}
Types == {"document", "event_registration", "physical_product"}

\* Rounding of n / d as Decimal.quantize does it: half to even.
Quantize(n, d) ==
    LET q == n \div d
        r == n % d
    IN IF 2 * r < d \/ (2 * r = d /\ q % 2 = 0) THEN q ELSE q + 1

MaxOf(a, b) == IF a >= b THEN a ELSE b
MinOf(a, b) == IF a <= b THEN a ELSE b

Total(field, rows) == MapThenSumSet(LAMBDA f : f[field], rows)

(***************************************************************************)
(* The period of a request and the windows of its answer.                  *)
(***************************************************************************)

HasData == table.coverage_end # NoDate

Window(a, b) == [start |-> a, end |-> b]
NoWindow == Window(NoDate, NoDate)

HasWindow(w) == w.start # NoDate /\ w.end # NoDate /\ w.start <= w.end

InWindow(d, w) == w.start <= d /\ d <= w.end

\* The window of a custom period whose dates are from and to, anchored at the
\* end of the imported orders; a reversed range is turned round.
CustomWindow(from, to, anchor) ==
    LET start == IF from = NoDate /\ to = NoDate
                 THEN anchor - PeriodDays[DefaultPeriod] + 1 ELSE from
        end == CASE to # NoDate -> to
                 [] from # NoDate -> MaxOf(anchor, from)
                 [] OTHER -> anchor
    IN IF start # NoDate /\ end < start THEN Window(end, start) ELSE Window(start, end)

\* resolve_period: never an error, whatever the address holds.
ResolvePeriod(a, anchor) ==
    LET custom == \/ a.key = "custom"
                  \/ a.key = "unreadable" /\ (a.from # NoDate \/ a.to # NoDate)
        named == IF a.key \in {"custom", "unreadable"} THEN DefaultPeriod ELSE a.key
    IN CASE custom -> [key |-> "custom", window |-> CustomWindow(a.from, a.to, anchor)]
         [] ~custom /\ named = "all" -> [key |-> "all", window |-> NoWindow]
         [] OTHER -> [key |-> named,
                      window |-> Window(anchor - PeriodDays[named] + 1, anchor)]

\* clamp_windows: what the orders can answer of the chosen period, and what the
\* measured traffic can answer of that.
ClampCommerce(chosen) ==
    Window(IF chosen.start = NoDate THEN table.coverage_start
           ELSE MaxOf(chosen.start, table.coverage_start),
           IF chosen.end = NoDate THEN table.coverage_end
           ELSE MinOf(chosen.end, table.coverage_end))

ClampWeb(commerce) ==
    LET measured == {d.day : d \in table.days}
        web == Window(MaxOf(commerce.start, Min(measured)),
                      MinOf(commerce.end, Max(measured)))
    IN IF measured = {} \/ ~HasWindow(commerce) THEN NoWindow
       ELSE IF web.start > web.end THEN NoWindow ELSE web

\* _page_detail_is_complete: an absent path is a measured zero only when every
\* day of the window carries page detail.
DetailIsComplete(web) ==
    /\ HasWindow(web)
    /\ Cardinality({d \in table.days : d.detail /\ InWindow(d.day, web)})
         >= web.end - web.start + 1

\* A plausible error: the previous window is cut to what was imported.
PreviousTruncated(w) ==
    LET before == Window(MaxOf(2 * w.start - w.end - 1, table.coverage_start), w.start - 1)
    IN IF ~HasWindow(w) \/ ~HasWindow(before) THEN NoWindow ELSE before

\* derive_period_pair: the equal window just before, refused and not truncated
\* where the imported history does not reach.
PreviousWindow(w) ==
    LET length == w.end - w.start + 1
        before == Window(w.start - length, w.start - 1)
    IN IF ~HasWindow(w) \/ before.start < table.coverage_start THEN NoWindow ELSE before

(***************************************************************************)
(* The selectors.                                                          *)
(***************************************************************************)

NoFilter == [type |-> Anything, member |-> Anything, category |-> Anything,
             product |-> Anything]

Matches(wanted, value) == wanted = Anything \/ value \in wanted

ProductsOf(rows) == {r.product : r \in rows}

\* latest_snapshots: the newest observation of each product.
LatestSnapshots ==
    {s \in table.snapshots :
        \A t \in table.snapshots : t.product = s.product => t.observed_on <= s.observed_on}

Named == ProductsOf(LatestSnapshots)

SnapshotOf(p) == CHOOSE s \in LatestSnapshots : s.product = p

FactsInWindow(w, filter) ==
    {f \in table.facts :
        /\ HasWindow(w)
        /\ InWindow(f.day, w)
        /\ Matches(filter.type, table.types[f.product])
        /\ Matches(filter.product, f.product)
        /\ Matches(filter.member, f.member)
        /\ \/ filter.category = Anything
           \/ f.product \in Named /\ SnapshotOf(f.product).category \in filter.category}

TotalsOf(rows) == [f \in {"orders", "units", "value"} |-> Total(f, rows)]

GetTotals(w, filter) == TotalsOf(FactsInWindow(w, filter))

\* get_monthly_series, and the series of the previous window moved onto the
\* dates of this one.
MonthOf(d) == d \div MonthDays

ByMonth(rows) ==
    [m \in {MonthOf(f.day) : f \in rows} |-> Total("units", {f \in rows : MonthOf(f.day) = m})]

MonthlySeries(w, filter) == ByMonth(FactsInWindow(w, filter))

\* get_member_split and get_payment_split: one total per value of the field.
By(field, rows) ==
    [v \in {f[field] : f \in rows} |-> Total("units", {f \in rows : f[field] = v})]

SplitBy(field, w, filter) == By(field, FactsInWindow(w, filter))

\* get_distinct_orders: unknown where the source publishes no summaries at all,
\* zero where it publishes some but none of the window.
DistinctOrders(w, type) ==
    LET rows == {s \in table.summaries : s.type = type /\ InWindow(s.day, w)}
    IN IF ~HasWindow(w) \/ table.summaries = {} THEN Unknown
       ELSE Total("orders", rows)

\* get_free_paid_split: facts of an older schema carry no classification, and
\* a sum over none of them is unknown rather than zero.
Mix(rows) ==
    IF rows = {} THEN [free |-> Unknown, paid |-> Unknown]
    ELSE [free |-> Total("free", rows), paid |-> Total("units", rows) - Total("free", rows)]

FreePaidSplit(w, filter) == Mix({f \in FactsInWindow(w, filter) : f.free # Unknown})

FreeShare(mix) ==
    IF mix.free = Unknown \/ mix.free + mix.paid <= 0 THEN Unknown
    ELSE Quantize(1000 * mix.free, mix.free + mix.paid)

\* page_views_in_window: a path that no row names is unknown, or zero where the
\* whole window carries detail.
PageViews(path, web) ==
    LET rows == {v \in table.views : v.path = path /\ InWindow(v.day, web)}
    IN CASE ~HasWindow(web) -> Unknown
         [] HasWindow(web) /\ rows # {} -> Total("views", rows)
         [] OTHER -> IF DetailIsComplete(web) THEN 0 ELSE Unknown

PathsOf(p, role) == {g.path : g \in {h \in table.paths : h.product = p /\ h.role = role}}

DenominatorRole(type) == IF type = "event_registration" THEN "event" ELSE "product"

\* The views of the page that carries the role, of which a product has one at
\* most; unknown when it has none.
ViewsOfRole(p, role, web) ==
    IF PathsOf(p, role) = {} THEN Unknown
    ELSE PageViews(CHOOSE path \in PathsOf(p, role) : TRUE, web)

AcquisitionsPerHundred(units, views) ==
    IF views <= 0 THEN Unknown ELSE Quantize(1000 * units, views)

\* _units_by_product, which leaves the member filter aside.
UnitsBefore(p, w, filter) ==
    Total("units", FactsInWindow(w, [filter EXCEPT !.product = {p}, !.member = Anything]))

\* build_product_rows: every named product in scope, sold or not; a fact whose
\* product has no snapshot counts in the totals only.
RowOf(p, now, conversion, views, web, previous) ==
    [product |-> p, title |-> SnapshotOf(p).title, category |-> SnapshotOf(p).category,
     units |-> now.units, orders |-> now.orders, value |-> now.value,
     conversion |-> conversion, views |-> views,
     product_views |-> ViewsOfRole(p, "product", web),
     rate |-> AcquisitionsPerHundred(conversion, views), previous |-> previous]

ProductRow(p, w, web, before, filter) ==
    LET mine == [filter EXCEPT !.product = {p}]
    IN RowOf(p, GetTotals(w, mine), GetTotals(web, mine).units,
             ViewsOfRole(p, DenominatorRole(table.types[p]), web), web,
             UnitsBefore(p, before, filter))

ProductRows(w, web, before, filter, search) ==
    {ProductRow(p, w, web, before, filter) :
        p \in {n \in Named : /\ HasWindow(w)
                             /\ Matches(filter.type, table.types[n])
                             /\ Matches(filter.category, SnapshotOf(n).category)
                             /\ Matches(search, SnapshotOf(n).title)}}

\* build_category_rows with aggregate_web: the views of a page that several
\* products share count once, and are unknown when nothing was measured.
CategoryRows(rows, web) ==
    LET in(c) == {r \in rows : r.category = c}
        measured(c) == UNION {PathsOf(r.product, DenominatorRole(table.types[r.product])) :
                                r \in {s \in in(c) : s.views # Unknown}}
    IN [c \in {r.category : r \in rows} |->
            [units |-> Total("units", in(c)),
             conversion |-> Total("conversion", in(c)),
             views |-> IF measured(c) = {} THEN Unknown
                       ELSE MapThenSumSet(LAMBDA path : PageViews(path, web), measured(c))]]

\* get_product_movers, by absolute change and then by title.
Change(r) == r.units - r.previous

MoverRank(r, rows) ==
    Cardinality({s \in rows : \/ Change(s) * Change(s) > Change(r) * Change(r)
                              \/ Change(s) = Change(r) /\ s.title < r.title})

Largest(rows) == {r \in rows : MoverRank(r, rows) < MoverLimit}

Movers(rows) == [risers |-> Largest({r \in rows : Change(r) > 0}),
                 fallers |-> Largest({r \in rows : Change(r) < 0})]

ProductMovers(w, before, filter) ==
    IF ~HasWindow(before) THEN [risers |-> {}, fallers |-> {}]
    ELSE Movers({ProductRow(p, w, NoWindow, before, filter) :
                    p \in Named \cap (ProductsOf(FactsInWindow(w, filter))
                                      \cup ProductsOf(FactsInWindow(before, filter)))})

\* long_tail_count and concentration_share.
Larger(r, s) ==
    \/ r.units > s.units
    \/ r.units = s.units /\ r.title < s.title

TopRows(n, rows) == {r \in rows : Cardinality({s \in rows : Larger(s, r)}) < n}

LongTailCount(rows) ==
    IF Total("units", rows) <= 0 THEN Unknown
    ELSE Min({n \in 1..Cardinality(rows) :
                100 * Total("units", TopRows(n, rows)) >= 80 * Total("units", rows)})

ConcentrationShare(rows) ==
    IF Cardinality(rows) <= TopCount \/ Total("units", rows) <= 0 THEN Unknown
    ELSE Quantize(100 * Total("units", TopRows(TopCount, rows)), Total("units", rows))

(***************************************************************************)
(* The pages.                                                              *)
(***************************************************************************)

\* _sort_key: a figure nobody measured stands behind every measured one.
Before(sort, r, s) ==
    LET figure(x) == CASE sort = "value" -> x.value
                       [] sort = "views" -> x.product_views
                       [] sort = "rate" -> x.rate
                       [] sort = "title" -> 0
                       [] OTHER -> x.units
        second(x) == IF sort = "units" THEN x.value ELSE 0
    IN \/ figure(r) > figure(s)
       \/ figure(r) = figure(s) /\ second(r) > second(s)
       \/ figure(r) = figure(s) /\ second(r) = second(s) /\ r.title < s.title

Rank(sort, r, rows) == 1 + Cardinality({s \in rows : Before(sort, s, r)})

\* The member control is withheld until the source has verified its flag.
EffectiveMember(a) == IF table.member_verified THEN a.member ELSE Anything

TotalPages(rows) == MaxOf(1, (Cardinality(rows) + PageSize - 1) \div PageSize)

NothingShown == [source |-> FALSE, waiting |-> FALSE]

\* A request on its way: for the overview, or for one product.
Waiting(p) == [source |-> FALSE, waiting |-> TRUE, product |-> p]

\* build_overview: the headline, the comparison and the series.
Figures(now, then, before, distinct, previous) ==
    [units |-> now.units, value |-> now.value,
     orders |-> IF distinct # Unknown THEN distinct ELSE now.orders,
     orders_are_distinct |-> distinct # Unknown,
     previous_units |-> IF HasWindow(before) THEN then.units ELSE Unknown,
     previous_orders |-> CASE ~HasWindow(before) -> Unknown
                           [] HasWindow(before) /\ distinct # Unknown -> previous
                           [] OTHER -> then.orders]

\* The table of products, sorted and paged.
Listed(a, rows, page) ==
    [rows |-> rows, page |-> page, pages |-> TotalPages(rows),
     visible |-> {r \in rows : Rank(a.sort, r, rows) \in
                                 (page - 1) * PageSize + 1 .. page * PageSize},
     share |-> ConcentrationShare(rows), tail |-> LongTailCount(rows)]

Listing(a, rows) == Listed(a, rows, MinOf(MaxOf(a.page, 1), TotalPages(rows)))

OverviewOf(a, resolved, commerce, web, before) ==
    LET documents == [NoFilter EXCEPT !.type = {"document"}]
    IN [source |-> TRUE, waiting |-> FALSE, detail |-> FALSE, period |-> resolved,
        commerce |-> commerce, web |-> web, before |-> before,
        months |-> MonthlySeries(commerce, NoFilter),
        previous_months |-> MonthlySeries(before, NoFilter),
        free_share |-> FreeShare(FreePaidSplit(commerce, NoFilter)),
        documents |-> GetTotals(commerce, documents),
        movers |-> ProductMovers(commerce, before, documents)]
       @@ Figures(GetTotals(commerce, NoFilter), GetTotals(before, NoFilter), before,
                  DistinctOrders(commerce, AllTypes), DistinctOrders(before, AllTypes))
       @@ Listing(a, ProductRows(commerce, web, before,
                                 [NoFilter EXCEPT !.type = a.type, !.category = a.category,
                                                  !.member = EffectiveMember(a)], a.search))

Windowed(a, resolved, commerce) ==
    OverviewOf(a, resolved, commerce, ClampWeb(commerce), PreviousWindow(commerce))

Overview(a) ==
    LET resolved == ResolvePeriod(a, table.coverage_end)
    IN Windowed(a, resolved, ClampCommerce(resolved.window))

\* build_product_detail: the figures of one product, without the table's filters.
ProductDetail(p, a) ==
    LET resolved == ResolvePeriod(a, table.coverage_end)
        commerce == ClampCommerce(resolved.window)
        web == ClampWeb(commerce)
        before == PreviousWindow(commerce)
        mine == [NoFilter EXCEPT !.product = {p}]
        views == ViewsOfRole(p, DenominatorRole(table.types[p]), web)
    IN [source |-> TRUE, waiting |-> FALSE, detail |-> TRUE, product |-> p, period |-> resolved,
        commerce |-> commerce, web |-> web, before |-> before,
        totals |-> GetTotals(commerce, mine), views |-> views,
        rate |-> AcquisitionsPerHundred(GetTotals(web, mine).units, views),
        previous_units |-> IF HasWindow(before) THEN GetTotals(before, mine).units ELSE Unknown,
        months |-> MonthlySeries(commerce, mine),
        members |-> SplitBy("member", commerce, mine),
        payments |-> SplitBy("payment", commerce, mine),
        mix |-> FreePaidSplit(commerce, mine)]

\* build_query: the address of a link.  Dates travel with a custom period only.
BuildQuery(resolved, state) ==
    [state EXCEPT !.key = resolved.key,
                  !.from = IF resolved.key = "custom" THEN resolved.window.start ELSE NoDate,
                  !.to = IF resolved.key = "custom" THEN resolved.window.end ELSE NoDate]

\* The links carry the table's filters; the page number starts again, except
\* in the paging links.
LinkState(a) == [a EXCEPT !.member = EffectiveMember(a), !.page = 1]

Answer(a) == IF HasData THEN Overview(a) ELSE NothingShown

\* shop_overview and shop_product: the request is answered from the current rows.
Respond ==
    /\ shown.waiting
    /\ shown' = IF shown.product = NoProduct THEN Answer(address)
                ELSE ProductDetail(shown.product, address)
    /\ UNCHANGED <<table, address, clicks>>

PlainAddress == [key |-> "unreadable", from |-> NoDate, to |-> NoDate, type |-> Anything,
                 member |-> Anything, category |-> Anything, search |-> Anything,
                 sort |-> "units", page |-> 1]

EmptyTable == [coverage_start |-> NoDate, coverage_end |-> NoDate, member_verified |-> FALSE,
               facts |-> {}, snapshots |-> {}, summaries |-> {}, paths |-> {},
               days |-> {}, views |-> {}, types |-> <<>>]

Init ==
    /\ table = EmptyTable
    /\ address = PlainAddress
    /\ clicks = 0
    /\ shown = NothingShown

\* A publication replaces current rows between two requests; the address on
\* the screen stays.
Publish ==
    /\ ~shown.waiting
    /\ table' \in Tables
    /\ table' # table
    /\ shown' = NothingShown
    /\ UNCHANGED <<address, clicks>>

\* An address typed, bookmarked or sent by the date form.
OpenAddress ==
    /\ shown = NothingShown
    /\ \E key \in Keys, from \in Dates, to \in Dates, page \in {1, 9} :
         /\ key \in {"custom", "unreadable"} \/ (from = NoDate /\ to = NoDate)
         /\ page = 1 \/ key = "all"
         /\ address' = [PlainAddress EXCEPT !.key = key, !.from = from, !.to = to,
                                           !.page = page]
    /\ shown' = Waiting(NoProduct)
    /\ clicks' = 0
    /\ UNCHANGED table

\* The filter form of the product table.
NarrowForms ==
    UNION {{[LinkState(address) EXCEPT !.member = member],
            [LinkState(address) EXCEPT !.search = {s.title}],
            [LinkState(address) EXCEPT !.category = {s.category}]} :
                member \in {{"member"}, Anything}, s \in table.snapshots}

\* period_options: the custom choice keeps its dates while it is active.
PeriodOptions ==
    {BuildQuery([key |-> key, window |-> IF key = "custom" /\ shown.period.key = "custom"
                                         THEN shown.period.window ELSE NoWindow],
                LinkState(address)) : key \in DOMAIN PeriodDays \cup {"all", "custom"}}

Here == BuildQuery(shown.period, LinkState(address))

\* _type_options, _sort_options and the paging links.
TypeOptions == {[Here EXCEPT !.type = type] : type \in {{t} : t \in Types} \cup {Anything}}
SortOptions == {[Here EXCEPT !.sort = sort] : sort \in Sorts}
PageOptions ==
    {[Here EXCEPT !.page = n] : n \in {shown.page - 1, shown.page + 1} \cap (1..shown.pages)}

\* A link or a form of the page on the screen.
Follow ==
    /\ shown.source
    /\ clicks < MaxClicks
    /\ clicks' = clicks + 1
    /\ address' \in PeriodOptions
                    \cup IF shown.detail THEN {}
                         ELSE NarrowForms \cup TypeOptions \cup SortOptions \cup PageOptions
    /\ shown' = Waiting(NoProduct)
    /\ UNCHANGED table

OpenProduct ==
    /\ shown.source /\ ~shown.detail
    /\ \E r \in shown.visible : shown' = Waiting(r.product)
    /\ address' = Here
    /\ UNCHANGED <<table, clicks>>

Next ==
    \/ Publish
    \/ OpenAddress
    \/ Follow
    \/ OpenProduct
    \/ Respond

Spec == Init /\ [][Next]_vars

(***************************************************************************)
(* Properties.                                                             *)
(***************************************************************************)

DaysOf(w) == IF HasWindow(w) THEN w.start..w.end ELSE {}

CoveredDays == table.coverage_start..table.coverage_end

MeasuredDays ==
    LET measured == {d.day : d \in table.days}
    IN IF measured = {} THEN {} ELSE Min(measured)..Max(measured)

ChosenDays(w) ==
    {d \in CoveredDays : /\ w.start = NoDate \/ w.start <= d
                         /\ w.end = NoDate \/ d <= w.end}

\* The orders are read on exactly the imported days that were chosen, the
\* traffic on those of them that were measured, and the comparison on as many
\* imported days just before.
WindowsNest ==
    /\ DaysOf(shown.commerce) = ChosenDays(shown.period.window)
    /\ DaysOf(shown.web) = DaysOf(shown.commerce) \cap MeasuredDays
    /\ HasWindow(shown.before) =>
         /\ DaysOf(shown.before) \subseteq CoveredDays
         /\ Cardinality(DaysOf(shown.before)) = Cardinality(DaysOf(shown.commerce))
         /\ shown.before.end + 1 = shown.commerce.start
    /\ ~HasWindow(shown.before) /\ DaysOf(shown.commerce) # {} =>
         2 * shown.commerce.start < shown.commerce.end + 1 + table.coverage_start

UnitsOn(days, products) ==
    Total("units", {f \in table.facts : f.day \in days /\ f.product \in products})

SumOf(f) == MapThenSumSet(LAMBDA x : f[x], DOMAIN f)

\* The trend, the table of products and the headline count the same units: the
\* table leaves out nothing but products that have no name.
FiguresAddUp ==
    /\ shown.units = UnitsOn(DaysOf(shown.commerce), DOMAIN table.types)
    /\ shown.units = SumOf(shown.months)
    /\ shown.previous_units # Unknown => shown.previous_units = SumOf(shown.previous_months)
    /\ address.type = Anything /\ address.category = Anything /\ address.search = Anything
       /\ EffectiveMember(address) = Anything =>
         /\ Total("units", shown.rows) = UnitsOn(DaysOf(shown.commerce), Named)
         /\ Total("previous", shown.rows) = UnitsOn(DaysOf(shown.before), Named)
    /\ Total("units", shown.rows) = SumOf([c \in {r.category : r \in shown.rows} |->
                                            CategoryRows(shown.rows, shown.web)[c].units])

\* A rate divides the units of the measured days by the views of the same
\* days, and an absent page view is zero only where every day carries detail.
RatesShareAWindow ==
    \A r \in shown.rows :
        LET days == DaysOf(shown.web)
            role == DenominatorRole(table.types[r.product])
            views == MapThenSumSet(LAMBDA v : v.views,
                        {v \in table.views : v.day \in days /\ v.path \in PathsOf(r.product, role)})
        IN r.rate # Unknown =>
             /\ views > 0
             /\ EffectiveMember(address) = Anything =>
                  r.rate = Quantize(1000 * UnitsOn(days, {r.product}), views)

\* Orders are compared with orders of the same kind.
OrdersAreAlike ==
    shown.orders_are_distinct /\ shown.previous_orders # Unknown =>
        shown.previous_orders = Total("orders", {s \in table.summaries :
                                    s.type = AllTypes /\ s.day \in DaysOf(shown.before)})

\* The pages of the table hold every row exactly once, in one order in which
\* an unmeasured figure precedes no measured one, and the page asked for is
\* never past the end.
PagesPartition ==
    LET rows == shown.rows
        at(n) == {r \in rows : Rank(address.sort, r, rows) = n}
    IN /\ \A n \in 1..Cardinality(rows) : Cardinality(at(n)) = 1
       /\ shown.page \in 1..shown.pages
       /\ shown.visible = UNION {at(n) : n \in (shown.page - 1) * PageSize + 1
                                                .. shown.page * PageSize}
       /\ rows # {} => shown.visible # {}
       /\ \A r \in rows, s \in rows :
            address.sort = "rate" /\ r.rate = Unknown /\ s.rate # Unknown => Before("rate", s, r)

\* A reader who follows a link that changes nothing stays on the same figures:
\* the period in the link resolves to the windows it was made from.
LinksReturnToPeriod ==
    LET back == Answer([BuildQuery(shown.period, LinkState(address)) EXCEPT !.page = shown.page])
    IN /\ back.period = shown.period
       /\ back.rows = shown.rows
       /\ back.visible = shown.visible

\* The risers and fallers are disjoint, nothing outside a list moved more than
\* what is on it, and there are none without a comparison.
MoversAreTheLargest ==
    /\ ~HasWindow(shown.before) => shown.movers.risers \cup shown.movers.fallers = {}
    /\ \A r \in shown.movers.risers, p \in Named :
         LET delta == UnitsOn(DaysOf(shown.commerce), {p}) - UnitsOn(DaysOf(shown.before), {p})
         IN table.types[p] = "document" /\ delta > r.units - r.previous =>
              p \in {q.product : q \in shown.movers.risers}

\* The splits of one product's page add up to its total.
DetailAddsUp ==
    /\ shown.totals.units = SumOf(shown.months)
    /\ shown.totals.units = SumOf(shown.members)
    /\ shown.totals.units = SumOf(shown.payments)
    /\ shown.totals.units = UnitsOn(DaysOf(shown.commerce), {shown.product})
    /\ shown.rate # Unknown => HasWindow(shown.web) /\ shown.views > 0

\* What the E-pood pages show adds up across their windows, tables and links.
ShopPagesAgree ==
    /\ shown.source => WindowsNest
    /\ shown.source /\ ~shown.detail =>
         /\ FiguresAddUp
         /\ RatesShareAWindow
         /\ OrdersAreAlike
         /\ PagesPartition
         /\ LinksReturnToPeriod
         /\ MoversAreTheLargest
    /\ shown.source /\ shown.detail => DetailAddsUp
==============================================================================
