---------------------------- MODULE NewsReading ----------------------------
(***************************************************************************)
(* The Uudised page (apps/news): the publication period an address asks    *)
(* for, the archive of catalogued articles with its filters, order and     *)
(* paging, the publishing counts and cadence, news reading as part of the  *)
(* reading of the site, what a normal first month is, and the news half of *)
(* the overview's card.                                                    *)
(*                                                                         *)
(* A moment is half a day: the first half of a day in Tallinn still lies   *)
(* in the day before in UTC.  Days are numbers from 1; a catalogue is a    *)
(* state of the article rows together with the reporting days.  Wording,   *)
(* colours and layout are left out.                                        *)
(***************************************************************************)
EXTENDS Integers, FiniteSets, FiniteSetsExt, TLC

CONSTANTS
    Catalogues,     \* states of articles, reporting days and page rows
    Listings,       \* paths that list articles and are none themselves
    PresetDays,     \* the offered periods and their lengths, without all
    DefaultPreset,
    FirstMonth,     \* days of an article's first month
    CohortDays,     \* how far back comparable articles reach
    MinCohort,      \* articles a comparison needs
    MonthlyFrom,    \* days from which the cadence is monthly
    WeekDays, MonthDays,  \* lengths of a week and of a month
    MonthIsWhole,   \* day of the month from which it counts as finished
    WeekIsWhole,    \* days after which a week counts as finished
    Bands,          \* lower bounds of the distribution's bands
    ChangePercent,  \* change of news reading that is worth a signal
    PerPage,
    Matching,       \* per search term: the paths it matches by title or path
    AddressDates,   \* bound: the dates an address may name
    MaxPage,        \* bound: the page an address may name
    MaxClicks       \* bound: links followed from one typed address

NoDate == -100
NoMoment == -1000
Unknown == -1
NoTerm == "no term"
NoCategory == "unclassified"
Categories == {"chamber", "partner"}

NewsAssumption ==
    /\ DefaultPreset \in DOMAIN PresetDays
    /\ \A k \in DOMAIN PresetDays : PresetDays[k] \in Nat \ {0}
    /\ {FirstMonth, CohortDays, WeekDays, MonthDays, PerPage} \subseteq Nat \ {0}
    /\ 0 \in Bands
    /\ \A c \in Catalogues : \A r, s \in c.articles : r.path = s.path => r = s

VARIABLES
    table,    \* the catalogue, the feed, the reporting days and today's date
    address,  \* the address of the page on the reader's screen
    clicks,   \* bound: links followed since the last typed address
    shown     \* what the page shows

vars == <<table, address, clicks, shown>>

MaxOf(a, b) == IF a >= b THEN a ELSE b
MinOf(a, b) == IF a <= b THEN a ELSE b

SumOf(field, rows) ==
    IF rows = {} THEN Unknown ELSE MapThenSumSet(LAMBDA r : r[field], rows)

OrZero(n) == IF n = Unknown THEN 0 ELSE n

Fraction(n, d) == [n |-> n, d |-> d]
NoFraction == Fraction(0, 0)
Known(f) == f.d # 0

\* The day of a moment in Tallinn, and in UTC.
PublishedDay(m) == m \div 2
UtcDay(m) == (m - 1) \div 2

(***************************************************************************)
(* What is stored.                                                         *)
(***************************************************************************)

CurrentDays == {d \in table.days : d.current}
CurrentPages == {p \in table.pages : p.current}

Window(a, b) == [start |-> a, end |-> b]
NoWindow == Window(NoDate, NoDate)
HasWindow(w) == w.start # NoDate /\ w.end # NoDate
Inside(day, w) == w.start <= day /\ day <= w.end
Length(w) == w.end - w.start + 1

\* get_coverage.
Coverage ==
    LET dates == {d.date : d \in CurrentDays}
    IN IF dates = {} THEN NoWindow ELSE Window(Min(dates), Max(dates))

\* article_resources.
Articles == {r \in table.articles : r.path \notin Listings}
Dated == {r \in Articles : r.moment # NoMoment}

\* page_view_total_subquery: nothing measured is no figure, never zero.
MeasuredViews(path) == SumOf("views", {p \in CurrentPages : p.path = path})

(***************************************************************************)
(* The publication period.                                                 *)
(***************************************************************************)

Period(key, start, end) == [key |-> key, start |-> start, end |-> end]

Preset(key) == Period(key, table.today - PresetDays[key] + 1, table.today)

\* Nothing filled in offers the default window, a missing start stays open,
\* a missing end is today, a reversed pair is turned round.
CustomPeriod(from, to) ==
    LET end == IF to = NoDate THEN MaxOf(table.today, from) ELSE to
    IN CASE from = NoDate /\ to = NoDate ->
              Period("custom", Preset(DefaultPreset).start, Preset(DefaultPreset).end)
         [] from = NoDate /\ to # NoDate -> Period("custom", NoDate, to)
         [] OTHER -> Period("custom", MinOf(from, end), MaxOf(from, end))

\* resolve_period: a named period wins, a date alone asks for a custom one.
ResolvePeriod(key, from, to) ==
    LET dated == from # NoDate \/ to # NoDate
    IN CASE key = "custom" \/ (key = "unreadable" /\ dated) -> CustomPeriod(from, to)
         [] key = "unreadable" /\ ~dated -> Preset(DefaultPreset)
         [] key = "all" -> Period("all", NoDate, NoDate)
         [] OTHER -> Preset(key)

IsWindowed(p) == p.start # NoDate \/ p.end # NoDate

\* A plausible error: the last day ends where it begins.
WithinMidnights(m, p) ==
    /\ p.start # NoDate => m >= 2 * p.start
    /\ p.end # NoDate => m <= 2 * p.end

\* ResolvedPeriod.bounds: half open at the top, so the last day is whole.
WithinBounds(m, p) ==
    /\ p.start # NoDate => m >= 2 * p.start
    /\ p.end # NoDate => m < 2 * (p.end + 1)

(***************************************************************************)
(* The archive.                                                            *)
(***************************************************************************)

\* news_resources: the rows asked for ...
Matched(a, p) ==
    {r \in table.articles :
        /\ IsWindowed(p) => r.moment # NoMoment /\ WithinBounds(r.moment, p)
        /\ a.category # NoCategory => r.category = a.category
        /\ a.search # NoTerm => r.path \in Matching[a.search]}

\* ... in their order: the unmeasured behind the measured, the undated behind
\* the dated, the path where nothing else decides.
Before(key, r, s) ==
    \/ key[r] > key[s]
    \/ key[r] = key[s] /\ r.moment > s.moment
    \/ key[r] = key[s] /\ r.moment = s.moment /\ r.path < s.path

(***************************************************************************)
(* What a normal first month is.                                           *)
(***************************************************************************)

FirstViews(r) ==
    LET day == PublishedDay(r.moment)
    IN SumOf("views", {p \in CurrentPages :
            p.path = r.path /\ Inside(p.date, Window(day, day + FirstMonth - 1))})

\* eligible_cohort, from the day the cohorts reach back to.
EligibleCohort(category) ==
    {r \in Dated :
        LET day == PublishedDay(r.moment)
        IN /\ HasWindow(Coverage)
           /\ Inside(day, Window(Coverage.start, Coverage.end - FirstMonth + 1))
           /\ day >= Coverage.end - CohortDays + 1
           /\ category # NoCategory => r.category = category}

\* cohort_values: an article GA4 recorded nothing for counts as zero.
CohortValue(r) == OrZero(FirstViews(r))

\* percentile: interpolated between two neighbours, a half rounded to even.
Percentile(value, percent) ==
    LET rows == DOMAIN value
        ahead(s, r) == value[s] < value[r] \/ (value[s] = value[r] /\ s.path < r.path)
        at(n) == value[CHOOSE r \in rows : Cardinality({s \in rows : ahead(s, r)}) = n]
        position == percent * (Cardinality(rows) - 1)
        lower == position \div 100
        upper == MinOf(lower + 1, Cardinality(rows) - 1)
        scaled == at(lower) * (100 - (position % 100)) + at(upper) * (position % 100)
        whole == scaled \div 100
        half == scaled - 100 * whole
        up == half > 50 \/ (half = 50 /\ whole % 2 = 1)
    IN IF rows = {} THEN Unknown ELSE IF up THEN whole + 1 ELSE whole

\* cohort_stats.
CohortStats(category) ==
    LET value == [r \in EligibleCohort(category) |-> CohortValue(r)]
    IN [count |-> Cardinality(DOMAIN value), p25 |-> Percentile(value, 25),
        median |-> Percentile(value, 50), p75 |-> Percentile(value, 75),
        p90 |-> Percentile(value, 90)]

\* benchmark_cohorts; NoCategory holds the cohort of all news.
BenchmarkCohorts == [c \in Categories \cup {NoCategory} |-> CohortStats(c)]

IsUsable(stats) == stats.count >= MinCohort

\* benchmark_for: the category's own cohort, or all news, or nothing.
ComparedWith(cohorts, category) ==
    IF IsUsable(cohorts[category]) THEN category ELSE NoCategory

\* build_impact with first_month_distribution, for a cohort that is usable.
Distribution ==
    LET members == EligibleCohort(NoCategory)
        band(r) == Max({b \in Bands : b <= CohortValue(r)})
    IN [b \in IF Cardinality(members) >= MinCohort THEN Bands ELSE {} |->
            Cardinality({r \in members : band(r) = b})]

\* _describe: a row, and how far it stands from normal.
Describe(r, cohorts) ==
    LET views == MeasuredViews(r.path)
        day == IF r.moment = NoMoment THEN NoDate ELSE UtcDay(r.moment)
        fresh == r.moment # NoMoment /\ HasWindow(Coverage) /\ day >= Coverage.end
        cohort == ComparedWith(cohorts, r.category)
        compared == /\ HasWindow(Coverage) /\ views # Unknown /\ ~fresh
                    /\ IsUsable(cohorts[cohort]) /\ cohorts[cohort].median # 0
    IN [path |-> r.path, day |-> day, views |-> views, fresh |-> fresh,
        cohort |-> IF compared THEN cohort ELSE "none",
        ratio |-> IF compared THEN Fraction(views, cohorts[cohort].median) ELSE NoFraction]

\* build_news_archive: a page past the end is the last one.
Archive(a) ==
    LET period == ResolvePeriod(a.key, a.from, a.to)
        matched == Matched(a, period)
        key == [r \in matched |-> IF a.sort = "views" THEN MeasuredViews(r.path) ELSE 0]
        place == [r \in matched |-> 1 + Cardinality({s \in matched : Before(key, s, r)})]
        pages == MaxOf((Cardinality(matched) + PerPage - 1) \div PerPage, 1)
        page == MinOf(a.page, pages)
        cohorts == BenchmarkCohorts
    IN [period |-> period, sort |-> a.sort, category |-> a.category, search |-> a.search,
        total |-> Cardinality(matched), page |-> page, pages |-> pages,
        rows |-> [n \in {place[r] : r \in matched} \cap ((page - 1) * PerPage + 1 .. page * PerPage) |->
                    Describe(CHOOSE r \in matched : place[r] = n, cohorts)],
        undated |-> Cardinality({r \in table.articles : r.moment = NoMoment}),
        unclassified |-> Cardinality({r \in table.articles : r.category = NoCategory}),
        empty |-> table.articles = {}]

(***************************************************************************)
(* Publishing.                                                             *)
(***************************************************************************)

Published(w) == {r \in Dated : Inside(PublishedDay(r.moment), w)}

CountOf(rows) ==
    [total |-> Cardinality(rows)]
    @@ [c \in Categories \cup {NoCategory} |-> Cardinality({r \in rows : r.category = c})]

EverPublished ==
    LET days == {PublishedDay(r.moment) : r \in Dated}
    IN IF days = {} THEN NoWindow ELSE Window(Min(days), Max(days))

\* published_between.
PublishedBetween(p) == CountOf(IF HasWindow(p) THEN Published(p) ELSE Dated)

PreviousWindow(w) == Window(w.start - Length(w), w.start - 1)

\* publishing_grain.
Grain(w) == IF Length(w) >= MonthlyFrom THEN MonthDays ELSE WeekDays

\* publishing_series: no row for a period without publishing.
PublishingSeries(w) ==
    LET bucket(r) == PublishedDay(r.moment) \div Grain(w)
        rows == Published(w)
    IN [b \in {bucket(r) : r \in rows} |-> CountOf({r \in rows : bucket(r) = b})]

\* build_publishing: a period with an open end is the whole catalogue; the
\* last bucket may still be running.
BuildPublishing(p) ==
    LET w == IF HasWindow(p) THEN Window(p.start, p.end) ELSE EverPublished
        series == PublishingSeries(w)
        last == Max(DOMAIN series)
        running == IF Grain(w) = MonthDays THEN (w.end % MonthDays) < MonthIsWhole
                   ELSE w.end - last * WeekDays < WeekIsWhole
    IN IF ~HasWindow(w) THEN [window |-> NoWindow, counted |-> CountOf({}), series |-> <<>>,
                              partial |-> FALSE]
       ELSE [window |-> w, counted |-> CountOf(Published(w)), series |-> series,
             partial |-> DOMAIN series # {} /\ running]

(***************************************************************************)
(* Reading.                                                                *)
(***************************************************************************)

\* _reading_window: the same window, as far as it was measured.
ReadingWindow(p) ==
    LET start == IF p.start = NoDate THEN Coverage.start ELSE MaxOf(p.start, Coverage.start)
        end == IF p.end = NoDate THEN Coverage.end ELSE MinOf(p.end, Coverage.end)
        cut == \/ p.start # NoDate /\ p.start < Coverage.start
               \/ p.end # NoDate /\ p.end > Coverage.end
    IN CASE ~HasWindow(Coverage) -> [window |-> NoWindow, truncated |-> FALSE]
         [] HasWindow(Coverage) /\ start > end -> [window |-> NoWindow, truncated |-> cut]
         [] OTHER -> [window |-> Window(start, end), truncated |-> cut]

NoTraffic == [news |-> Unknown, site |-> Unknown, read |-> 0, share |-> NoFraction]

\* news_traffic: a page is news because the catalogue says so.
NewsTraffic(w) ==
    LET rows == {p \in CurrentPages : Inside(p.date, w) /\ p.path \in {r.path : r \in Articles}}
        news == SumOf("views", rows)
        site == SumOf("views", {d \in CurrentDays : Inside(d.date, w)})
    IN [news |-> news, site |-> site, read |-> Cardinality({p.path : p \in rows}),
        share |-> IF news = Unknown \/ site <= 0 THEN NoFraction ELSE Fraction(news, site)]

\* previous_traffic_within: refused, not clipped.
PreviousTraffic(w) ==
    IF PreviousWindow(w).start < Coverage.start THEN NoTraffic
    ELSE NewsTraffic(PreviousWindow(w))

Change(now, then) ==
    IF now = Unknown \/ then <= 0 THEN NoFraction ELSE Fraction(now - then, then)

\* build_overview.
Overview(p, w) ==
    LET now == IF HasWindow(w) THEN NewsTraffic(w) ELSE NoTraffic
        then == IF HasWindow(w) THEN PreviousTraffic(w) ELSE NoTraffic
    IN [published |-> PublishedBetween(p),
        published_before |-> IF HasWindow(p) THEN PublishedBetween(PreviousWindow(p)).total
                             ELSE Unknown,
        traffic |-> now, previous |-> then,
        change |-> Change(now.news, then.news),
        share_change |-> Known(now.share) /\ Known(then.share),
        typical |-> IF HasWindow(Coverage) /\ IsUsable(CohortStats(NoCategory))
                    THEN CohortStats(NoCategory).median ELSE Unknown]

\* catalogue_facts.
CatalogueFacts ==
    CountOf(Articles)
    @@ [dated |-> Cardinality(Dated), undated |-> Cardinality(Articles \ Dated),
        listings |-> Cardinality({r \in table.articles : r.path \in Listings})]

NothingShown == [kind |-> "nothing"]
Waiting == [kind |-> "waiting"]

\* build_news_page with the archive beneath it.
NewsPage(a) ==
    LET period == ResolvePeriod(a.key, a.from, a.to)
        reading == ReadingWindow(period)
    IN [kind |-> "news", archive |-> Archive(a), reading |-> reading,
        overview |-> Overview(period, reading.window),
        publishing |-> BuildPublishing(period),
        cohorts |-> BenchmarkCohorts, distribution |-> Distribution, facts |-> CatalogueFacts]

\* get_news_executive: the website's own default window, and at most one
\* signal, when reading moved enough.
NewsExecutive ==
    LET w == Window(MaxOf(Coverage.end - PresetDays[DefaultPreset] + 1, Coverage.start),
                    Coverage.end)
        now == NewsTraffic(w)
        then == PreviousTraffic(w)
        change == Change(now.news, then.news)
    IN IF ~HasWindow(Coverage) THEN [kind |-> "overview", window |-> NoWindow]
       ELSE [kind |-> "overview", window |-> w, traffic |-> now, previous |-> then.news,
             published |-> IF table.feed THEN PublishedBetween(w).total ELSE Unknown,
             signal |-> CASE ~Known(change) -> "none"
                          [] Known(change) /\ 100 * change.n >= ChangePercent * change.d -> "up"
                          [] Known(change) /\ -100 * change.n >= ChangePercent * change.d -> "down"
                          [] OTHER -> "none"]

PlainAddress == [key |-> "unreadable", from |-> NoDate, to |-> NoDate, sort |-> "newest",
                 search |-> NoTerm, category |-> NoCategory, page |-> 1]

EmptyTable == [articles |-> {}, feed |-> FALSE, days |-> {}, pages |-> {}, today |-> 1]

Init ==
    /\ table = EmptyTable
    /\ address = PlainAddress
    /\ clicks = 0
    /\ shown = NothingShown

\* The feed, the category listings or Google Analytics bring something, or a
\* day passes.
Collect ==
    /\ table' \in Catalogues
    /\ table' # table
    /\ address' = PlainAddress
    /\ clicks' = 0
    /\ shown' = NothingShown

\* news_overview: an address typed, bookmarked or sent by the date form.
OpenAddress ==
    /\ shown = NothingShown
    /\ \E key \in DOMAIN PresetDays \cup {"all", "custom", "unreadable"},
          from \in AddressDates \cup {NoDate}, to \in AddressDates \cup {NoDate},
          page \in 1..MaxPage :
         /\ from # NoDate \/ to # NoDate => key \in {"custom", "unreadable"} /\ page = 1
         /\ address' = [PlainAddress EXCEPT !.key = key, !.from = from, !.to = to, !.page = page]
    /\ shown' = Waiting
    /\ clicks' = 0
    /\ UNCHANGED table

\* The card on the overview.
OpenOverview ==
    /\ shown = NothingShown
    /\ shown' = NewsExecutive
    /\ UNCHANGED <<table, address, clicks>>

\* build_query: validated choices only, and dates for a custom period alone.
Query(period, sort, search, category, page) ==
    LET dated == period.key = "custom"
    IN [key |-> period.key, from |-> IF dated THEN period.start ELSE NoDate,
        to |-> IF dated THEN period.end ELSE NoDate, sort |-> sort, search |-> search,
        category |-> category, page |-> page]

\* period_options: the custom choice keeps its dates only while it is active.
PeriodOptions(archive) ==
    {Query(IF k = archive.period.key THEN archive.period ELSE Period(k, NoDate, NoDate),
           archive.sort, archive.search, archive.category, 1) :
        k \in DOMAIN PresetDays \cup {"all", "custom"}}

\* _sort_options and _category_options.
SortOptions(archive) ==
    {Query(archive.period, s, archive.search, archive.category, 1) : s \in {"newest", "views"}}

CategoryOptions(archive) ==
    {Query(archive.period, archive.sort, archive.search, c, 1) :
        c \in Categories \cup {NoCategory}}

\* previous_query and next_query.
PageOptions(archive) ==
    {Query(archive.period, archive.sort, archive.search, archive.category, n) :
        n \in {MaxOf(archive.page - 1, 1), MinOf(archive.page + 1, archive.pages)}}

\* news_overview: the request is answered from the current rows.
Respond ==
    /\ shown = Waiting
    /\ shown' = NewsPage(address)
    /\ UNCHANGED <<table, address, clicks>>

Follow ==
    /\ shown.kind = "news"
    /\ clicks < MaxClicks
    /\ clicks' = clicks + 1
    /\ address' \in PeriodOptions(shown.archive) \cup SortOptions(shown.archive)
                    \cup CategoryOptions(shown.archive) \cup PageOptions(shown.archive)
    /\ shown' = Waiting
    /\ UNCHANGED table

\* news_search_fragment: page one of the archive alone, and the address the
\* reader had with the term in it.
SearchNews ==
    /\ shown.kind = "news"
    /\ clicks < MaxClicks
    /\ clicks' = clicks + 1
    /\ address' \in {[address EXCEPT !.search = term, !.page = 1] :
                        term \in DOMAIN Matching \cup {NoTerm}}
    /\ shown' = [shown EXCEPT !.archive = Archive(address')]
    /\ UNCHANGED table

Next ==
    \/ Collect
    \/ OpenAddress
    \/ OpenOverview
    \/ Follow
    \/ SearchNews
    \/ Respond

Spec == Init /\ [][Next]_vars

(***************************************************************************)
(* Properties.                                                             *)
(***************************************************************************)

Counted(count) == MapThenSumSet(LAMBDA c : count[c], Categories \cup {NoCategory})

\* A period counts each article once, in one bucket and one category; asked
\* without a filter, the archive holds the articles counted and the listings
\* of the period, whether it compares moments or days.
CountsAgree ==
    LET counted == shown.publishing.counted
        series == shown.publishing.series
        archive == shown.archive
        period == archive.period
        listings == {r \in table.articles : r.path \in Listings /\ r.moment # NoMoment}
        listed == {r \in listings : Inside(PublishedDay(r.moment), period)}
        unfiltered == archive.search = NoTerm /\ archive.category = NoCategory
    IN /\ counted.total = Counted(counted)
       /\ MapThenSumSet(LAMBDA b : Counted(series[b]), DOMAIN series) = counted.total
       /\ HasWindow(period) =>
            /\ shown.overview.published = counted
            /\ unfiltered => archive.total = counted.total + Cardinality(listed)

\* No article is lost or shown twice between the pages, none without a date
\* stands in a period, and a page asked for beyond the end still has rows.
PagesAreWhole ==
    LET archive == shown.archive
        places == DOMAIN archive.rows
    IN /\ archive.total > 0 => places # {}
       /\ places = ((archive.page - 1) * PerPage + 1 .. archive.page * PerPage)
                       \cap 1..archive.total
       /\ IsWindowed(archive.period) => \A n \in places : archive.rows[n].day # NoDate
       /\ archive.sort = "views" =>
            \A m, n \in places : m < n => archive.rows[m].views >= archive.rows[n].views

\* Ordering, filtering and paging ask about the same period again, and the
\* address bar after a search opens the page the reader sees.
LinksKeepTheQuestion ==
    LET archive == shown.archive
        links == SortOptions(archive) \cup CategoryOptions(archive) \cup PageOptions(archive)
    IN /\ \A a \in links : ResolvePeriod(a.key, a.from, a.to) = archive.period
       /\ \A a \in PageOptions(archive) : Archive(a).total = archive.total
       /\ Archive(address) = archive

\* Reporting days of a window that were never collected, which is what "measured"
\* means.
MissingDays(w) == (w.start..w.end) \ {d.date : d \in CurrentDays}

\* The uncollected days inside the collected span.  A cohort is to be withheld
\* and a comparison refused where they touch it (docstrings of eligible_cohort and
\* previous_traffic_within), but no caller looks for them: below they are what
\* may be missing, and all that may be missing.
Gaps == IF HasWindow(Coverage) THEN MissingDays(Coverage) ELSE {}

\* An article is compared with a cohort large enough to say something, of its
\* own category where that is.  The cohort of all news holds every article of its
\* time each day of whose first month was collected, the gaps of the span apart;
\* the categories divide it, and its quartiles and bands describe the same
\* articles, the unread among them.
CohortsAgree ==
    LET all == shown.cohorts[NoCategory]
        rows == shown.archive.rows
        firstMonth(r) == Window(PublishedDay(r.moment), PublishedDay(r.moment) + FirstMonth - 1)
        watched == {r \in Dated :
                        /\ MissingDays(firstMonth(r)) \subseteq Gaps
                        /\ PublishedDay(r.moment) >= Coverage.end - CohortDays + 1}
    IN /\ all.count = Cardinality(watched)
       /\ MapThenSumSet(LAMBDA c : shown.cohorts[c].count, Categories) <= all.count
       /\ \A c \in DOMAIN shown.cohorts :
            LET s == shown.cohorts[c]
            IN s.p25 <= s.median /\ s.median <= s.p75 /\ s.p75 <= s.p90
       /\ DOMAIN shown.distribution # {} =>
            MapThenSumSet(LAMBDA b : shown.distribution[b], Bands) = all.count
       /\ \A n \in DOMAIN rows :
            rows[n].cohort # "none" =>
                /\ IsUsable(shown.cohorts[rows[n].cohort])
                /\ Known(rows[n].ratio)
                /\ rows[n].day < Coverage.end

\* Reading is counted in a window whose days were collected, and compared with
\* one of as many days that were collected too, the gaps of the span apart in
\* both; it never exceeds what its articles were read altogether.
ReadingIsMeasured ==
    LET w == shown.reading.window
        traffic == shown.overview.traffic
        totals == {r \in Articles : MeasuredViews(r.path) # Unknown}
    IN /\ HasWindow(w) =>
            /\ w.start <= w.end /\ MissingDays(w) \subseteq Gaps
            /\ OrZero(traffic.news) <= MapThenSumSet(LAMBDA r : MeasuredViews(r.path), totals)
            /\ shown.overview.previous # NoTraffic =>
                  MissingDays(PreviousWindow(w)) \subseteq Gaps
       /\ ~HasWindow(w) => traffic = NoTraffic
       /\ traffic.news # Unknown <=> traffic.read > 0

\* The overview and the news page read one window alike.
OverviewAgrees ==
    LET w == shown.window
        page == Overview(Period("custom", w.start, w.end), w)
    IN HasWindow(w) =>
        /\ shown.traffic = page.traffic
        /\ shown.previous = page.previous.news
        /\ shown.published # Unknown => shown.published = page.published.total
        /\ shown.signal # "none" => page.change.n # 0

\* The counts, the archive, the cohorts and the reading on one page agree
\* with each other and with the overview (news/page.py, news/archive.py).
NewsPagesAgree ==
    /\ shown.kind = "news" =>
        CountsAgree /\ PagesAreWhole /\ LinksKeepTheQuestion /\ CohortsAgree /\ ReadingIsMeasured
    /\ shown.kind = "overview" => OverviewAgrees

=============================================================================
