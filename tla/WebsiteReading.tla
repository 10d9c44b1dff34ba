--------------------------- MODULE WebsiteReading ---------------------------
(***************************************************************************)
(* The Koduleht page (apps/visibility): the window a request resolves to,  *)
(* how much of it was measured, the window it may be compared with, the    *)
(* totals, trend, channels, content mix, movement, engagement matrix,      *)
(* search and page detail read from the current revisions of the reporting *)
(* days, and the users Google Analytics is asked for separately.           *)
(*                                                                         *)
(* Days are numbers from 1.  A history is a state of the rows that Ga4Sync *)
(* leaves, superseded revisions included.  A quotient is a fraction and    *)
(* never rounded; wording and layout are left out.  Where a query leaves   *)
(* the order of equals open, they stand in the order of their names.       *)
(***************************************************************************)
EXTENDS Integers, FiniteSets, FiniteSetsExt

CONSTANTS
    Histories,      \* states of the stored days, page rows and channel rows
    PresetDays,     \* the offered periods and their lengths, without all
    DefaultPreset,  \* the period of an address that names none
    MinCustomDays,  \* the shortest custom range
    MinCoverage,    \* per cent of a window measured before it is compared
    MaxSkew,        \* per cent by which two compared windows may differ
    WeeklyFrom, MonthlyFrom,  \* spans from which the trend is weekly, monthly
    WeekDays, MonthDays,      \* lengths of a week and of a month
    PageFloor,      \* views below which no page is ranked; one a day above
    TopLimit, MovementLimit, ChannelLimit, PerPage,  \* lengths of the lists
    PageFacts,      \* per path: rankable, index, section, language
    Matching,       \* per search term: the paths it matches by address or title
    AddressDates,   \* bound: the dates an address may name
    MaxClicks,      \* bound: links followed from one typed address
    MaxSyncs        \* bound: synchronisations of the users

NoDate == 0
Unknown == -1
NoTerm == "no term"
NoPath == 0
Everything == "everything"
Sections == {"services", "news", "events", "other"}

ReadingAssumption ==
    /\ DefaultPreset \in DOMAIN PresetDays
    /\ \A k \in DOMAIN PresetDays : PresetDays[k] \in Nat \ {0}
    /\ {MinCustomDays, WeekDays, MonthDays, PerPage} \subseteq Nat \ {0}
    /\ WeeklyFrom <= MonthlyFrom
    /\ \A f \in {PageFacts[p] : p \in DOMAIN PageFacts} : f.section \in Sections

VARIABLES
    table,    \* the stored revisions
    users,    \* windows for which the number of users is stored
    pending,  \* windows still to be asked for by a running synchronisation
    asked,    \* the coverage the last one asked for, and its silences
    syncs,    \* bound: synchronisations started
    address,  \* the address of the page on the reader's screen
    clicks,   \* bound: links followed since the last typed address
    shown     \* what the page shows

vars == <<table, users, pending, asked, syncs, address, clicks, shown>>

MaxOf(a, b) == IF a >= b THEN a ELSE b
MinOf(a, b) == IF a <= b THEN a ELSE b

(***************************************************************************)
(* Sums that keep an absent figure absent, and quotients.                  *)
(***************************************************************************)

With(field, rows) == {r \in rows : r[field] # Unknown}

Total(field, rows) ==
    IF With(field, rows) = {} THEN Unknown
    ELSE MapThenSumSet(LAMBDA r : r[field], With(field, rows))

Peak(field, rows) ==
    IF With(field, rows) = {} THEN Unknown ELSE Max({r[field] : r \in With(field, rows)})

OrZero(n) == IF n = Unknown THEN 0 ELSE n

Fraction(n, d) == [n |-> n, d |-> d]
NoFraction == Fraction(0, 0)

\* _ratio: nothing over nothing is no figure.
Ratio(n, d) == IF n = Unknown \/ d <= 0 THEN NoFraction ELSE Fraction(n, d)

Known(f) == f.d # 0
AtMost(f, g) == f.n * g.d <= g.n * f.d
Below(f, g) == f.n * g.d < g.n * f.d
Minus(f, g) == Fraction(f.n * g.d - g.n * f.d, f.d * g.d)
Halfway(f, g) == Fraction(f.n * g.d + g.n * f.d, 2 * f.d * g.d)

(***************************************************************************)
(* What is stored: only the current revision of a day counts.              *)
(***************************************************************************)

CurrentDays == {d \in table.days : d.current}
CurrentIds == {d.id : d \in CurrentDays}
CurrentPages == {p \in table.pages : p.snapshot \in CurrentIds}
CurrentChannels == {c \in table.channels : c.snapshot \in CurrentIds}

Window(a, b) == [start |-> a, end |-> b]
NoWindow == Window(NoDate, NoDate)
HasWindow(w) == w.start # NoDate
Length(w) == IF HasWindow(w) THEN w.end - w.start + 1 ELSE 0

In(w, rows) == {r \in rows : HasWindow(w) /\ w.start <= r.date /\ r.date <= w.end}

\* get_coverage.
Coverage ==
    LET dates == {d.date : d \in CurrentDays}
    IN IF dates = {} THEN NoWindow ELSE Window(Min(dates), Max(dates))

OnlyRankable(rows) == {r \in rows : PageFacts[r.path].rankable}

(***************************************************************************)
(* The period and its comparison.                                          *)
(***************************************************************************)

PresetWindow(key) ==
    CASE ~HasWindow(Coverage) -> NoWindow
      [] HasWindow(Coverage) /\ key = "all" -> Coverage
      [] OTHER -> Window(MaxOf(Coverage.end - PresetDays[key] + 1, Coverage.start),
                         Coverage.end)

\* _custom_period: half a pair reaches to the end of the history, a reversed
\* pair is turned round, a range outside the history falls back, a single day
\* is widened inside the history.
CustomWindow(from, to) ==
    LET start == IF from = NoDate THEN Coverage.start ELSE from
        end == IF to = NoDate THEN Coverage.end ELSE to
        lo == MaxOf(MinOf(start, end), Coverage.start)
        hi == MinOf(MaxOf(start, end), Coverage.end)
        outside == (from = NoDate /\ to = NoDate) \/ lo > hi
        long == hi - lo + 1 >= MinCustomDays
    IN CASE ~HasWindow(Coverage) -> NoWindow
         [] HasWindow(Coverage) /\ outside -> PresetWindow(DefaultPreset)
         [] HasWindow(Coverage) /\ ~outside /\ long -> Window(lo, hi)
         [] OTHER -> IF hi < Coverage.end THEN Window(lo, hi + 1)
                     ELSE Window(MaxOf(lo - 1, Coverage.start), hi)

\* parse_period: never an error.
ParsePeriod(key, from, to) ==
    LET named == IF key = "unreadable" THEN DefaultPreset ELSE key
    IN [key |-> named, custom |-> named = "custom", all |-> named = "all",
        window |-> IF named = "custom" THEN CustomWindow(from, to) ELSE PresetWindow(named)]

\* get_period_coverage.
PeriodCoverage(w) ==
    LET rows == In(w, CurrentDays)
    IN [expected |-> Length(w), site |-> Cardinality(rows),
        pages |-> Cardinality({d \in rows : d.pages}),
        channels |-> Cardinality({d \in rows : d.channels}),
        missing |-> Length(w) - Cardinality(rows)]

\* build_comparison: the equal window before, never shortened to fit.
BuildComparison(period) ==
    LET w == period.window
        before == Window(w.start - Length(w), w.start - 1)
        available == HasWindow(w) /\ ~period.all /\ before.start >= Coverage.start
    IN [available |-> available,
        window |-> IF available THEN before ELSE NoWindow,
        coverage |-> PeriodCoverage(IF available THEN before ELSE NoWindow),
        current |-> PeriodCoverage(w)]

\* can_compare_site, can_compare_pages and can_compare_channels.
CanCompare(grain, comparison) ==
    LET days == comparison.current.expected
        now == 100 * comparison.current[grain]
        then == 100 * comparison.coverage[grain]
    IN /\ comparison.available
       /\ now >= MinCoverage * days
       /\ then >= MinCoverage * days
       /\ now - then <= MaxSkew * days
       /\ then - now <= MaxSkew * days

(***************************************************************************)
(* The users of a period: distinct people, which no sum of days gives, are *)
(* asked for and stored window by window.                                  *)
(***************************************************************************)

\* periods_to_fetch.
PeriodsToFetch ==
    LET periods == {ParsePeriod(k, NoDate, NoDate) : k \in DOMAIN PresetDays \cup {"all"}}
        chosen == {p \in periods : HasWindow(p.window)}
    IN {p.window : p \in chosen}
       \cup {BuildComparison(p).window : p \in {q \in chosen : BuildComparison(q).available}}

PeriodUsers(w) == w \in users

(***************************************************************************)
(* Traffic.                                                                *)
(***************************************************************************)

GrainFor(days) ==
    CASE days >= MonthlyFrom -> MonthDays
      [] days >= WeeklyFrom /\ days < MonthlyFrom -> WeekDays
      [] OTHER -> 1

\* get_traffic_series and get_page_series: sums, and the largest day's users.
Series(w, rows) ==
    LET grain == GrainFor(Length(w))
        inside == In(w, rows)
        bucket(b) == {r \in inside : r.date \div grain = b}
    IN {[bucket |-> b, views |-> Total("views", bucket(b)),
         active |-> Peak("active", bucket(b)), days |-> Cardinality(bucket(b))] :
            b \in {r.date \div grain : r \in inside}}

SessionSeries(w) ==
    LET grain == GrainFor(Length(w))
        bucket(b) == {d \in In(w, CurrentDays) : d.date \div grain = b}
    IN {[bucket |-> b, sessions |-> Total("sessions", bucket(b))] :
            b \in {d.date \div grain : d \in In(w, CurrentDays)}}

\* get_traffic_summary: each rate divides by the sessions of the days that
\* reported its numerator.
TrafficSummary(w) ==
    LET rows == In(w, CurrentDays)
        peak == Peak("active", rows)
    IN [days |-> Cardinality(rows),
        sessions |-> Total("sessions", rows), views |-> Total("views", rows),
        active |-> peak,
        active_on |-> IF peak = Unknown THEN NoDate
                      ELSE Min({d.date : d \in {e \in rows : e.active = peak}}),
        engagement |-> Ratio(Total("engaged", rows),
                             Total("sessions", With("engaged", rows))),
        seconds |-> Ratio(Total("seconds", rows),
                          Total("sessions", With("seconds", rows)))]

\* A headline's change, where the windows may be compared at all.
Change(now, before, comparable) ==
    IF comparable /\ now # Unknown /\ before > 0 THEN Fraction(now - before, before)
    ELSE NoFraction

(***************************************************************************)
(* Channels.                                                               *)
(***************************************************************************)

\* get_channel_performance: shares of the sessions of the whole site; a
\* channel without sessions in the window is not listed.
ChannelPerformance(w, before, site, site_before) ==
    LET of(c, v) == {r \in In(v, CurrentChannels) : r.channel = c}
        row(c) ==
            LET now == of(c, w)
                then == of(c, before)
            IN [channel |-> c, sessions |-> OrZero(Total("sessions", now)),
                previous |-> Total("sessions", then),
                share |-> Ratio(Total("sessions", now), site),
                previous_share |-> Ratio(Total("sessions", then), site_before),
                engagement |-> Ratio(Total("engaged", now), Total("sessions", now)),
                previous_engagement |-> Ratio(Total("engaged", then), Total("sessions", then))]
    IN {r \in {row(c) : c \in {x.channel : x \in In(w, CurrentChannels)}} : r.sessions > 0}

TopChannels(channels) ==
    {c \in channels :
        Cardinality({d \in channels : \/ d.sessions > c.sessions
                                      \/ d.sessions = c.sessions /\ d.channel < c.channel})
          < ChannelLimit}

(***************************************************************************)
(* Content.                                                                *)
(***************************************************************************)

ViewsOf(path, w) == Total("views", {r \in In(w, CurrentPages) : r.path = path})

PathsIn(rows) == {r.path : r \in rows}

\* Views first, the path where they are equal.
Ranked(path, others, w) ==
    1 + Cardinality({o \in others :
            \/ OrZero(ViewsOf(o, w)) > OrZero(ViewsOf(path, w))
            \/ ViewsOf(o, w) = ViewsOf(path, w) /\ o < path})

InSection(path, section) == section = Everything \/ PageFacts[path].section = section

\* get_top_pages: the listing pages of the sections are not content.
TopPages(w, section) ==
    LET paths == {p \in PathsIn(OnlyRankable(In(w, CurrentPages))) :
                    InSection(p, section) /\ ~PageFacts[p].index}
    IN {[path |-> p, views |-> ViewsOf(p, w)] :
            p \in {q \in paths : Ranked(q, paths, w) <= TopLimit}}

\* get_page_view_totals: a path without rows is absent, not zero.
PageViewTotal(path) == Total("views", {r \in CurrentPages : r.path = path})

\* search_pages with _page_search_results: the rows of the page asked for; the
\* page number alone is cut to the last one.
SearchPages(term, w, section, page) ==
    LET paths == {p \in PathsIn(OnlyRankable(In(w, CurrentPages))) :
                    InSection(p, section) /\ p \in Matching[term]}
        last == MaxOf((Cardinality(paths) + PerPage - 1) \div PerPage, 1)
    IN [total |-> Cardinality(paths), pages |-> last, page |-> MinOf(page, last),
        rows |-> {[path |-> p, views |-> ViewsOf(p, w), total |-> PageViewTotal(p)] :
                    p \in {q \in paths : Ranked(q, paths, w) \in
                                          (page - 1) * PerPage + 1 .. page * PerPage}}]

NoSearch == [total |-> 0, pages |-> 0, page |-> 0, rows |-> {}]

ZeroIsNone(n) == IF n = 0 THEN Unknown ELSE n

\* get_content_mix over rankable pages, get_language_mix over all of them.
Mix(rows, facet, keys, w, before) ==
    LET of(k, v) == {r \in In(v, rows) : PageFacts[r.path][facet] = k}
        total(v) == ZeroIsNone(OrZero(Total("views", In(v, rows))))
    IN [total |-> total(w), previous_total |-> total(before),
        rows |-> [k \in keys |->
            [views |-> OrZero(Total("views", of(k, w))),
             previous |-> Total("views", of(k, before)),
             share |-> Ratio(OrZero(Total("views", of(k, w))), total(w)),
             previous_share |-> Ratio(Total("views", of(k, before)), total(before))]]]

ContentMix(w, before) == Mix(OnlyRankable(CurrentPages), "section", Sections, w, before)
LanguageMix(w, before) ==
    Mix(CurrentPages, "language", {f.language : f \in {PageFacts[p] : p \in DOMAIN PageFacts}},
        w, before)

MinPageViews(days) == MaxOf(PageFloor, days)

\* A plausible error: a page without rows in the earlier window sums to NULL
\* there, and the difference drops it.
MovementOfSeen(w, before) ==
    {[path |-> p, views |-> OrZero(ViewsOf(p, w)), previous |-> OrZero(ViewsOf(p, before))] :
        p \in PathsIn(OnlyRankable(In(before, CurrentPages)))}

\* get_page_movement: every rankable page of either window, an absent sum as
\* zero, the floor cleared in one of them.
MovementRows(w, before) ==
    {[path |-> p, views |-> OrZero(ViewsOf(p, w)), previous |-> OrZero(ViewsOf(p, before))] :
        p \in PathsIn(OnlyRankable(In(w, CurrentPages) \cup In(before, CurrentPages)))}

Moved(r) == r.views - r.previous

PageMovement(w, before) ==
    LET rows == {r \in MovementRows(w, before) :
                    MaxOf(r.views, r.previous) >= MinPageViews(Length(w))}
        ahead(r, s) == \/ Moved(r) * Moved(r) > Moved(s) * Moved(s)
                       \/ Moved(r) = Moved(s) /\ r.path < s.path
        first(group) == {r \in group : Cardinality({s \in group : ahead(s, r)}) < MovementLimit}
    IN [rising |-> first({r \in rows : Moved(r) > 0}),
        falling |-> first({r \in rows : Moved(r) < 0})]

NoMovement == [rising |-> {}, falling |-> {}]

\* get_engagement_matrix: eligible pages, and the medians of the measured ones.
MatrixPages(w) ==
    LET rows(p) == {r \in In(w, CurrentPages) : r.path = p}
        paths == {p \in PathsIn(OnlyRankable(In(w, CurrentPages))) :
                    ViewsOf(p, w) >= MinPageViews(Length(w))}
    IN {[path |-> p, views |-> Fraction(ViewsOf(p, w), 1),
         depth |-> Ratio(Total("seconds", rows(p)),
                         Total("views", With("seconds", rows(p))))] : p \in paths}

Median(field, pages) ==
    LET ahead(q, p) == Below(q[field], p[field])
                       \/ (q[field].n * p[field].d = p[field].n * q[field].d /\ q.path < p.path)
        at(n) == CHOOSE p \in pages : Cardinality({q \in pages : ahead(q, p)}) = n
        n == Cardinality(pages)
        middle == n \div 2
    IN CASE n = 0 -> NoFraction
         [] n % 2 = 1 -> at(middle)[field]
         [] OTHER -> Halfway(at(middle - 1)[field], at(middle)[field])

\* quadrant_of, for the pages whose depth was measured.
Quadrant(many, deep, pages) ==
    LET measured == {p \in pages : Known(p.depth)}
    IN {p \in measured : /\ many = AtMost(Median("views", measured), p.views)
                         /\ deep = AtMost(Median("depth", measured), p.depth)}

(***************************************************************************)
(* The pages.                                                              *)
(***************************************************************************)

\* get_page_detail: nothing for a path that was never measured.
PageDetail(path, w, before) ==
    LET rows == {r \in CurrentPages : r.path = path}
    IN IF Total("views", rows) = Unknown THEN [path |-> NoPath]
       ELSE [path |-> path, views |-> ViewsOf(path, w), previous |-> ViewsOf(path, before),
             total |-> Total("views", rows), first |-> Min({r.date : r \in rows}),
             last |-> Max({r.date : r \in rows}), days |-> Cardinality(In(w, rows)),
             depth |-> Ratio(Total("seconds", In(w, rows)),
                             Total("views", With("seconds", In(w, rows)))),
             series |-> Series(w, rows)]

\* build_opportunities: one page or channel for each rule that applies.
Opportunities(movement, matrix, channels) ==
    LET quieter == Quadrant(FALSE, TRUE, matrix)
        busier == Quadrant(TRUE, FALSE, matrix)
        gain(c) == Minus(c.share, c.previous_share)
        growing == {c \in channels :
                      /\ Known(c.share) /\ Known(c.previous_share)
                      /\ gain(c).n > 0
                      /\ Known(c.engagement) /\ Known(c.previous_engagement) =>
                           AtMost(c.previous_engagement, c.engagement)}
    IN [rising |-> {r \in movement.rising : \A s \in movement.rising : Moved(s) <= Moved(r)},
        quieter |-> {p \in quieter : \A q \in quieter : AtMost(q.depth, p.depth)},
        busier |-> {p \in busier : \A q \in busier : AtMost(q.views, p.views)},
        channels |-> {c \in growing : \A d \in growing : AtMost(gain(d), gain(c))}]

NothingShown == [kind |-> "nothing"]
Waiting == [kind |-> "waiting"]

\* build_website_page with _page_view.
WebsitePage(a) ==
    LET period == ParsePeriod(a.key, a.from, a.to)
        w == period.window
        comparison == BuildComparison(period)
        before == comparison.window
        pages_before == IF CanCompare("pages", comparison) THEN before ELSE NoWindow
        channels_before == IF CanCompare("channels", comparison) THEN before ELSE NoWindow
        now == TrafficSummary(w)
        then == TrafficSummary(before)
        movement == IF HasWindow(pages_before) THEN PageMovement(w, before) ELSE NoMovement
        channels == TopChannels(ChannelPerformance(w, channels_before, now.sessions, then.sessions))
    IN [kind |-> "website", period |-> period, comparison |-> comparison,
        summary |-> now, previous |-> then,
        sessions_change |-> Change(now.sessions, then.sessions, CanCompare("site", comparison)),
        views_change |-> Change(now.views, then.views, CanCompare("site", comparison)),
        users |-> PeriodUsers(w), previous_users |-> PeriodUsers(before),
        trend |-> Series(w, CurrentDays), sessions |-> SessionSeries(w),
        channels |-> channels,
        mix |-> ContentMix(w, pages_before), languages |-> LanguageMix(w, pages_before),
        top |-> TopPages(w, a.section), movement |-> movement, matrix |-> MatrixPages(w),
        opportunities |-> Opportunities(movement, MatrixPages(w), channels),
        search |-> IF a.search = NoTerm THEN NoSearch
                   ELSE SearchPages(a.search, w, a.section, a.page),
        detail |-> IF a.detail = NoPath THEN [path |-> NoPath]
                   ELSE PageDetail(a.detail, w, before)]

Answer(a) == IF HasWindow(Coverage) THEN WebsitePage(a) ELSE NothingShown

PlainAddress == [key |-> "unreadable", from |-> NoDate, to |-> NoDate, section |-> Everything,
                 search |-> NoTerm, page |-> 1, detail |-> NoPath]

EmptyHistory == [days |-> {}, pages |-> {}, channels |-> {}]
NotAsked == [coverage |-> NoWindow, silent |-> {}]

Init ==
    /\ table = EmptyHistory
    /\ users = {}
    /\ pending = {}
    /\ asked = NotAsked
    /\ syncs = 0
    /\ address = PlainAddress
    /\ clicks = 0
    /\ shown = NothingShown

\* The reader's page is gone; the next one starts from an address.
LeavePage ==
    /\ address' = PlainAddress
    /\ clicks' = 0
    /\ shown' = NothingShown

\* A collection publishes days, restates or supersedes them.
Collect ==
    /\ table' \in Histories
    /\ table' # table
    /\ LeavePage
    /\ UNCHANGED <<users, pending, asked, syncs>>

\* synchronize_period_users: the windows are settled once, then asked for one
\* by one; an answer without a row is stored as nothing.
StartUsers ==
    /\ pending = {}
    /\ HasWindow(Coverage)
    /\ syncs < MaxSyncs
    /\ syncs' = syncs + 1
    /\ pending' = PeriodsToFetch
    /\ asked' = [coverage |-> Coverage, silent |-> {}]
    /\ LeavePage
    /\ UNCHANGED <<table, users>>

AnswerUsers ==
    /\ \E w \in pending :
         /\ \A v \in pending : w.end > v.end \/ (w.end = v.end /\ w.start >= v.start)
         /\ pending' = pending \ {w}
         /\ \/ users' = users \cup {w} /\ asked' = asked
            \/ users' = users /\ asked' = [asked EXCEPT !.silent = @ \cup {w}]
    /\ LeavePage
    /\ UNCHANGED <<table, syncs>>

\* A request to Google Analytics fails: what was stored stays.
UsersFail ==
    /\ pending # {}
    /\ pending' = {}
    /\ asked' = NotAsked
    /\ LeavePage
    /\ UNCHANGED <<table, users, syncs>>

\* An address typed, bookmarked or sent by the date form.
OpenAddress ==
    /\ shown = NothingShown
    /\ \E key \in DOMAIN PresetDays \cup {"all", "custom", "unreadable"},
          from \in AddressDates \cup {NoDate}, to \in AddressDates \cup {NoDate} :
         /\ key = "custom" \/ (from = NoDate /\ to = NoDate)
         /\ address' = [PlainAddress EXCEPT !.key = key, !.from = from, !.to = to]
    /\ shown' = Waiting
    /\ clicks' = 0
    /\ UNCHANGED <<table, users, pending, asked, syncs>>

\* koduleht: the request is answered from the current rows.
Respond ==
    /\ shown = Waiting
    /\ shown' = Answer(address)
    /\ UNCHANGED <<table, users, pending, asked, syncs, address, clicks>>

\* The links and forms of the page: WebsiteQuery.build carries every other
\* choice along.
PeriodLinks ==
    {[address EXCEPT !.key = key, !.from = NoDate, !.to = NoDate, !.page = 1] :
        key \in DOMAIN PresetDays \cup {"all"}}

SectionLinks ==
    {[address EXCEPT !.section = section, !.page = 1] :
        section \in (Sections \ {"other"}) \cup {Everything}}

SearchForms ==
    {[address EXCEPT !.search = term, !.detail = NoPath, !.page = 1] :
        term \in DOMAIN Matching \cup {NoTerm}}

PageLinks ==
    IF address.search = NoTerm THEN {}
    ELSE {[address EXCEPT !.page = n] :
            n \in {MaxOf(shown.search.page - 1, 1), MinOf(shown.search.page + 1, shown.search.pages)}}

DetailLinks ==
    {[address EXCEPT !.detail = path, !.page = 1] :
        path \in PathsIn(shown.search.rows) \cup PathsIn(shown.opportunities.rising)
                 \cup PathsIn(shown.opportunities.quieter)
                 \cup PathsIn(shown.opportunities.busier)}

Follow ==
    /\ shown.kind = "website"
    /\ clicks < MaxClicks
    /\ clicks' = clicks + 1
    /\ address' \in PeriodLinks \cup SectionLinks \cup SearchForms \cup PageLinks \cup DetailLinks
    /\ shown' = Waiting
    /\ UNCHANGED <<table, users, pending, asked, syncs>>

Next ==
    \/ Collect
    \/ StartUsers
    \/ AnswerUsers
    \/ UsersFail
    \/ OpenAddress
    \/ Follow
    \/ Respond

Spec == Init /\ [][Next]_vars

(***************************************************************************)
(* Properties.                                                             *)
(***************************************************************************)

DaysOf(w) == IF HasWindow(w) THEN w.start..w.end ELSE {}

\* A page is read inside the measured history, over two days where there are
\* two, and compared only with as many measured days just before.
WindowsAreMeasured ==
    LET w == shown.period.window
        before == shown.comparison.window
    IN /\ DaysOf(w) # {} /\ DaysOf(w) \subseteq DaysOf(Coverage)
       /\ shown.period.custom /\ Length(Coverage) > 1 => Length(w) >= 2
       /\ shown.comparison.available =>
            /\ DaysOf(before) \subseteq DaysOf(Coverage) \ DaysOf(w)
            /\ Length(before) = Length(w)
            /\ before.end + 1 = w.start
       /\ ~shown.comparison.available => ~Known(shown.sessions_change)

\* What the page must count: one current revision of each day.
ViewsOnce(days, path) ==
    MapThenSumSet(LAMBDA r : r.views,
        {r \in table.pages : /\ r.date \in days
                             /\ r.path = path
                             /\ \E d \in table.days : d.id = r.snapshot /\ d.current})

SumOf(field, rows) == MapThenSumSet(LAMBDA r : OrZero(r[field]), rows)

\* The trend, at whatever grain it is drawn, and the headline describe the same
\* days: their sums agree, and their peak, which is nobody's sum.
TrendMatchesSummary ==
    LET trend == shown.trend
    IN /\ SumOf("views", trend) = OrZero(shown.summary.views)
       /\ SumOf("sessions", shown.sessions) = OrZero(shown.summary.sessions)
       /\ SumOf("days", trend) = shown.summary.days
       /\ SumOf("days", trend) + shown.comparison.current.missing = Length(shown.period.window)
       /\ trend # {} => Peak("active", trend) = shown.summary.active
       /\ \A b \in trend : OrZero(b.active) <= OrZero(shown.summary.active)

\* A period's rate lies between the rates of its days.
BetweenDays(rate, numerator, denominator, rows) ==
    LET daily == {Ratio(r[numerator], r[denominator]) : r \in rows} \ {NoFraction}
    IN Known(rate) /\ daily # {} =>
         /\ \E f \in daily : AtMost(f, rate)
         /\ \E f \in daily : AtMost(rate, f)

RatesAreMatched ==
    LET w == shown.period.window
    IN /\ BetweenDays(shown.summary.engagement, "engaged", "sessions", In(w, CurrentDays))
       /\ BetweenDays(shown.summary.seconds, "seconds", "sessions", In(w, CurrentDays))
       /\ \A p \in shown.matrix :
            BetweenDays(p.depth, "seconds", "views",
                        {r \in In(w, CurrentPages) : r.path = p.path})

\* The sections and the languages share out every view once, the shares of the
\* channels never exceed the site, and the content is part of what was read.
SharesAddUp ==
    LET all(rows) == MapThenSumSet(LAMBDA k : rows[k].views, DOMAIN rows)
        days == DaysOf(shown.period.window)
    IN /\ all(shown.mix.rows) = OrZero(shown.mix.total)
       /\ all(shown.languages.rows) = OrZero(shown.languages.total)
       /\ OrZero(shown.languages.total) =
            MapThenSumSet(LAMBDA p : ViewsOnce(days, p), DOMAIN PageFacts)
       /\ OrZero(shown.mix.total) =
            MapThenSumSet(LAMBDA p : IF PageFacts[p].rankable THEN ViewsOnce(days, p) ELSE 0,
                          DOMAIN PageFacts)
       /\ SumOf("sessions", shown.channels) <= OrZero(shown.summary.sessions)

\* The ranking, the search, the page's own figures and its trend count one
\* page alike, and no window holds more than the whole history.
PageFiguresAgree ==
    LET days == DaysOf(shown.period.window)
        detail == shown.detail
    IN /\ \A r \in shown.top : r.views = ViewsOnce(days, r.path)
       /\ \A r \in shown.search.rows :
            /\ r.views = ViewsOnce(days, r.path)
            /\ r.total = ViewsOnce(DaysOf(Coverage), r.path)
       /\ detail.path # NoPath =>
            /\ OrZero(detail.views) = ViewsOnce(days, detail.path)
            /\ SumOf("views", detail.series) = OrZero(detail.views)
            /\ SumOf("days", detail.series) = detail.days
            /\ detail.total = ViewsOnce(DaysOf(Coverage), detail.path)
            /\ OrZero(detail.views) + OrZero(detail.previous) <= detail.total

\* Every page that moved further than a listed one is listed, whether it was
\* measured before or not; nothing is ranked between windows unevenly measured.
MovementIsDeserved ==
    LET w == shown.period.window
        before == shown.comparison.window
        delta(p) == ViewsOnce(DaysOf(w), p) - ViewsOnce(DaysOf(before), p)
        large(p) == MaxOf(ViewsOnce(DaysOf(w), p), ViewsOnce(DaysOf(before), p))
                      >= MinPageViews(Length(w))
        compared == CanCompare("pages", shown.comparison)
        candidates == {p \in DOMAIN PageFacts : PageFacts[p].rankable /\ large(p)}
        listed == shown.movement.rising
    IN /\ ~compared => shown.movement = NoMovement
       /\ compared =>
            /\ Cardinality(listed) =
                 MinOf(MovementLimit, Cardinality({p \in candidates : delta(p) > 0}))
            /\ \A r \in listed, p \in candidates :
                 delta(p) > Moved(r) => p \in PathsIn(listed)

\* Pages stand at the head of a rule only if they stand out from the median,
\* and no page stands on both sides of it.
OpportunitiesDiffer ==
    /\ PathsIn(shown.opportunities.quieter) \cap PathsIn(shown.opportunities.busier) = {}
    /\ \A p \in shown.opportunities.quieter : \E q \in shown.matrix : Below(p.views, q.views)
    /\ \A c \in shown.opportunities.channels : c.previous # Unknown

\* The pages of the search hold every match once.
SearchIsWhole ==
    LET at(n) == SearchPages(address.search, shown.period.window, address.section, n).rows
        paths == {p \in DOMAIN PageFacts :
                    /\ PageFacts[p].rankable /\ p \in Matching[address.search]
                    /\ InSection(p, address.section)
                    /\ \E r \in CurrentPages : r.path = p /\ r.date \in DaysOf(shown.period.window)}
    IN address.search # NoTerm =>
         /\ UNION {PathsIn(at(n)) : n \in 1..shown.search.pages} = paths
         /\ SumOf("size", {[n |-> n, size |-> Cardinality(at(n))] : n \in 1..shown.search.pages})
              = Cardinality(paths)
         /\ address.page <= shown.search.pages /\ paths # {} => shown.search.rows # {}

\* After a finished synchronisation every window a button leads to, and the one
\* it is compared with, has its users, unless Google Analytics had none.
UsersAreKnown ==
    LET known(w) == w \in users \/ w \in asked.silent
    IN pending = {} /\ asked.coverage = Coverage /\ ~shown.period.custom =>
         /\ known(shown.period.window)
         /\ shown.comparison.available => known(shown.comparison.window)

\* What the Koduleht page shows agrees with itself and with the stored days.
WebsitePagesAgree ==
    shown.kind = "website" =>
        /\ WindowsAreMeasured
        /\ TrendMatchesSummary
        /\ RatesAreMatched
        /\ SharesAddUp
        /\ PageFiguresAgree
        /\ MovementIsDeserved
        /\ OpportunitiesDiffer
        /\ SearchIsWhole
        /\ UsersAreKnown

==============================================================================
