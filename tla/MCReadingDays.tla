---------------------------- MODULE MCReadingDays ----------------------------
(***************************************************************************)
(* Stored reporting days and articles for the Koduleht and Uudised pages:  *)
(* gaps, absent figures, days without detail, a restated day and a page    *)
(* that appears; an article just after midnight, undated and unclassified  *)
(* ones, one nobody read, a listing page, and one published today.         *)
(***************************************************************************)
EXTENDS Integers

(* Koduleht. *)

Fact(rankable, index, section, language) ==
    [rankable |-> rankable, index |-> index, section |-> section, language |-> language]

\* The Estonian home page, the list of news, an article, a service, an event
\* and a page of no section.
SitePages == <<Fact(FALSE, FALSE, "other", "et"), Fact(TRUE, TRUE, "news", "et"),
               Fact(TRUE, FALSE, "news", "et"), Fact(TRUE, FALSE, "services", "et"),
               Fact(TRUE, FALSE, "events", "en"), Fact(TRUE, FALSE, "other", "en")>>

WebTerms == [koda |-> {2, 3, 5, 6}, island |-> {4}]

Absent == -1

Day(id, date, current, sessions, engaged, active, detail) ==
    [id |-> id, date |-> date, current |-> current, sessions |-> sessions,
     views |-> 2 * sessions, engaged |-> engaged, seconds |-> IF engaged < 0 THEN Absent ELSE 3 * sessions,
     active |-> active, pages |-> detail, channels |-> detail]

\* The first six days; the second was read twice, the fourth without
\* engagement, the fifth without detail.
FirstDays ==
    {Day(1, 1, TRUE, 4, 2, 3, TRUE), Day(2, 2, FALSE, 9, 9, 9, TRUE), Day(3, 2, TRUE, 6, 3, 4, TRUE),
     Day(4, 3, TRUE, 5, 4, 4, TRUE), Day(5, 4, TRUE, 8, Absent, 2, TRUE),
     Day(6, 5, TRUE, 3, 1, Absent, FALSE), Day(7, 6, TRUE, 7, 2, 5, TRUE)}

\* Two more days, and the fifth with its detail.
LaterDays ==
    {d \in FirstDays : d.id # 6}
        \cup {Day(8, 5, TRUE, 3, 2, 2, TRUE), Day(9, 7, TRUE, 2, 2, 2, TRUE), Day(10, 8, TRUE, 6, 3, 4, TRUE)}

\* The third day was never collected, the history starts with the second.
GappyDays == {d \in LaterDays : d.date \notin {1, 3}}

\* Views of a page on a day: the article arrives on the fifth, the event fades
\* and the service is read longer than its views suggest.
ViewsOn(path, date) ==
    CASE path = 1 -> 3
      [] path = 2 -> 2
      [] path = 3 -> IF date < 5 THEN 0 ELSE date
      [] path = 4 -> 1
      [] path = 5 -> IF date < 4 THEN 5 ELSE 0
      [] OTHER -> date % 2

PageRows(days) ==
    UNION {{[snapshot |-> d.id, date |-> d.date, path |-> p, views |-> ViewsOn(p, d.date),
             seconds |-> IF p = 6 \/ d.date = 4 THEN Absent ELSE IF p = 4 THEN 9 ELSE d.date + p,
             active |-> d.active] :
                p \in {q \in 1..6 : ViewsOn(q, d.date) > 0}} :
            d \in {e \in days : e.pages}}

ChannelRows(days) ==
    UNION {{[snapshot |-> d.id, date |-> d.date, channel |-> c,
             sessions |-> IF c = 1 THEN d.sessions - 2 ELSE 1,
             engaged |-> IF d.engaged < 0 THEN Absent ELSE IF c = 1 THEN d.sessions - 2 ELSE 1] : c \in {1, 2}} :
            d \in {e \in days : e.channels}}

HistoryOf(days) == [days |-> days, pages |-> PageRows(days), channels |-> ChannelRows(days)]

WebHistories == {HistoryOf({d \in FirstDays : d.date = 1}), HistoryOf(FirstDays),
                 HistoryOf(LaterDays), HistoryOf(GappyDays)}
-----------------------------------------------------------------------------
(* Uudised. *)

Undated == -1000
Unclassified == "unclassified"

Article(path, category, moment) == [path |-> path, category |-> category, moment |-> moment]

\* Day n begins at moment 2n.
FirstArticles ==
    {Article(1, Unclassified, 9), Article(2, "chamber", 4), Article(3, "chamber", 7),
     Article(4, "partner", 10), Article(5, Unclassified, Undated), Article(6, "chamber", 13)}

\* The undated one has been dated and classified, two more were published.
LaterArticles ==
    {r \in FirstArticles : r.path # 5}
        \cup {Article(5, "partner", 12), Article(7, "chamber", 16), Article(8, "partner", 18)}

NewsListings == {1}

NewsTerms == [short |-> {2, 5, 8}, nothing |-> {}]

Days(dates) == {[date |-> d, views |-> 10 + d, current |-> TRUE] : d \in dates}

Read(path, date, views) == [path |-> path, date |-> date, views |-> views, current |-> TRUE]

FirstReads ==
    {Read(1, 3, 9), Read(2, 2, 2), Read(2, 3, 5), Read(3, 3, 1), Read(3, 6, 0), Read(6, 6, 4),
     [path |-> 4, date |-> 5, views |-> 8, current |-> FALSE], Read(9, 4, 6)}

LaterReads == FirstReads \cup {Read(4, 6, 3), Read(8, 9, 2), Read(2, 8, 4), Read(5, 7, 2)}

State(articles, dates, reads, today) ==
    [articles |-> articles, feed |-> articles # {}, days |-> Days(dates),
     pages |-> {r \in reads : r.date \in dates}, today |-> today]

NewsCatalogues ==
    {State({}, 1..3, FirstReads, 4),
     State(FirstArticles, {}, {}, 7),
     State(FirstArticles, 1..6, FirstReads, 7),
     State(LaterArticles, 2..9, LaterReads, 9),
     State(LaterArticles, (2..9) \ {5}, LaterReads, 10)}
==============================================================================
