------------------------------ MODULE MCEvents -------------------------------
(***************************************************************************)
(* Event programmes in years of four months of two days: a history that    *)
(* begins in the middle of a year, a programme without this year, a        *)
(* workbook that is refused, and one whose only event has no date. And     *)
(* event names with page titles: a series held on neighbouring days under  *)
(* one name, a page with the subtitle of its session, a recording with two *)
(* labels, a one-word course, an event without a date, one with the        *)
(* Chamber's own address, and a page whose title is corrected.             *)
(***************************************************************************)
EXTENDS Integers, Sequences, TLC

(* The programmes. *)

\* The generator derives the month, the quarter and the year from the date.
Event(n, start, end, url, cells, review) ==
    LET dated == start # 0
        month == (((start - 1) \div 2) % 4) + 1
    IN [id |-> n, code |-> 100 - n, name |-> (n % 2) + 1, start |-> start, end |-> end,
        year |-> IF dated THEN ((start - 1) \div 8) + 1 ELSE 0, url |-> url, review |-> review,
        cell |-> [type |-> cells[1], mode |-> cells[2], tag |-> cells[3], price |-> cells[4],
                  status |-> IF dated THEN 1 ELSE 9,
                  month |-> IF dated THEN month ELSE 0,
                  quarter |-> IF dated THEN ((month - 1) \div 2) + 1 ELSE 0]]

History ==
    <<Event(1, 3, 0, 0, <<1, 1, 1, 1>>, FALSE), Event(2, 11, 12, 11, <<2, 2, 0, 2>>, TRUE),
      Event(3, 19, 21, 0, <<1, 2, 1, 0>>, FALSE), Event(4, 21, 0, 0, <<2, 0, 2, 1>>, FALSE),
      Event(5, 0, 0, 12, <<3, 1, 0, 1>>, TRUE), Event(6, 26, 27, 13, <<0, 2, 1, 2>>, FALSE),
      Event(7, 20, 0, 0, <<1, 2, 2, 1>>, TRUE)>>

Later ==
    <<Event(1, 3, 0, 0, <<1, 1, 1, 1>>, FALSE), Event(2, 11, 12, 11, <<2, 2, 0, 2>>, TRUE),
      Event(4, 9, 0, 0, <<2, 2, 2, 1>>, FALSE), Event(8, 1, 0, 0, <<1, 1, 1, 1>>, FALSE)>>

Backward == <<Event(1, 21, 19, 0, <<1, 1, 1, 1>>, FALSE)>>

Undated == <<Event(5, 0, 0, 12, <<3, 1, 0, 1>>, TRUE)>>

Book(status, blocking, rows, linked) ==
    [status |-> status, blocking |-> blocking, stated |-> Len(rows), linked |-> linked,
     rows |-> rows]

View(path, day, n) == [path |-> path, day |-> day, n |-> n]

\* Addresses 11 and 14 lead to one page, 13 to none.
Paths == 11 :> 1 @@ 12 :> 2 @@ 13 :> 0 @@ 14 :> 1 @@ 15 :> 3

EventTables ==
    LET first == [book |-> Book("ready", 0, History, 3), matched |-> (4 :> 14 @@ 1 :> 15),
                  views |-> {View(1, 15, 4), View(1, 18, 2), View(3, 18, 0)}, reported |-> 14..18,
                  products |-> (1 :> {1, 2} @@ 3 :> {3}), units |-> (1 :> 5 @@ 2 :> 1), today |-> 20]
    IN {first,
        [first EXCEPT !.book = Book("ready", 0, Backward, 0), !.matched = (7 :> 15), !.today = 21],
        [first EXCEPT !.book = Book("ready_with_warnings", 0, Later, 1), !.products = <<>>,
                      !.views = {}, !.reported = {}, !.today = 26],
        [first EXCEPT !.book = Book("ready", 0, Undated, 1)],
        [first EXCEPT !.book = Book("failed", 0, Later, 1), !.today = 25]}

EventTerms == 1 :> {1}
-----------------------------------------------------------------------------
(* Names and titles. *)

W(word) == [word |-> word, colon |-> FALSE]
L(word) == [word |-> word, colon |-> TRUE]

\* Words: 1 club, 2 leaders, 3 host, 4 machine, 5 tax, 6 morning.
WordGrams ==
    [w \in 1..8 |->
        CASE w = 1 -> {11, 12}
          [] w = 2 -> {21, 22}
          [] w = 3 -> {31, 32}
          [] w = 4 -> {41, 42, 43}
          [] w = 5 -> {51, 52}
          [] w = 6 -> {52, 61}
          [] OTHER -> {}]

Stops == {7}
Labels == {8}

Named(id, name, day, url) == [id |-> id, name |-> name, day |-> day, url |-> url]
Page(url, title, day) == [url |-> url, title |-> title, day |-> day]

EventProgrammes ==
    {{Named(1, <<W(2), W(1), W(3)>>, 4, 0), Named(2, <<W(2), W(1)>>, 5, 0),
      Named(3, <<L(6), W(5), W(4)>>, 9, 0), Named(4, <<L(6), W(5)>>, 9, 0)},
     {Named(1, <<W(2), W(1), W(3)>>, 5, 0), Named(2, <<W(2), W(1)>>, 5, 77),
      Named(3, <<W(5), W(7), W(4)>>, 9, 0), Named(5, <<W(5), W(4)>>, 0, 0)}}

\* The last page is a same-day sibling of the first.
DiscoveredPages ==
    <<Page(1, <<W(2), W(1), W(3), L(4), W(4)>>, 4),
      Page(2, <<L(8), L(6), W(5), W(4)>>, 9),
      Page(3, <<W(2), W(1), L(6), W(5)>>, 5)>>

CorrectedPages == 1 :> Page(1, <<W(2), W(1), W(3)>>, 5)
==============================================================================
