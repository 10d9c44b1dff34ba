-------------------------- MODULE MCHistoryPackages --------------------------
(***************************************************************************)
(* Small membership history packages for model checking: a version 2.0     *)
(* package, its version 1.0 predecessor, and the rows that a rebuild may   *)
(* add - repeated, dangling or out of place among them.                    *)
(***************************************************************************)
EXTENDS Naturals, Sequences

Doc(id) == [id |-> id, path |-> id]
Reading(id, source, date, precision, kind, total) ==
    [id |-> id, source |-> source, date |-> date, precision |-> precision, kind |-> kind,
     total |-> total]
Movement(source, date, band) ==
    [source |-> source, date |-> date, direction |-> "in", band |-> band]
Reason(source, date, label) ==
    [source |-> source, date |-> date, reason |-> "ended", label |-> label]
Month(m, value, status) ==
    [year |-> 2020, month |-> m, value |-> value, status |-> status, selected |-> ""]
Warning(id) == [id |-> id, source |-> ""]
Conflict(date) == [date |-> date, metric |-> "total", paths |-> {"d1"}]
Decision(id) == [id |-> id, source |-> "d1", corroborating |-> ""]
Spell(id, start, end) == [id |-> id, source |-> "d1", start |-> start, end |-> end]
Size(period, y, m) == [period |-> period, year |-> y, month |-> m, band |-> "small"]

Day(m, d) == <<2020, m, d>>

Paths1 == {"readme", "documents", "snapshots", "months", "movements", "reasons",
           "warnings", "conflicts", "coverage"}
Paths2 == Paths1 \cup {"batches", "batch_sizes", "batch_reasons", "periods", "sizes"}

Listing(S) == [p \in S |-> "bytes"]
Order == <<"readme", "documents", "snapshots", "months", "movements", "reasons", "warnings",
           "conflicts", "coverage", "batches", "batch_sizes", "batch_reasons", "periods", "sizes">>
Manifest(n) == [i \in 1..n |-> [path |-> Order[i], digest |-> "bytes"]]

Board ==
    [container |-> "sound", version |-> "2.0", files |-> Listing(Paths2), manifest |-> Manifest(14),
     documents |-> <<Doc("d1")>>,
     snapshots |-> <<Reading("s1", "d1", <<2020, 2>>, "month", "merged_same_document", 5)>>,
     months |-> <<Month(1, 2, "verified")>>,
     movements |-> <<Movement("d1", Day(2, 29), "small")>>,
     reasons |-> <<Reason("d1", Day(2, 29), "a")>>,
     warnings |-> <<Warning("w1"), Warning("")>>,
     conflicts |-> <<Conflict(Day(2, 29))>>,
     batches |-> <<Decision("b1")>>,
     batch_sizes |-> <<[batch |-> "b1", band |-> "small"]>>,
     batch_reasons |-> <<[batch |-> "b1", reason |-> "ended"]>>,
     periods |-> <<Spell("p1", Day(1, 1), Day(2, 1))>>,
     sizes |-> <<Size("p1", 0, 0), Size("", 2020, 1)>>]

\* The predecessor, and three archives that are not what their manifest says.
Older == [Board EXCEPT !.version = "1.0", !.files = Listing(Paths1), !.manifest = Manifest(9)]
Mislabelled == [Board EXCEPT !.version = "1.0"]
Unlisted == [Board EXCEPT !.manifest = Manifest(13)]
Escaping == [Board EXCEPT !.container = "outside its root"]

FirstPackages == {Board, Older, Mislabelled, Unlisted, Escaping}

MoreRows ==
    [documents |-> {Doc("d1"), Doc("d2")},
     snapshots |-> {Reading("s1", "d1", Day(3, 1), "day", "reported_comparison", 5),
                    Reading("s2", "d1", Day(3, 1), "day", "merged_same_document", 5),
                    Reading("s3", "d1", <<2019>>, "year", "reported_comparison", 0),
                    Reading("s4", "d2", <<2019>>, "year", "merged_same_document", 3)},
     months |-> {Month(1, 3, "verified"), Month(2, 1, "conflict"), Month(13, 1, "verified")},
     movements |-> {Movement("d1", Day(2, 29), "large"), Movement("d1", Day(2, 28), "small"),
                    Movement("d2", <<2019, 12, 31>>, "small")},
     reasons |-> {Reason("d1", Day(2, 29), "a"), Reason("d1", Day(2, 29), "b")},
     warnings |-> {Warning(""), Warning("w1")},
     conflicts |-> {Conflict(Day(3, 1)), Conflict(Day(2, 29))},
     batches |-> {Decision("b1"), Decision("b2")},
     batch_sizes |-> {[batch |-> "b1", band |-> "small"], [batch |-> "b2", band |-> "small"]},
     batch_reasons |-> {[batch |-> "b2", reason |-> "ended"]},
     periods |-> {Spell("p2", Day(2, 1), Day(1, 1)), Spell("p3", Day(2, 1), Day(2, 1))},
     sizes |-> {Size("p1", 2020, 0), Size("p3", 0, 0), Size("", 2020, 3), Size("p1", 2020, 1)}]
==============================================================================
