------------------------------- MODULE MCShop --------------------------------
(***************************************************************************)
(* Small shops for model checking: states of the current rows - an import  *)
(* of an older schema, a full one, and one a package later - and packages  *)
(* of two products: a first one, a restatement in schema 2.0 with a moved  *)
(* page, a re-export of it under another name, the return of the page, and *)
(* packages the contract or the import refuses.                            *)
(***************************************************************************)
EXTENDS Naturals, Integers

(* The current rows. *)

Sale(day, product, member, units, free) ==
    [day |-> day, product |-> product, member |-> member,
     payment |-> IF member = "member" THEN "invoice" ELSE "bank_or_card",
     orders |-> 1, units |-> units, value |-> 2 * units - free, free |-> free]

Snap(product, on, category) ==
    [product |-> product, observed_on |-> on, title |-> product, category |-> category]

Page(product, role, path) == [product |-> product, role |-> role, path |-> path]

ProductTypes == [p \in 1..4 |-> CASE p = 2 -> "event_registration"
                                  [] p = 3 -> "document" [] p = 4 -> "physical_product"
                                  [] OTHER -> "document"]

Snapshots == {Snap(1, 1, 10), Snap(1, 13, 20), Snap(2, 11, 20), Snap(3, 11, 10)}

Sales == {Sale(11, 1, "member", 1, 1), Sale(12, 2, "non_member", 2, 0),
          Sale(13, 1, "non_member", 3, 1), Sale(14, 1, "member", 2, 2),
          Sale(14, 3, "non_member", 1, 0), Sale(14, 4, "member", 5, 0)}

Summary(day, n) == [day |-> day, type |-> "all types", orders |-> n]
Visit(path, day, n) == [path |-> path, day |-> day, views |-> n]
Measured(day, detail) == [day |-> day, detail |-> detail]

FullTable ==
    [coverage_start |-> 11, coverage_end |-> 14, member_verified |-> TRUE,
     facts |-> Sales, snapshots |-> Snapshots,
     summaries |-> {Summary(11, 1), Summary(14, 2)},
     paths |-> {Page(1, "product", 1), Page(2, "event", 2), Page(3, "product", 1),
                Page(1, "information", 3)},
     days |-> {Measured(12, TRUE), Measured(13, TRUE), Measured(14, FALSE)},
     views |-> {Visit(1, 13, 4), Visit(1, 14, 3), Visit(3, 14, 2)},
     types |-> ProductTypes]

\* The older schema: no summaries, no classification, no verified member flag.
OldTable ==
    [FullTable EXCEPT !.member_verified = FALSE, !.summaries = {}, !.coverage_end = 13,
        !.facts = {[f EXCEPT !.free = -1] : f \in {g \in Sales : g.day <= 13}},
        !.days = {}, !.views = {}]

\* The package of the following week.
LaterTable ==
    [FullTable EXCEPT !.coverage_end = 16,
        !.facts = Sales \cup {Sale(16, 3, "member", 4, 0), Sale(15, 2, "member", 1, 0)},
        !.snapshots = Snapshots \cup {Snap(4, 15, 10)},
        !.days = {Measured(d, TRUE) : d \in 13..17},
        !.views = {Visit(1, 13, 4), Visit(2, 16, 3), Visit(2, 17, 9)}]

ShopTables == {OldTable, FullTable, LaterTable}
-----------------------------------------------------------------------------
(* The packages. *)

Product(x, type, title, on) == [product |-> x, type |-> type, title |-> title, on |-> on]
Fact(day, x, units, free, paid) == [day |-> day, product |-> x, units |-> units, free |-> free, paid |-> paid]
Path(x, path, on) == [product |-> x, path |-> path, on |-> on]
Order(day, type, count) == [day |-> day, type |-> type, count |-> count]

First ==
    [name |-> "first", broken |-> FALSE, split |-> FALSE, as_of |-> 2, first |-> 1, last |-> 2,
     products |-> {Product(1, "document", "guide", 2), Product(2, "event", "course", 1)},
     paths |-> {Path(1, "/guide", 2)},
     facts |-> {Fact(1, 1, 2, 0, 0), Fact(2, 2, 1, 0, 0)}, orders |-> {}]

Restated ==
    [First EXCEPT !.name = "restated", !.split = TRUE, !.as_of = 3, !.last = 3,
                  !.products = {Product(1, "document", "handbook", 2), Product(2, "event", "course", 3)},
                  !.paths = {Path(1, "/handbook", 3), Path(2, "/course", 3)},
                  !.facts = {Fact(1, 1, 2, 1, 1), Fact(3, 2, 3, 0, 2)},
                  !.orders = {Order(1, "document", 2), Order(1, "event", 1), Order(1, "all", 2)}]

\* Only the classification of units and an order count differ.
Reclassified ==
    [Restated EXCEPT !.name = "reclassified", !.facts = {Fact(1, 1, 2, 0, 2), Fact(3, 2, 3, 0, 2)},
                     !.orders = {Order(1, "all", 3), Order(1, "document", 3)}]

Rezipped == [Restated EXCEPT !.name = "rezipped"]

\* The page is back at its first address.
Returned == [Restated EXCEPT !.name = "returned", !.paths = {Path(1, "/guide", 3)}]

Retyped == [First EXCEPT !.name = "retyped", !.products = {Product(2, "document", "course", 2)},
                         !.paths = {}, !.facts = {}]

Overcounted == [Restated EXCEPT !.name = "overcounted",
                                !.orders = {Order(1, "document", 2), Order(1, "all", 3)}]

Dangling == [First EXCEPT !.name = "dangling", !.products = {Product(1, "document", "guide", 2)}]

MCArchives == {First, Restated, Reclassified, Rezipped, Returned, Retyped, Overcounted, Dangling}
==============================================================================
