----------------------------- MODULE ShopImport -----------------------------
(***************************************************************************)
(* The import of the shop's export packages (apps/shop/package.py,         *)
(* importing.py, models.py).                                               *)
(*                                                                         *)
(* An operator hands over a package.  The reader checks it against its     *)
(* contract; the import publishes, in one transaction, the products, their *)
(* snapshots and pages, the daily facts, the daily order counts and the    *)
(* state of the source.  Rows are revised one natural key at a time: a     *)
(* changed row stands down and a new current row supersedes it.            *)
(*                                                                         *)
(* A fact's cell is a day and a product: membership status and payment     *)
(* class are further parts of the same key.                                *)
(***************************************************************************)
EXTENDS Naturals, Sequences, FiniteSets, FiniteSetsExt, SequencesExt

CONSTANTS
    Archives,       \* the packages an operator may be given (see Package)
    Products,       \* source_product_id
    Types,          \* ALLOWED_PRODUCT_TYPES
    MaxShopImports  \* bound: attempts

\* One exported archive.  name stands for the digest of the bytes: two archives
\* may share everything else.  broken is TRUE when the bytes fail a check of the
\* archive or of the manifest; split is TRUE from schema 2.0 on, which classifies
\* units and counts distinct orders.
Package ==
    [name : STRING, broken : BOOLEAN, split : BOOLEAN, as_of : Nat, first : Nat, last : Nat,
     products : SUBSET [product : Products, type : Types \cup {"other"}, title : STRING, on : Nat],
     paths : SUBSET [product : Products, path : STRING, on : Nat],
     facts : SUBSET [day : Nat, product : Products, units : Nat, free : Nat, paid : Nat],
     orders : SUBSET [day : Nat, type : Types \cup {"all"}, count : Nat]]

ASSUME ShopAssumption == MaxShopImports \in Nat /\ \A p \in Archives : p \in Package

VARIABLES
    identities,        \* ShopProduct: product, type, first_seen_on, last_seen_on
    productSnapshots,  \* ShopProductSnapshot
    pages,             \* ShopProductPage of the role "product"
    facts,             \* ShopDailyFact
    summaries,         \* ShopDailySummary
    source,            \* the current ShopSourceState
    importedArchives,  \* names of the archives with a successful live run
    history,           \* the packages published, in order
    attempts           \* how many imports were tried

tables   == <<identities, productSnapshots, pages, facts, summaries, source>>
shopVars == <<tables, importedArchives, history, attempts>>

NoSource == [digest |-> <<>>, as_of |-> 0, first |-> 0, last |-> 0]

ShopInit ==
    /\ identities = {} /\ productSnapshots = {} /\ pages = {} /\ facts = {} /\ summaries = {}
    /\ source = NoSource
    /\ importedArchives = {} /\ history = <<>> /\ attempts = 0

-----------------------------------------------------------------------------
(* The contract: read_package. *)

\* No two rows of a table share their key.
Unique(rows, Key(_)) == \A r, s \in rows : Key(r) = Key(s) => r = s

\* _load_manifest: a covered period that ended before the export.
ManifestIsValid(p) == ~p.broken /\ p.first <= p.last /\ p.last <= p.as_of

\* _parse_products
ProductsAreValid(p) ==
    /\ p.products # {}
    /\ Unique(p.products, LAMBDA r : r.product)
    /\ \A r \in p.products : r.type \in Types /\ r.on <= p.as_of

\* _parse_daily_facts: inside the covered period, one row per cell, and the
\* classified units are part of the units.
FactsAreValid(p) ==
    /\ Unique(p.facts, LAMBDA r : <<r.day, r.product>>)
    /\ \A r \in p.facts :
          /\ r.day \in p.first..p.last
          /\ p.split => r.free + r.paid <= r.units

\* The sum of the counts of some order rows.
CountOf(rows) == FoldSet(LAMBDA r, n : n + r.count, 0, rows)

\* _parse_daily_orders: a day with a row has the row of all types, which counts
\* no more orders than the types together.
OrdersAreValid(p) ==
    /\ Unique(p.orders, LAMBDA r : <<r.day, r.type>>)
    /\ \A r \in p.orders :
          /\ r.day \in p.first..p.last
          /\ LET typed == {s \in p.orders : s.day = r.day /\ s.type # "all"}
             IN  \E total \in p.orders :
                    /\ total.day = r.day /\ total.type = "all"
                    /\ CountOf(typed) # 0 => total.count <= CountOf(typed)

\* _parse_product_paths; two paths of one role are refused by _check_references.
PathsAreValid(p) ==
    /\ Unique(p.paths, LAMBDA r : r.product)
    /\ \A r \in p.paths : r.on <= p.as_of

\* _check_references
ReferencesResolve(p) ==
    {r.product : r \in p.facts} \cup {r.product : r \in p.paths}
        \subseteq {r.product : r \in p.products}

ReadPackage(p) ==
    /\ ManifestIsValid(p) /\ ProductsAreValid(p) /\ FactsAreValid(p)
    /\ PathsAreValid(p) /\ (p.split => OrdersAreValid(p)) /\ ReferencesResolve(p)

\* Before schema 2.0 no unit is classified and no order counted.
Classified(p) ==
    {[day |-> r.day, product |-> r.product, units |-> r.units,
      free |-> IF p.split THEN <<r.free>> ELSE <<>>,
      paid |-> IF p.split THEN <<r.paid>> ELSE <<>>] : r \in p.facts}

CountedOrders(p) == IF p.split THEN p.orders ELSE {}

\* content_checksum: everything the pages show, and not the archive's bytes.
ContentChecksum(p) ==
    <<p.as_of, p.first, p.last, p.products, p.paths, Classified(p), CountedOrders(p)>>

-----------------------------------------------------------------------------
(* The writers.  A row carries the number of the import that wrote it. *)

Current(table) == {r \in table : r.current}

\* _write_products refuses a product that changed its type.
TypesAreKept(p) ==
    \A r \in p.products : \A i \in identities : i.product = r.product => i.type = r.type

WriteProducts(p) ==
    {LET seen == {r.on : r \in {s \in p.products : s.product = i.product}} \cup {i.last}
     IN  [i EXCEPT !.last = Max(seen)] : i \in identities}
    \cup {[product |-> r.product, type |-> r.type, first |-> r.on, last |-> r.on] :
              r \in {s \in p.products : \A i \in identities : i.product # s.product}}

\* _write_snapshots: one current row per product and day.
WriteSnapshots(p, run) ==
    LET wanted  == {[product |-> r.product, on |-> r.on, title |-> r.title] : r \in p.products}
        told    == {[product |-> s.product, on |-> s.on, title |-> s.title] : s \in Current(productSnapshots)}
        changed == wanted \ told
        Retired(s) == s.current /\ \E c \in changed : c.product = s.product /\ c.on = s.on
    IN  {IF Retired(s) THEN [s EXCEPT !.current = FALSE] ELSE s : s \in productSnapshots}
        \cup {[product |-> c.product, on |-> c.on, title |-> c.title, run |-> run,
               current |-> TRUE] : c \in changed}

\* _write_paths: an address the product had before is made current again; for a
\* new one the holder of the role stands down.
WritePaths(p) ==
    LET Known(r)   == \E g \in pages : g.product = r.product /\ g.path = r.path
        new        == {r \in p.paths : ~Known(r)}
        Retired(g) == g.current /\ \E r \in new : r.product = g.product
        Seen(g)    == {r \in p.paths : r.product = g.product /\ r.path = g.path}
    IN  {IF Seen(g) # {} THEN [g EXCEPT !.current = TRUE, !.last = Max({@} \cup {r.on : r \in Seen(g)})]
         ELSE IF Retired(g) THEN [g EXCEPT !.current = FALSE] ELSE g : g \in pages}
        \cup {[product |-> r.product, path |-> r.path, last |-> r.on, current |-> TRUE] : r \in new}

\* shopproductpage_one_current_per_role
OnePagePerRole(table) == \A g, h \in Current(table) : g.product = h.product => g = h

\* Mutant of FactDiffers: a reclassified unit is not a change.
UnitsDiffer(f, r) == f.units # r.units

\* _FACT_FIELDS
FactDiffers(f, r) == f.units # r.units \/ f.free # r.free \/ f.paid # r.paid

\* _write_facts: a cell the package does not name keeps its row.
WriteFacts(p, run) ==
    LET Cell(f, r) == f.day = r.day /\ f.product = r.product
        Changed(r) == \A f \in Current(facts) : Cell(f, r) => FactDiffers(f, r)
        new        == {r \in Classified(p) : Changed(r)}
    IN  {IF f.current /\ \E r \in new : Cell(f, r) THEN [f EXCEPT !.current = FALSE] ELSE f : f \in facts}
        \cup {[day |-> r.day, product |-> r.product, units |-> r.units, free |-> r.free,
               paid |-> r.paid, run |-> run, current |-> TRUE] : r \in new}

\* _write_summaries
WriteSummaries(p, run) ==
    LET Cell(s, r) == s.day = r.day /\ s.type = r.type
        Changed(r) == \A s \in Current(summaries) : Cell(s, r) => s.count # r.count
        new        == {r \in CountedOrders(p) : Changed(r)}
    IN  {IF s.current /\ \E r \in new : Cell(s, r) THEN [s EXCEPT !.current = FALSE] ELSE s :
             s \in summaries}
        \cup {[day |-> r.day, type |-> r.type, count |-> r.count, run |-> run, current |-> TRUE] :
                  r \in new}

-----------------------------------------------------------------------------
(* import_shop_package *)

Attempt == attempts < MaxShopImports /\ attempts' = attempts + 1

Refuse(p) ==
    /\ Attempt /\ ~ReadPackage(p)
    /\ UNCHANGED <<tables, importedArchives, history>>

\* The whole contract is checked, the attempt recorded, and nothing written.
DryRun(p) ==
    /\ Attempt /\ ReadPackage(p)
    /\ UNCHANGED <<tables, importedArchives, history>>

\* The same archive, or another one with the facts the source state tells.
IsUnchanged(p) == p.name \in importedArchives \/ source.digest = ContentChecksum(p)

Unchanged(p) ==
    /\ Attempt /\ ReadPackage(p) /\ IsUnchanged(p)
    /\ UNCHANGED <<tables, importedArchives, history>>

Publish(p) ==
    /\ Attempt /\ ReadPackage(p) /\ ~IsUnchanged(p)
    /\ TypesAreKept(p) /\ OnePagePerRole(WritePaths(p))
    /\ identities' = WriteProducts(p)
    /\ productSnapshots' = WriteSnapshots(p, attempts')
    /\ pages' = WritePaths(p)
    /\ facts' = WriteFacts(p, attempts')
    /\ summaries' = WriteSummaries(p, attempts')
    /\ source' = [digest |-> ContentChecksum(p), as_of |-> p.as_of, first |-> p.first, last |-> p.last]
    /\ importedArchives' = importedArchives \cup {p.name}
    /\ history' = Append(history, p)

\* The transaction ends on a product of another type or on a constraint.
Fail(p) ==
    /\ Attempt /\ ReadPackage(p) /\ ~IsUnchanged(p)
    /\ ~(TypesAreKept(p) /\ OnePagePerRole(WritePaths(p)))
    /\ UNCHANGED <<tables, importedArchives, history>>

ShopNext == \E p \in Archives : Refuse(p) \/ DryRun(p) \/ Unchanged(p) \/ Publish(p) \/ Fail(p)

ShopSpec == ShopInit /\ [][ShopNext]_shopVars

-----------------------------------------------------------------------------
(* Properties. *)

\* What the last package that told anything told.
LastTold(told) ==
    LET spoken == {i \in DOMAIN told : told[i] # {}}
    IN  IF spoken = {} THEN {} ELSE told[Max(spoken)]

\* What a table and a package say of the cell of a day and a product, of the
\* address of a product, and of the orders of a day and a type.
UnitsOf(rows, d, x) == {<<f.units, f.free, f.paid>> : f \in {g \in rows : g.day = d /\ g.product = x}}
AddressOf(rows, x) == {g.path : g \in {h \in rows : h.product = x}}
OrdersOf(rows, d, t) == {s.count : s \in {u \in rows : u.day = d /\ u.type = t}}

\* Whatever the order of the packages and however they overlap, the one current
\* row of a cell is what the last package that named the cell said of it, and the
\* page addresses and order counts likewise.
LastWordStands ==
    /\ \A d \in 1..source.as_of : \A x \in Products :
          UnitsOf(Current(facts), d, x)
             = LastTold([i \in DOMAIN history |-> UnitsOf(Classified(history[i]), d, x)])
    /\ \A x \in Products :
          AddressOf(Current(pages), x)
             = LastTold([i \in DOMAIN history |-> AddressOf(history[i].paths, x)])
    /\ \A d \in 1..source.as_of : \A t \in Types \cup {"all"} :
          OrdersOf(Current(summaries), d, t)
             = LastTold([i \in DOMAIN history |-> OrdersOf(CountedOrders(history[i]), d, t)])

\* "One current page per (product, role) is a database constraint; catching it
\* here turns an IntegrityError into a sentence": a package that passes the
\* contract and keeps the products' types does not end on the constraint.
AcceptedIsImportable ==
    \A p \in Archives :
        ReadPackage(p) /\ ~IsUnchanged(p) /\ TypesAreKept(p) => OnePagePerRole(WritePaths(p))
=============================================================================
