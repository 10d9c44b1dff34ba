---------------------------- MODULE RegisterProofs ----------------------------
(***************************************************************************)
(* Proofs about what imports leave behind: the published profiles of the   *)
(* members, their rosters, and the rows of the shop.                       *)
(*                                                                         *)
(* MemberDirectory. That the published rows are the list is true only      *)
(* between checks, and a check answered with 304 reads no list at all: it  *)
(* relies on the rows still being the list the stored validator stands     *)
(* for. The invariant therefore carries, besides the answer, what the      *)
(* validator stands for, and what a check has read while it is between its *)
(* commit and its record.                                                  *)
(*                                                                         *)
(* RosterImport. Two commands that overlap leave one line of snapshots     *)
(* because a command holds the rows it is about to stand down: nobody else *)
(* can, and the unique index refuses whoever did not see them.             *)
(*                                                                         *)
(* ShopImport. The current rows are the last word of the packages, cell by *)
(* cell: a package says one thing of a cell, so a writer that compares its *)
(* cell with the current row and revises it when they differ leaves that   *)
(* thing current. For the addresses that is true because of the constraint *)
(* of one current page per product, not because of the writer.             *)
(***************************************************************************)
EXTENDS MemberDirectory, RosterImport, ShopImport, TLAPS, FiniteSetTheorems,
        NaturalsInduction, WellFoundedInduction

-----------------------------------------------------------------------------
(* The profiles: the inductive invariant. *)

\* Between the commit of the rows and the record of the check.
Committed == sync.pc \in {"imported", "unchanged"}

\* A row is published exactly when it has no moment of disappearance.
RowsAreMarked == \A c \in DOMAIN entries : entries[c].published <=> entries[c].gone = Never

\* A stored validator stands for the published rows ...
ValidatorStands ==
    ~torn /\ ~Committed /\ feed.validator # NoListing => PublishedSet = Normalised(feed.validator)

\* ... and so does the last answer.
AnswerStands ==
    ~torn /\ ~Committed /\ feed.result \in {"imported", "unchanged"} => PublishedSet = answered

\* A check sends the stored validator or none, and holds the rows of the list
\* whose validator it will store.
CheckReads ==
    /\ sync.pc = "collect" => sync.validator \in {NoListing, feed.validator}
    /\ sync.pc \in {"reconcile", "imported", "unchanged"} => sync.got = Normalised(sync.validator)
    /\ Committed => PublishedSet = sync.got

IInv == RowsAreMarked /\ ValidatorStands /\ AnswerStands /\ CheckReads

-----------------------------------------------------------------------------
(* Lists and rows. *)

\* No code stands twice in a normalised list: the first sighting wins.
OneRowEach(set) == \A r, t \in set : r.code = t.code => r = t

\* What normalise makes of a list: rows with a code each, none twice.
LEMMA NormalisedRows ==
  ASSUME NEW l \in Seq(ListRow)
  PROVE  /\ Normalised(l) \subseteq ListRow
         /\ OneRowEach(Normalised(l))
         /\ IsFiniteSet(CodesOf(Normalised(l)))
<1>1. DOMAIN l = 1..Len(l) /\ Len(l) \in Nat /\ \A i \in 1..Len(l) : l[i] \in ListRow
  OBVIOUS
<1> DEFINE First(j) == \A h \in 1..(j - 1) : IsMember(l[h]) => l[h].code # l[j].code
           kept == {j \in DOMAIN l \ Rejected(l) : First(j)}
<1>2. Normalised(l) = {l[i] : i \in kept}
  BY DEF Normalised
<1>3. \A i \in kept : i \in 1..Len(l) /\ IsMember(l[i]) /\ First(i)
  BY <1>1 DEF Rejected
<1>4. Normalised(l) \subseteq ListRow
  BY <1>1, <1>2, <1>3
<1>5. ASSUME NEW i \in kept, NEW j \in kept, l[i].code = l[j].code PROVE i = j
  <2>1. i \in 1..Len(l) /\ j \in 1..Len(l) /\ IsMember(l[i]) /\ IsMember(l[j]) /\ First(i) /\ First(j)
    BY <1>3
  <2>2. ~(i < j)
    <3>1. i < j => i \in 1..(j - 1)
      BY <1>1, <2>1
    <3> QED BY <1>5, <2>1, <3>1
  <2>3. ~(j < i)
    <3>1. j < i => j \in 1..(i - 1)
      BY <1>1, <2>1
    <3> QED BY <1>5, <2>1, <3>1
  <2> QED BY <1>1, <2>1, <2>2, <2>3
<1>6. OneRowEach(Normalised(l))
  <2> SUFFICES ASSUME NEW r \in Normalised(l), NEW t \in Normalised(l), r.code = t.code PROVE r = t
    BY DEF OneRowEach
  <2>1. PICK i \in kept : r = l[i]
    BY <1>2
  <2>2. PICK j \in kept : t = l[j]
    BY <1>2
  <2> QED BY <1>5, <2>1, <2>2
<1>7. IsFiniteSet(CodesOf(Normalised(l)))
  <2> DEFINE f == [i \in 1..Len(l) |-> l[i].code]
             all == {f[i] : i \in 1..Len(l)}
  <2>1. IsFiniteSet(1..Len(l))
    BY <1>1, FS_Interval
  <2>2. IsFiniteSet(all)
    <3>1. f \in Surjection(1..Len(l), all)
      BY DEF Surjection
    <3> QED BY <2>1, <3>1, FS_Surjection
  <2>3. CodesOf(Normalised(l)) \subseteq all
    <3> SUFFICES ASSUME NEW r \in Normalised(l) PROVE r.code \in all
      BY DEF CodesOf
    <3>1. PICK i \in kept : r = l[i]
      BY <1>2
    <3>2. i \in 1..Len(l) /\ f[i] = r.code
      BY <1>3, <3>1
    <3> QED BY <3>2
  <2> QED BY <2>2, <2>3, FS_Subset
<1> QED BY <1>4, <1>6, <1>7

\* The address of a code is the one of its row.
LEMMA PathOfRow ==
  ASSUME NEW set, OneRowEach(set), NEW r \in set
  PROVE  Path(set, r.code) = r.path
<1>1. (CHOOSE t \in set : t.code = r.code) \in set /\ (CHOOSE t \in set : t.code = r.code).code = r.code
  OBVIOUS
<1> QED BY <1>1 DEF Path, OneRowEach

\* What reconcile_entries leaves: typed rows, the published ones exactly the
\* list's, and of every row that was there its first sighting.
LEMMA Reconciled ==
  ASSUME TypeOK, RowsAreMarked, NEW set \in SUBSET ListRow, OneRowEach(set), IsFiniteSet(CodesOf(set)),
         entries' = ReconcileEntries(set)
  PROVE  /\ entries' \in [DOMAIN entries' -> Entry]
         /\ DOMAIN entries' \subseteq STRING /\ IsFiniteSet(DOMAIN entries')
         /\ RowsAreMarked' /\ PublishedSet' = set /\ HistoryStep
<1> DEFINE codes == CodesOf(set)
<1>1. /\ DOMAIN entries' = DOMAIN entries \cup codes
      /\ \A c \in codes : entries'[c] = Observed(set, c)
      /\ \A c \in DOMAIN entries \ codes : entries'[c] = Missing(c)
  BY DEF ReconcileEntries
<1>2. \A c \in codes : \E r \in set : r.code = c /\ Path(set, c) = r.path /\ r.path \in STRING /\ c \in STRING
  BY PathOfRow DEF CodesOf, ListRow
<1>3. \A c \in DOMAIN entries : entries[c] \in Entry
  BY DEF TypeOK
<1>4. clock \in Nat /\ clock # Never
  BY DEF TypeOK, Never
<1>5. ASSUME NEW c \in codes
      PROVE  /\ entries'[c] \in Entry /\ entries'[c].published = TRUE /\ entries'[c].gone = Never
             /\ entries'[c].path = Path(set, c)
             /\ c \in DOMAIN entries => entries'[c].first = entries[c].first
  <2>1. entries'[c] = Observed(set, c) /\ Path(set, c) \in STRING
    BY <1>1, <1>2
  <2>2. CASE c \in DOMAIN entries
    <3>1. entries[c] \in Entry
      BY <1>3, <2>2
    <3>2. entries'[c] = [entries[c] EXCEPT !.path = Path(set, c), !.published = TRUE,
                                           !.last = clock, !.gone = Never]
      BY <2>1, <2>2 DEF Observed
    <3> DEFINE old == entries[c]
               address == Path(set, c)
    <3>3. old \in Entry /\ address \in STRING
          /\ entries'[c] = [old EXCEPT !.path = address, !.published = TRUE, !.last = clock, !.gone = Never]
      BY <2>1, <3>1, <3>2
    <3> HIDE DEF old, address
    <3>4. entries'[c] = [path |-> address, first |-> old.first, last |-> clock, published |-> TRUE, gone |-> Never]
      BY <3>3 DEF Entry
    <3>5. old.first \in Nat
      BY <3>3 DEF Entry
    <3>6. /\ entries'[c].published = TRUE /\ entries'[c].gone = Never
          /\ entries'[c].path = address /\ entries'[c].first = old.first
      BY <3>4
    <3>7. address \in STRING
      BY <3>3
    <3>8. entries'[c] \in Entry
      BY <1>4, <3>4, <3>5, <3>7 DEF Entry, Never
    <3> QED BY <3>6, <3>8 DEF old, address
  <2>3. CASE c \notin DOMAIN entries
    BY <1>4, <2>1, <2>3 DEF Observed, Entry, Never
  <2> QED BY <2>2, <2>3
<1>6. ASSUME NEW c \in DOMAIN entries \ codes
      PROVE  /\ entries'[c] \in Entry /\ entries'[c].published = FALSE /\ entries'[c].gone # Never
             /\ entries'[c].first = entries[c].first
  <2>1. entries'[c] = Missing(c) /\ entries[c] \in Entry
    BY <1>1, <1>3
  <2>2. entries[c].published <=> entries[c].gone = Never
    BY DEF RowsAreMarked
  <2>3. CASE entries[c].published
    BY <1>4, <2>1, <2>3 DEF Missing, Entry
  <2>4. CASE ~entries[c].published
    BY <2>1, <2>2, <2>4 DEF Missing, Entry
  <2> QED BY <2>3, <2>4
<1>7. entries' \in [DOMAIN entries' -> Entry]
  <2>1. entries' = [c \in DOMAIN entries' |-> entries'[c]]
    BY DEF ReconcileEntries
  <2>2. \A c \in DOMAIN entries' : entries'[c] \in Entry
    BY <1>1, <1>5, <1>6
  <2> QED BY <2>1, <2>2
<1>8. DOMAIN entries' \subseteq STRING
  BY <1>1, <1>2 DEF TypeOK
<1>9. IsFiniteSet(DOMAIN entries')
  <2>1. IsFiniteSet(DOMAIN entries) /\ IsFiniteSet(codes)
    BY DEF TypeOK
  <2>2. IsFiniteSet(DOMAIN entries \cup codes)
    BY <2>1, FS_Union, Zenon
  <2> QED BY <1>1, <2>2
<1>10. RowsAreMarked' /\ HistoryStep
  <2>1. \A c \in DOMAIN entries' : entries'[c].published <=> entries'[c].gone = Never
    BY <1>1, <1>5, <1>6
  <2>2. \A c \in DOMAIN entries : c \in DOMAIN entries' /\ entries'[c].first = entries[c].first
    BY <1>1, <1>5, <1>6
  <2> QED BY <2>1, <2>2 DEF RowsAreMarked, HistoryStep
<1>11. Published' = codes
  BY <1>1, <1>5, <1>6 DEF Published
<1>12. PublishedSet' = {[code |-> c, path |-> Path(set, c)] : c \in codes}
  BY <1>5, <1>11 DEF PublishedSet
<1>13. \A r \in set : r = [code |-> r.code, path |-> Path(set, r.code)] /\ r.code \in codes
  BY PathOfRow DEF ListRow, CodesOf
<1>14. \A c \in codes : [code |-> c, path |-> Path(set, c)] \in set
  BY <1>13 DEF CodesOf
<1>15. PublishedSet' = set
  BY <1>12, <1>13, <1>14
<1> QED BY <1>7, <1>8, <1>9, <1>10, <1>15

-----------------------------------------------------------------------------
(* The steps. *)

\* A step that leaves the rows alone leaves what is said of them alone.
LEMMA RowsStay ==
  ASSUME UNCHANGED entries
  PROVE  Published' = Published /\ PublishedSet' = PublishedSet /\ (RowsAreMarked => RowsAreMarked')
  BY DEF Published, PublishedSet, RowsAreMarked

LEMMA ListRows ==
  ASSUME DirectoryAssumption, NEW l \in Listings
  PROVE  Normalised(l) \subseteq ListRow /\ OneRowEach(Normalised(l)) /\ IsFiniteSet(CodesOf(Normalised(l)))
  BY NormalisedRows DEF DirectoryAssumption

\* The commit of the rows, with a run or without.
LEMMA ReconcileKeeps ==
  ASSUME DirectoryAssumption, TypeOK, IInv, ReconcileKnown \/ ReconcileNew
  PROVE  TypeOK' /\ IInv' /\ HistoryStep
<1>1. /\ sync.pc = "reconcile" /\ entries' = ReconcileEntries(sync.got)
      /\ \E pc \in {"imported", "unchanged"} : sync' = [sync EXCEPT !.pc = pc]
      /\ UNCHANGED <<listing, clock, feed, answered, torn, faults>>
  BY DEF ReconcileKnown, ReconcileNew, At, Goto
<1>2. sync.got = Normalised(sync.validator) /\ sync.got \in SUBSET ListRow
  BY <1>1 DEF IInv, CheckReads, TypeOK
<1>3. OneRowEach(sync.got) /\ IsFiniteSet(CodesOf(sync.got))
  <2>1. sync.validator \in Seq(ListRow)
    <3>1. sync.validator \in Validator
      BY DEF TypeOK
    <3>2. <<>> \in Seq(ListRow)
      OBVIOUS
    <3> QED BY <3>1, <3>2 DEF Validator, DirectoryAssumption, NoListing
  <2> QED BY <1>2, <2>1, NormalisedRows
<1>4. /\ entries' \in [DOMAIN entries' -> Entry]
      /\ DOMAIN entries' \subseteq STRING /\ IsFiniteSet(DOMAIN entries')
      /\ RowsAreMarked' /\ PublishedSet' = sync.got /\ HistoryStep
  BY <1>1, <1>2, <1>3, Reconciled DEF IInv
<1>5. sync'.pc \in {"imported", "unchanged"} /\ sync'.got = sync.got /\ sync'.validator = sync.validator
  BY <1>1 DEF TypeOK
<1>6. TypeOK'
  BY <1>1, <1>4 DEF TypeOK
<1>7. CheckReads' /\ ValidatorStands' /\ AnswerStands'
  BY <1>2, <1>4, <1>5 DEF CheckReads, ValidatorStands, AnswerStands, Committed
<1> QED BY <1>4, <1>6, <1>7 DEF IInv

\* The record of a check whose rows are committed.
LEMMA MarkKeeps ==
  ASSUME TypeOK, IInv, Mark
  PROVE  TypeOK' /\ IInv'
<1>1. /\ sync.pc \in {"imported", "unchanged"} /\ sync' = Idle
      /\ feed' = [result |-> sync.pc, validator |-> sync.validator]
      /\ answered' = sync.got /\ torn' = FALSE
      /\ UNCHANGED <<listing, clock, entries, publishedSets, faults>>
  BY DEF Mark, Return
<1>2. PublishedSet = sync.got /\ sync.got = Normalised(sync.validator)
  BY <1>1 DEF IInv, CheckReads, Committed
<1>3. PublishedSet' = PublishedSet /\ RowsAreMarked'
  BY <1>1, RowsStay DEF IInv
<1>4. /\ sync'.pc = "idle" /\ feed'.validator = sync.validator
  BY <1>1 DEF Idle
<1>5. TypeOK'
  <2>1. sync' \in [pc : {"idle", "collect", "reconcile", "imported", "unchanged"}, dry : BOOLEAN,
                    seen : Nat, got : SUBSET ListRow, validator : Validator]
    BY <1>1 DEF Idle, Validator
  <2>2. feed' \in [result : {"never", "imported", "unchanged", "failed"}, validator : Validator]
    BY <1>1 DEF TypeOK
  <2> QED BY <1>1, <2>1, <2>2 DEF TypeOK
<1>6. ValidatorStands' /\ AnswerStands' /\ CheckReads'
  BY <1>1, <1>2, <1>3, <1>4 DEF ValidatorStands, AnswerStands, CheckReads, Committed
<1> QED BY <1>3, <1>5, <1>6 DEF IInv

\* A check answered with 304 leaves the rows as the list that is served now.
LEMMA NotModifiedKeeps ==
  ASSUME DirectoryAssumption, TypeOK, IInv, NotModified
  PROVE  TypeOK' /\ IInv'
<1>1. /\ sync.pc = "collect" /\ sync.validator # NoListing /\ sync.validator = listing /\ sync' = Idle
      /\ UNCHANGED <<listing, clock, entries, publishedSets, torn, faults>>
  BY DEF NotModified, IsKnown, At, Return
<1>2. feed.validator = listing /\ feed.validator # NoListing
  BY <1>1 DEF IInv, CheckReads
<1>3. ~torn => PublishedSet = Normalised(listing)
  BY <1>1, <1>2 DEF IInv, ValidatorStands, Committed
<1>4. \/ sync.dry /\ UNCHANGED <<feed, answered>>
      \/ feed' = [feed EXCEPT !.result = "unchanged"] /\ answered' = Normalised(listing)
  BY DEF NotModified, Record
<1>5. PublishedSet' = PublishedSet /\ RowsAreMarked'
  BY <1>1, RowsStay DEF IInv
<1>6. sync'.pc = "idle" /\ feed'.validator = feed.validator
  BY <1>1, <1>4 DEF Idle, TypeOK
<1>7. TypeOK'
  <2>1. sync' \in [pc : {"idle", "collect", "reconcile", "imported", "unchanged"}, dry : BOOLEAN,
                    seen : Nat, got : SUBSET ListRow, validator : Validator]
    BY <1>1 DEF Idle, Validator
  <2>2. feed' \in [result : {"never", "imported", "unchanged", "failed"}, validator : Validator]
    BY <1>4 DEF TypeOK
  <2>3. answered' \subseteq ListRow
    BY <1>4, ListRows DEF TypeOK
  <2> QED BY <1>1, <2>1, <2>2, <2>3 DEF TypeOK
<1>8. AnswerStands'
  <2>1. CASE UNCHANGED <<feed, answered>>
    BY <1>1, <1>5, <2>1 DEF IInv, AnswerStands, Committed
  <2>2. CASE answered' = Normalised(listing)
    BY <1>1, <1>3, <1>5, <2>2 DEF AnswerStands
  <2> QED BY <1>4, <2>1, <2>2
<1>9. ValidatorStands' /\ CheckReads'
  BY <1>1, <1>2, <1>3, <1>5, <1>6 DEF ValidatorStands, CheckReads, Committed
<1> QED BY <1>5, <1>7, <1>8, <1>9 DEF IInv

\* A step that touches neither the rows nor the validator and ends or continues
\* a check that has committed nothing.
LEMMA QuietStep ==
  ASSUME IInv, UNCHANGED <<entries, answered>>, feed'.validator = feed.validator,
         feed'.result \in {"failed", feed.result},
         ~torn' => ~torn /\ ~Committed,
         \/ sync'.pc = "idle"
         \/ sync'.pc = "collect" /\ sync'.validator \in {NoListing, feed'.validator}
         \/ sync'.pc = "reconcile" /\ sync'.got = Normalised(sync'.validator)
  PROVE  IInv'
<1>1. PublishedSet' = PublishedSet /\ RowsAreMarked'
  BY RowsStay DEF IInv
<1>2. ~Committed'
  BY DEF Committed
<1>3. ValidatorStands'
  BY <1>1 DEF IInv, ValidatorStands
<1>4. AnswerStands'
  BY <1>1 DEF IInv, AnswerStands
<1>5. CheckReads'
  BY <1>2 DEF CheckReads
<1> QED BY <1>1, <1>3, <1>4, <1>5 DEF IInv

LEMMA IdleType ==
  Idle \in [pc : {"idle", "collect", "reconcile", "imported", "unchanged"}, dry : BOOLEAN,
            seen : Nat, got : SUBSET ListRow, validator : Validator]
  BY DEF Idle, Validator

\* Every step keeps the invariant and the history.
LEMMA InvStep ==
  ASSUME DirectoryAssumption, TypeOK, IInv, [Next]_vars
  PROVE  TypeOK' /\ IInv' /\ HistoryStep
<1>1. UNCHANGED entries => HistoryStep
  <2> SUFFICES ASSUME UNCHANGED entries PROVE HistoryStep
    OBVIOUS
  <2> QED BY DEF IInv, RowsAreMarked, HistoryStep
<1>2. ASSUME NEW dry \in BOOLEAN, Begin(dry)
      PROVE  TypeOK' /\ IInv' /\ HistoryStep
  <2>1. /\ sync.pc = "idle" /\ clock' = clock + 1
        /\ sync' = [Idle EXCEPT !.pc = "collect", !.dry = dry, !.seen = Cardinality(Published),
                               !.validator = IF Published = {} THEN NoListing ELSE feed.validator]
        /\ UNCHANGED <<listing, entries, publishedSets, feed, answered, torn, faults>>
    BY <1>2 DEF Begin, At
  <2>2. Cardinality(Published) \in Nat
    <3>1. IsFiniteSet(Published)
      BY FS_Subset DEF Published, TypeOK
    <3> QED BY <3>1, FS_CardinalityType
  <2> DEFINE sent == IF Published = {} THEN NoListing ELSE feed.validator
             many == Cardinality(Published)
  <2>3. sent \in {NoListing, feed.validator} /\ sent \in Validator
    BY DEF TypeOK, Validator
  <2>4. sync' = [Idle EXCEPT !.pc = "collect", !.dry = dry, !.seen = many, !.validator = sent] /\ many \in Nat
    BY <2>1, <2>2
  <2> HIDE DEF sent, many
  <2>5. sync' \in [pc : {"idle", "collect", "reconcile", "imported", "unchanged"}, dry : BOOLEAN,
                    seen : Nat, got : SUBSET ListRow, validator : Validator]
        /\ sync'.pc = "collect" /\ sync'.validator = sent
    BY <2>3, <2>4 DEF Idle
  <2>6. TypeOK'
    <3>1. clock' \in Nat \ {0}
      BY <2>1 DEF TypeOK
    <3> QED BY <2>1, <2>5, <3>1 DEF TypeOK
  <2>7. IInv'
    BY <2>1, <2>3, <2>5, QuietStep DEF Committed
  <2> QED BY <1>1, <2>1, <2>6, <2>7
<1>3. CASE NotModified
  BY <1>1, <1>3, NotModifiedKeeps DEF NotModified
<1>4. CASE Collect
  <2>1. sync.pc = "collect" /\ UNCHANGED <<listing, clock, entries, publishedSets, answered, torn, faults>>
    BY <1>4 DEF Collect, At
  <2>2. feed' \in [result : {"never", "imported", "unchanged", "failed"}, validator : Validator]
        /\ feed'.validator = feed.validator /\ feed'.result \in {"failed", feed.result}
    BY <1>4 DEF Collect, Record, TypeOK
  <2>3. \/ sync' = Idle
        \/ sync' = [sync EXCEPT !.pc = "reconcile", !.got = Normalised(listing), !.validator = listing]
    BY <1>4 DEF Collect, Return
  <2>4. CASE sync' = Idle
    <3>1. TypeOK'
      BY <2>1, <2>2, <2>4, IdleType DEF TypeOK
    <3>2. sync'.pc = "idle"
      BY <2>4 DEF Idle
    <3>3. IInv'
      BY <2>1, <2>2, <3>2, QuietStep DEF Committed
    <3> QED BY <1>1, <2>1, <3>1, <3>3
  <2>5. CASE sync' = [sync EXCEPT !.pc = "reconcile", !.got = Normalised(listing), !.validator = listing]
    <3> DEFINE set == Normalised(listing)
    <3>1. set \in SUBSET ListRow /\ listing \in Validator
      BY ListRows DEF TypeOK, Validator
    <3>2. sync' = [sync EXCEPT !.pc = "reconcile", !.got = set, !.validator = listing]
      BY <2>5
    <3> HIDE DEF set
    <3>3. sync' \in [pc : {"idle", "collect", "reconcile", "imported", "unchanged"}, dry : BOOLEAN,
                      seen : Nat, got : SUBSET ListRow, validator : Validator]
          /\ sync'.pc = "reconcile" /\ sync'.got = set /\ sync'.validator = listing
      BY <3>1, <3>2 DEF TypeOK
    <3>4. TypeOK'
      BY <2>1, <2>2, <3>3 DEF TypeOK
    <3>5. sync'.got = Normalised(sync'.validator)
      BY <3>3 DEF set
    <3>6. IInv'
      BY <2>1, <2>2, <3>3, <3>5, QuietStep DEF Committed
    <3> QED BY <1>1, <2>1, <3>4, <3>6
  <2> QED BY <2>3, <2>4, <2>5
<1>5. CASE CollectRefused \/ Fails
  <2>1. /\ sync.pc \in {"collect", "reconcile"} /\ sync' = Idle /\ feed' = [feed EXCEPT !.result = "failed"]
        /\ UNCHANGED <<listing, clock, entries, publishedSets, answered, torn>> /\ faults' \in {faults, faults + 1}
    BY <1>5 DEF CollectRefused, Fails, At, Return, Record
  <2>2. TypeOK' /\ feed'.validator = feed.validator /\ feed'.result = "failed"
    <3>1. feed' \in [result : {"never", "imported", "unchanged", "failed"}, validator : Validator]
          /\ feed'.validator = feed.validator /\ feed'.result = "failed"
      BY <2>1 DEF TypeOK
    <3>2. faults' \in Nat
      BY <2>1 DEF TypeOK
    <3> QED BY <2>1, <3>1, <3>2, IdleType DEF TypeOK
  <2>3. sync'.pc = "idle"
    BY <2>1 DEF Idle
  <2>4. IInv'
    BY <2>1, <2>2, <2>3, QuietStep DEF Committed
  <2> QED BY <1>1, <2>1, <2>2, <2>4
<1>6. CASE ReconcileKnown \/ ReconcileNew
  BY <1>6, ReconcileKeeps
<1>7. CASE Mark
  BY <1>1, <1>7, MarkKeeps DEF Mark
<1>8. CASE Crash
  <2>1. /\ sync' = Idle /\ torn' = (torn \/ sync.pc \in {"imported", "unchanged"}) /\ faults' = faults + 1
        /\ UNCHANGED <<listing, clock, entries, publishedSets, feed, answered>>
    BY <1>8 DEF Crash, Return
  <2>2. TypeOK'
    <3>1. torn' \in BOOLEAN
      BY <2>1
    <3> QED BY <2>1, <3>1, IdleType DEF TypeOK
  <2>3. sync'.pc = "idle"
    BY <2>1 DEF Idle
  <2>4. ~torn' => ~torn /\ ~Committed
    BY <2>1 DEF Committed
  <2>5. IInv'
    BY <2>1, <2>3, <2>4, QuietStep
  <2> QED BY <1>1, <2>1, <2>2, <2>5
<1>9. CASE ListChanges \/ UNCHANGED vars
  <2>1. /\ listing' \in Listings /\ clock' \in {clock, clock + 1}
        /\ UNCHANGED <<entries, feed, sync, answered, torn, faults>>
    BY <1>9 DEF ListChanges, vars, TypeOK
  <2>2. TypeOK'
    BY <2>1 DEF TypeOK
  <2>3. PublishedSet' = PublishedSet /\ RowsAreMarked'
    BY <2>1, RowsStay DEF IInv
  <2>4. ValidatorStands' /\ AnswerStands' /\ CheckReads'
    BY <2>1, <2>3 DEF IInv, ValidatorStands, AnswerStands, CheckReads, Committed
  <2> QED BY <1>1, <2>1, <2>2, <2>3, <2>4 DEF IInv
<1> QED
  BY <1>2, <1>3, <1>4, <1>5, <1>6, <1>7, <1>8, <1>9 DEF Next

-----------------------------------------------------------------------------
(* The theorems. *)

LEMMA Invariant ==
  ASSUME DirectoryAssumption
  PROVE  Spec => [](TypeOK /\ IInv)
<1>1. Init => TypeOK /\ IInv
  <2> SUFFICES ASSUME Init PROVE TypeOK /\ IInv
    OBVIOUS
  <2>1. DOMAIN entries = {} /\ entries \in [DOMAIN entries -> Entry]
    <3>1. entries = <<>>
      BY DEF Init
    <3>2. DOMAIN <<>> = {} /\ <<>> \in [{} -> Entry]
      OBVIOUS
    <3> QED BY <3>1, <3>2
  <2>2. TypeOK
    <3>1. IsFiniteSet(DOMAIN entries) /\ DOMAIN entries \subseteq STRING
      BY <2>1, FS_EmptySet
    <3>2. feed \in [result : {"never", "imported", "unchanged", "failed"}, validator : Validator]
      BY DEF Init, Validator
    <3>3. listing \in Listings /\ sync = Idle
      BY DEF Init
    <3>4. clock \in Nat \ {0} /\ faults \in Nat
      BY DEF Init
    <3>5. answered \subseteq ListRow /\ torn \in BOOLEAN
      BY DEF Init
    <3> QED BY <2>1, <3>1, <3>2, <3>3, <3>4, <3>5, IdleType DEF TypeOK
  <2>3. sync.pc = "idle" /\ feed.result = "never" /\ feed.validator = NoListing
    BY DEF Init, Idle
  <2> QED BY <2>1, <2>2, <2>3 DEF IInv, RowsAreMarked, ValidatorStands, AnswerStands, CheckReads, Committed
<1>2. TypeOK /\ IInv /\ [Next]_vars => (TypeOK /\ IInv)'
  BY InvStep
<1> QED BY <1>1, <1>2, PTL DEF Spec

\* Every variable of the register and of a check keeps its type.
THEOREM TypeCorrect ==
  ASSUME DirectoryAssumption
  PROVE  Spec => []TypeOK
  BY Invariant, PTL

\* After a check that reports imported or unchanged the published rows are the
\* list it was answered with, whatever lists came and went, and whether the
\* answer was a list, a set published before or a 304; the exception is a check
\* that ended between its commit and its record (synchronize_member_directory).
THEOREM RegisterIsTheList ==
  ASSUME DirectoryAssumption
  PROVE  Spec => []RegisterFollowsList
<1>1. TypeOK /\ IInv => RegisterFollowsList
  BY DEF IInv, AnswerStands, RegisterFollowsList, Committed, At
<1> QED BY <1>1, Invariant, PTL

\* No check loses a row or rewrites its first sighting, and a row has a moment
\* of disappearance exactly while it is not published (reconcile_entries).
THEOREM NoHistoryIsLost ==
  ASSUME DirectoryAssumption
  PROVE  Spec => HistoryIsKept
<1>1. TypeOK /\ IInv /\ [Next]_vars => [HistoryStep]_vars
  BY InvStep
<1> QED BY <1>1, Invariant, PTL DEF Spec, HistoryIsKept

-----------------------------------------------------------------------------
(* The rosters: the inductive invariant. *)

ExportNames == {f.name : f \in Exports}
RowCounts == {ReadExport(k, f).rows_read : k \in Kinds, f \in Exports}
RowLists == {ReadExport(k, f).rows : k \in Kinds, f \in Exports}

Snapshot == [file : ExportNames, current : BOOLEAN, superseded_by : Nat,
             read : RowCounts, rows : RowLists]

Command == [pc : {"run", "select", "lock", "write"}, kind : Kinds, file : Exports,
            dry : BOOLEAN, supersede : BOOLEAN, retiring : SUBSET Nat]

RosterTypeOK ==
    /\ snapshots \in [Kinds -> Seq(Snapshot)]
    /\ op \in [Operators -> Command \cup {IdleOperator}]

\* A command about to write holds rows that are in force, and no two commands
\* hold the same row: while one of them writes, nobody else stands its row down.
HeldRowsStand ==
    /\ \A o \in Operators : OperatorAt(o, "write") => op[o].retiring \subseteq CurrentIds(op[o].kind)
    /\ \A o, p \in Operators :
          /\ o # p /\ OperatorAt(o, "write") /\ OperatorAt(p, "write")
          /\ op[o].kind = op[p].kind
          => op[o].retiring \cap op[p].retiring = {}

RosterInv == RosterTypeOK /\ HeldRowsStand /\ SnapshotsFormALine

LEMMA CommandInProgress ==
  ASSUME RosterTypeOK, NEW o \in Operators, ~OperatorAt(o, "idle")
  PROVE  op[o] \in Command
<1>1. op[o] \in Command \cup {IdleOperator}
  BY DEF RosterTypeOK
<1> QED
  BY <1>1 DEF OperatorAt, IdleOperator

\* The last snapshot, if there is one, is the only one in force.
LEMMA OnlyLastCurrent ==
  ASSUME RosterTypeOK, SnapshotsFormALine, NEW k \in Kinds
  PROVE  /\ Len(snapshots[k]) \in Nat /\ DOMAIN snapshots[k] = 1..Len(snapshots[k])
         /\ CurrentIds(k) = {Len(snapshots[k])} \ {0}
<1>1. snapshots[k] \in Seq(Snapshot)
  BY DEF RosterTypeOK
<1>2. Len(snapshots[k]) \in Nat /\ DOMAIN snapshots[k] = 1..Len(snapshots[k])
  BY <1>1
<1>3. \A i \in 1..Len(snapshots[k]) : snapshots[k][i].current <=> i = Len(snapshots[k])
  BY <1>2 DEF SnapshotsFormALine
<1>4. CurrentIds(k) = {i \in 1..Len(snapshots[k]) : i = Len(snapshots[k])}
  BY <1>2, <1>3 DEF CurrentIds
<1> QED
  BY <1>2, <1>4

LEMMA SnapshotStandsDown ==
  ASSUME NEW s \in Snapshot, NEW m \in Nat
  PROVE  LET down == [s EXCEPT !.current = FALSE, !.superseded_by = m]
         IN  down \in Snapshot /\ ~down.current /\ down.superseded_by = m
  BY DEF Snapshot

\* A publication: the table it leaves for its kind.
LEMMA RosterPublished ==
  ASSUME RosterInv, NEW o \in Operators, PublishRoster(o)
  PROVE  LET k == op[o].kind
             n == Len(snapshots[k])
         IN  /\ k \in Kinds
             /\ snapshots' \in [Kinds -> Seq(Snapshot)]
             /\ \A other \in Kinds \ {k} : snapshots'[other] = snapshots[other]
             /\ Len(snapshots'[k]) = n + 1 /\ DOMAIN snapshots'[k] = 1..(n + 1)
             /\ snapshots'[k][n + 1].current /\ snapshots'[k][n + 1].superseded_by = NoSnapshot
             /\ \A i \in 1..n :
                   /\ ~snapshots'[k][i].current
                   /\ snapshots'[k][i].superseded_by = i + 1
<1> DEFINE k == op[o].kind
           old == snapshots[k]
           n == Len(old)
           mid == [i \in DOMAIN old |-> StoodDown(old[i], i, op[o].retiring, n + 1)]
           new == Append(mid, NewSnapshot(k, op[o].file))
<1>1. op[o] \in Command /\ OperatorAt(o, "write")
  BY CommandInProgress DEF PublishRoster, OperatorAt, RosterInv
<1>2. k \in Kinds /\ op[o].file \in Exports
  BY <1>1 DEF Command
<1>3. /\ n \in Nat /\ DOMAIN old = 1..n /\ CurrentIds(k) = {n} \ {0}
      /\ old \in Seq(Snapshot)
  BY <1>2, OnlyLastCurrent DEF RosterInv, RosterTypeOK
<1>4. op[o].retiring = {n} \ {0}
  <2>1. op[o].retiring \subseteq CurrentIds(k)
    BY <1>1 DEF RosterInv, HeldRowsStand
  <2>2. CurrentIds(k) \subseteq op[o].retiring
    BY DEF PublishRoster, RosterConstraintsAllow
  <2> QED
    BY <1>3, <2>1, <2>2
<1>5. NewSnapshot(k, op[o].file) \in Snapshot
  BY <1>2 DEF NewSnapshot, Snapshot, NoSnapshot, ExportNames, RowCounts, RowLists
<1>6. NewSnapshot(k, op[o].file).current /\ NewSnapshot(k, op[o].file).superseded_by = NoSnapshot
  BY DEF NewSnapshot
<1>7. ASSUME NEW i \in 1..n
      PROVE  /\ mid[i] \in Snapshot
             /\ ~mid[i].current /\ mid[i].superseded_by = i + 1
  <2>1. mid[i] = StoodDown(old[i], i, op[o].retiring, n + 1) /\ old[i] \in Snapshot
    BY <1>3
  <2>2. CASE i = n
    <3>1. i \in op[o].retiring
      BY <1>3, <1>4, <2>2
    <3>2. mid[i] = [old[i] EXCEPT !.current = FALSE, !.superseded_by = n + 1]
      BY <2>1, <3>1 DEF StoodDown
    <3>3. n + 1 \in Nat
      BY <1>3
    <3>4. LET down == [old[i] EXCEPT !.current = FALSE, !.superseded_by = n + 1]
          IN  down \in Snapshot /\ ~down.current /\ down.superseded_by = n + 1
      BY <2>1, <3>3, SnapshotStandsDown
    <3> QED
      BY <2>2, <3>2, <3>4
  <2>3. CASE i # n
    <3>1. i \notin op[o].retiring
      BY <1>3, <1>4, <2>3
    <3>2. ~old[i].current /\ old[i].superseded_by = i + 1
      BY <1>2, <1>3, <2>3 DEF RosterInv, SnapshotsFormALine
    <3> QED
      BY <2>1, <3>1, <3>2 DEF StoodDown
  <2> QED
    BY <2>2, <2>3
<1>8. mid \in Seq(Snapshot) /\ Len(mid) = n
  <2>1. mid \in [1..n -> Snapshot]
    BY <1>3, <1>7
  <2> HIDE DEF mid
  <2> QED
    BY <1>3, <2>1
<1>9. snapshots' = [snapshots EXCEPT ![k] = new]
  BY <1>2 DEF PublishRoster, RosterInv, RosterTypeOK
<1> DEFINE added == NewSnapshot(k, op[o].file)
<1>10. /\ new \in Seq(Snapshot) /\ Len(new) = n + 1 /\ DOMAIN new = 1..(n + 1)
       /\ new[n + 1] = added /\ \A i \in 1..n : new[i] = mid[i]
  <2>1. new = Append(mid, added) /\ added \in Snapshot
    BY <1>5
  <2> HIDE DEF mid, new, added
  <2> QED
    BY <1>3, <1>8, <2>1
<1>11. /\ snapshots' \in [Kinds -> Seq(Snapshot)] /\ snapshots'[k] = new
       /\ \A other \in Kinds \ {k} : snapshots'[other] = snapshots[other]
  <2> HIDE DEF new
  <2> QED
    BY <1>2, <1>9, <1>10 DEF RosterInv, RosterTypeOK
<1> HIDE DEF new, mid
<1> QED
  BY <1>2, <1>6, <1>7, <1>10, <1>11

LEMMA RosterStep ==
  ASSUME RosterInv, [RosterNext]_rosterVars
  PROVE  RosterInv'
<1>0. op \in [Operators -> Command \cup {IdleOperator}]
  BY DEF RosterInv, RosterTypeOK
<1>1. ASSUME UNCHANGED snapshots, NEW o \in Operators, NEW c \in Command \cup {IdleOperator},
             op' = [op EXCEPT ![o] = c],
             c.pc = "write" =>
                /\ c.retiring \subseteq CurrentIds(c.kind)
                /\ \A p \in Operators \ {o} : OperatorAt(p, "write") /\ op[p].kind = c.kind
                      => op[p].retiring \cap c.retiring = {}
      PROVE  RosterInv'
  <2>1. op' \in [Operators -> Command \cup {IdleOperator}]
    BY <1>0, <1>1
  <2>2. op'[o] = c /\ \A p \in Operators \ {o} : op'[p] = op[p]
    BY <1>0, <1>1
  <2>5. HeldRowsStand'
    <3>1. ASSUME NEW p \in Operators, OperatorAt(p, "write")'
          PROVE  (op[p].retiring \subseteq CurrentIds(op[p].kind))'
      <4>1. op'[p].retiring \subseteq CurrentIds(op'[p].kind)
        BY <1>1, <2>2, <3>1 DEF RosterInv, HeldRowsStand, OperatorAt
      <4> QED
        BY <1>1, <4>1 DEF CurrentIds
    <3>2. ASSUME NEW p \in Operators, NEW q \in Operators, p # q,
                 OperatorAt(p, "write")', OperatorAt(q, "write")', op'[p].kind = op'[q].kind
          PROVE  op'[p].retiring \cap op'[q].retiring = {}
      <4>1. CASE p = o
        BY <1>1, <2>2, <3>2, <4>1 DEF OperatorAt
      <4>2. CASE q = o
        BY <1>1, <2>2, <3>2, <4>2 DEF OperatorAt
      <4>3. CASE p # o /\ q # o
        BY <2>2, <3>2, <4>3 DEF RosterInv, HeldRowsStand, OperatorAt
      <4> QED
        BY <4>1, <4>2, <4>3
    <3> QED
      BY <3>1, <3>2 DEF HeldRowsStand
  <2>6. SnapshotsFormALine'
    BY <1>1 DEF RosterInv, SnapshotsFormALine
  <2> QED
    BY <1>1, <2>1, <2>5, <2>6 DEF RosterInv, RosterTypeOK
<1>2. IdleOperator.pc = "idle"
  BY DEF IdleOperator
<1>3. ASSUME NEW o \in Operators, NEW k \in Kinds, NEW f \in Exports,
             NEW dry \in BOOLEAN, NEW supersede \in BOOLEAN,
             BeginRoster(o, k, f, dry, supersede)
      PROVE  RosterInv'
  <2> DEFINE c == [pc |-> "run", kind |-> k, file |-> f, dry |-> dry,
                   supersede |-> supersede, retiring |-> {}]
  <2>1. UNCHANGED snapshots /\ (op' = op \/ op' = [op EXCEPT ![o] = c])
    BY <1>3 DEF BeginRoster
  <2>2. CASE op' = op
    <3>1. op' = [op EXCEPT ![o] = op[o]] /\ op[o] = IdleOperator
      BY <1>0, <1>3, <2>2 DEF BeginRoster, OperatorAt, Command
    <3> QED
      BY <1>0, <1>1, <1>2, <2>1, <3>1
  <2>3. CASE op' = [op EXCEPT ![o] = c]
    <3>1. c \in Command /\ c.pc # "write"
      BY DEF Command
    <3> HIDE DEF c
    <3> QED
      BY <1>1, <2>1, <2>3, <3>1
  <2> QED
    BY <2>1, <2>2, <2>3
<1>4. ASSUME NEW o \in Operators, OpenRun(o)
      PROVE  RosterInv'
  <2>1. op[o] \in Command /\ UNCHANGED snapshots
    BY <1>4, CommandInProgress DEF OpenRun, OperatorAt, RosterInv
  <2>2. op' = [op EXCEPT ![o] = IdleOperator] \/ op' = [op EXCEPT ![o] = [op[o] EXCEPT !.pc = "select"]]
    BY <1>0, <1>4 DEF OpenRun, OperatorReturn, OperatorGoto
  <2>3. [op[o] EXCEPT !.pc = "select"] \in Command /\ [op[o] EXCEPT !.pc = "select"].pc = "select"
    BY <2>1 DEF Command
  <2> QED
    BY <1>1, <1>2, <2>1, <2>2, <2>3
<1>5. ASSUME NEW o \in Operators, SelectCurrent(o)
      PROVE  RosterInv'
  <2>1. op[o] \in Command /\ UNCHANGED snapshots
    BY <1>5, CommandInProgress DEF SelectCurrent, OperatorAt, RosterInv
  <2> DEFINE ids == CurrentIds(op[o].kind)
             c == [op[o] EXCEPT !.pc = "lock", !.retiring = ids]
  <2>2. op' = [op EXCEPT ![o] = c]
    BY <1>0, <1>5 DEF SelectCurrent
  <2>3. ids \subseteq Nat
    BY <2>1, OnlyLastCurrent DEF RosterInv, Command
  <2> HIDE DEF ids
  <2>4. c \in Command /\ c.pc = "lock"
    BY <2>1, <2>3 DEF Command
  <2> HIDE DEF c
  <2> QED
    BY <1>1, <2>1, <2>2, <2>4
<1>6. ASSUME NEW o \in Operators, LockRows(o)
      PROVE  RosterInv'
  <2>1. op[o] \in Command /\ UNCHANGED snapshots
    BY <1>6, CommandInProgress DEF LockRows, OperatorAt, RosterInv
  <2> DEFINE still == op[o].retiring \cap CurrentIds(op[o].kind)
             c == [op[o] EXCEPT !.pc = "write", !.retiring = still]
  <2>2. op' = [op EXCEPT ![o] = IdleOperator] \/ op' = [op EXCEPT ![o] = c]
    BY <1>0, <1>6 DEF LockRows, OperatorReturn
  <2>3. \A p \in Operators \ {o} : OperatorAt(p, "write") /\ op[p].kind = op[o].kind
           => op[p].retiring \cap still = {}
    BY <1>6 DEF LockRows, LockedSnapshots, OperatorAt
  <2>4. still \subseteq Nat /\ still \subseteq CurrentIds(op[o].kind)
    BY <2>1 DEF Command
  <2> HIDE DEF still
  <2>5. c \in Command /\ c.retiring = still /\ c.kind = op[o].kind
    BY <2>1, <2>4 DEF Command
  <2> HIDE DEF c
  <2> QED
    BY <1>1, <1>2, <2>1, <2>2, <2>3, <2>4, <2>5
<1>7. ASSUME NEW o \in Operators, RosterRefused(o)
      PROVE  RosterInv'
  BY <1>1, <1>2, <1>7 DEF RosterRefused, OperatorReturn
<1>8. ASSUME NEW o \in Operators, PublishRoster(o)
      PROVE  RosterInv'
  <2> DEFINE k == op[o].kind
             n == Len(snapshots[k])
  <2>1. /\ k \in Kinds
        /\ snapshots' \in [Kinds -> Seq(Snapshot)]
        /\ \A other \in Kinds \ {k} : snapshots'[other] = snapshots[other]
        /\ Len(snapshots'[k]) = n + 1 /\ DOMAIN snapshots'[k] = 1..(n + 1)
        /\ snapshots'[k][n + 1].current /\ snapshots'[k][n + 1].superseded_by = NoSnapshot
        /\ \A i \in 1..n : ~snapshots'[k][i].current /\ snapshots'[k][i].superseded_by = i + 1
    BY <1>8, RosterPublished
  <2>2. n \in Nat /\ CurrentIds(k) = {n} \ {0}
    BY <2>1, OnlyLastCurrent DEF RosterInv
  <2>3. SnapshotsFormALine'
    <3> SUFFICES ASSUME NEW j \in Kinds, NEW i \in DOMAIN snapshots'[j]
                 PROVE  LET s == snapshots'[j][i]
                        IN  IF i = Len(snapshots'[j])
                            THEN s.current /\ s.superseded_by = NoSnapshot
                            ELSE ~s.current /\ s.superseded_by = i + 1
      BY DEF SnapshotsFormALine
    <3>1. CASE j = k
      BY <2>1, <2>2, <3>1
    <3>2. CASE j # k
      BY <2>1, <3>2 DEF RosterInv, SnapshotsFormALine
    <3> QED
      BY <3>1, <3>2
  <2>4. op' = [op EXCEPT ![o] = IdleOperator]
    BY <1>8 DEF PublishRoster, OperatorReturn
  <2>5. op'[o] = IdleOperator /\ \A p \in Operators \ {o} : op'[p] = op[p]
    BY <1>0, <2>4
  <2>6. RosterTypeOK'
    BY <1>0, <2>1, <2>4 DEF RosterTypeOK
  <2>7. ASSUME NEW p \in Operators, OperatorAt(p, "write")'
        PROVE  /\ p # o /\ op'[p] = op[p]
               /\ (op[p].retiring \subseteq CurrentIds(op[p].kind))'
    <3>1. p # o /\ op'[p] = op[p] /\ OperatorAt(p, "write")
      BY <1>2, <2>5, <2>7 DEF OperatorAt
    <3>2. op[p] \in Command
      BY <3>1, CommandInProgress DEF OperatorAt, RosterInv
    <3>3. op[p].retiring \subseteq CurrentIds(op[p].kind)
      BY <3>1 DEF RosterInv, HeldRowsStand
    <3>4. CASE op[p].kind = k
      <4>1. op[o].retiring = CurrentIds(k)
        BY <1>8 DEF PublishRoster, RosterConstraintsAllow, RosterInv, HeldRowsStand
      <4>2. op[p].retiring \cap op[o].retiring = {}
        BY <1>8, <3>1, <3>4 DEF PublishRoster, RosterInv, HeldRowsStand
      <4> QED
        BY <3>1, <3>3, <3>4, <4>1, <4>2
    <3>5. CASE op[p].kind # k
      BY <2>1, <3>1, <3>2, <3>3, <3>5 DEF CurrentIds, Command
    <3> QED
      BY <3>1, <3>4, <3>5
  <2>8. HeldRowsStand'
    <3>1. \A p, q \in Operators :
            /\ p # q /\ OperatorAt(p, "write")' /\ OperatorAt(q, "write")'
            /\ op'[p].kind = op'[q].kind
            => op'[p].retiring \cap op'[q].retiring = {}
      BY <2>7 DEF RosterInv, HeldRowsStand, OperatorAt
    <3> QED
      BY <2>7, <3>1 DEF HeldRowsStand
  <2> QED
    BY <2>3, <2>6, <2>8 DEF RosterInv
<1>9. CASE UNCHANGED rosterVars
  BY <1>9 DEF rosterVars, RosterInv, RosterTypeOK, HeldRowsStand, SnapshotsFormALine,
              OperatorAt, CurrentIds
<1> QED
  BY <1>3, <1>4, <1>5, <1>6, <1>7, <1>8, <1>9 DEF RosterNext

\* However many operators import how many exports of both kinds, with or without
\* --supersede-previous, the snapshots form one line (_retire_current and the
\* constraint of one current snapshot per source).
THEOREM RostersFormALine ==
  RosterSpec => []SnapshotsFormALine
<1>1. RosterInit => RosterInv
  BY DEF RosterInit, RosterInv, RosterTypeOK, HeldRowsStand, SnapshotsFormALine, OperatorAt,
         CurrentIds, IdleOperator
<1>2. RosterInv /\ [RosterNext]_rosterVars => RosterInv'
  BY RosterStep
<1>3. RosterInv => SnapshotsFormALine
  BY DEF RosterInv
<1> QED
  BY <1>1, <1>2, <1>3, PTL DEF RosterSpec

-----------------------------------------------------------------------------
(* The shop. *)

\* The rows the import writes.
FactRow == [day : Nat, product : Products, units : Nat, free : Seq(Nat), paid : Seq(Nat),
            run : Nat, current : BOOLEAN]
PageRow == [product : Products, path : STRING, last : Nat, current : BOOLEAN]
CountRow == [day : Nat, type : Types \cup {"all"}, count : Nat, run : Nat, current : BOOLEAN]

\* What is said after something was said, or nothing, of what old said.
Latest(said, old) == IF said # {} THEN said ELSE old

OneWord(said) == \A v, w \in said : v = w

LEMMA NatHasGreatest ==
  ASSUME NEW n \in Nat, NEW S, S \subseteq 1..n, S # {}
  PROVE  Max(S) \in S
<1> DEFINE T == {n - s : s \in S}
<1>0. \A s \in S : s \in Int /\ n - s \in Nat /\ n - s \in T
  OBVIOUS
<1>1. T \subseteq Nat /\ T # {}
  BY <1>0
<1>2. IsWellFoundedOn(OpToRel(<, Nat), Nat)
  BY NatLessThanWellFounded, Zenon
<1>3. \E x \in T : \A y \in T : ~(<<y, x>> \in OpToRel(<, Nat))
  BY <1>1, <1>2, WFMin, Zenon
<1>4. PICK x \in T : \A y \in T : ~(<<y, x>> \in OpToRel(<, Nat))
  BY <1>3
<1>5. \A y \in T : ~(y < x)
  BY <1>1, <1>4, Zenon DEF OpToRel
<1>6. PICK s \in S : x = n - s
  OBVIOUS
<1>7. \A t \in S : s >= t
  <2> HIDE DEF T
  <2> QED BY <1>0, <1>5, <1>6
<1> QED BY <1>7 DEF Max

LEMMA LastWord ==
  ASSUME NEW n \in Nat, NEW f, NEW g, DOMAIN f = 1..n, DOMAIN g = 1..(n + 1),
         \A i \in 1..n : g[i] = f[i]
  PROVE  LastTold(g) = Latest(g[n + 1], LastTold(f))
<1> DEFINE F == {i \in DOMAIN f : f[i] # {}}
           G == {i \in DOMAIN g : g[i] # {}}
<1>1. CASE g[n + 1] # {}
  <2>1. n + 1 \in G /\ \A i \in G : n + 1 >= i /\ i \in Nat
    BY <1>1
  <2>2. Max(G) = n + 1
    BY <2>1 DEF Max
  <2> QED BY <1>1, <2>1, <2>2, Zenon DEF LastTold, Latest
<1>2. CASE g[n + 1] = {}
  <2>1. G = F
    BY <1>2
  <2>2. CASE F = {}
    BY <1>2, <2>1, <2>2, Zenon DEF LastTold, Latest
  <2>3. CASE F # {}
    <3>1. Max(F) \in F
      BY <2>3, NatHasGreatest
    <3>2. g[Max(F)] = f[Max(F)]
      BY <3>1
    <3> QED BY <1>2, <2>1, <2>3, <3>2, Zenon DEF LastTold, Latest
  <2> QED BY <2>2, <2>3
<1> QED BY <1>1, <1>2

\* Nothing is the last word that nobody said.
LEMMA LastWordIsSaid ==
  ASSUME NEW n \in Nat, NEW f, DOMAIN f = 1..n
  PROVE  LastTold(f) = {} \/ \E i \in 1..n : LastTold(f) = f[i]
<1> DEFINE F == {i \in DOMAIN f : f[i] # {}}
<1>1. CASE F = {}
  BY <1>1, Zenon DEF LastTold
<1>2. CASE F # {}
  <2>1. Max(F) \in F
    BY <1>2, NatHasGreatest
  <2> QED BY <1>2, <2>1, Zenon DEF LastTold
<1> QED BY <1>1, <1>2

LEMMA ClassifiedRows ==
  ASSUME NEW p \in Package, FactsAreValid(p)
  PROVE  /\ Classified(p) \subseteq
              [day : Nat, product : Products, units : Nat, free : Seq(Nat), paid : Seq(Nat)]
         /\ \A r, s \in Classified(p) : r.day = s.day /\ r.product = s.product => r = s
<1>1. p.facts \subseteq [day : Nat, product : Products, units : Nat, free : Nat, paid : Nat]
  BY DEF Package
<1>2. \A r, s \in p.facts : <<r.day, r.product>> = <<s.day, s.product>> => r = s
  BY DEF FactsAreValid, Unique
<1>3. \A r, s \in p.facts : r.day = s.day /\ r.product = s.product => r = s
  BY <1>2
<1>4. ASSUME NEW r \in p.facts
      PROVE  /\ (IF p.split THEN <<r.free>> ELSE <<>>) \in Seq(Nat)
             /\ (IF p.split THEN <<r.paid>> ELSE <<>>) \in Seq(Nat)
  BY <1>1
<1>5. Classified(p) \subseteq
          [day : Nat, product : Products, units : Nat, free : Seq(Nat), paid : Seq(Nat)]
  <2> SUFFICES ASSUME NEW c \in Classified(p)
               PROVE  c \in [day : Nat, product : Products, units : Nat, free : Seq(Nat),
                             paid : Seq(Nat)]
    OBVIOUS
  <2>1. PICK r \in p.facts :
           c = [day |-> r.day, product |-> r.product, units |-> r.units,
                free |-> IF p.split THEN <<r.free>> ELSE <<>>,
                paid |-> IF p.split THEN <<r.paid>> ELSE <<>>]
    BY Zenon DEF Classified
  <2>2. r.day \in Nat /\ r.product \in Products /\ r.units \in Nat
    BY <1>1
  <2> QED BY <1>4, <2>1, <2>2
<1> QED BY <1>3, <1>5 DEF Classified

LEMMA FactsTakeTheWord ==
  ASSUME NEW p \in Package, FactsAreValid(p), NEW run \in Nat, facts \subseteq FactRow,
         \A d \in Nat, x \in Products : OneWord(UnitsOf(Current(facts), d, x))
  PROVE  /\ WriteFacts(p, run) \subseteq FactRow
         /\ \A d \in Nat, x \in Products :
               UnitsOf(Current(WriteFacts(p, run)), d, x)
                  = Latest(UnitsOf(Classified(p), d, x), UnitsOf(Current(facts), d, x))
<1> DEFINE Cell(f, r) == f.day = r.day /\ f.product = r.product
           Changed(r) == \A f \in Current(facts) : Cell(f, r) => FactDiffers(f, r)
           new        == {r \in Classified(p) : Changed(r)}
           Out(f)     == IF f.current /\ \E r \in new : Cell(f, r) THEN [f EXCEPT !.current = FALSE]
                         ELSE f
           In(r)      == [day |-> r.day, product |-> r.product, units |-> r.units, free |-> r.free,
                          paid |-> r.paid, run |-> run, current |-> TRUE]
<1> USE DEF FactRow
<1>1. WriteFacts(p, run) = {Out(f) : f \in facts} \cup {In(r) : r \in new}
  BY Zenon DEF WriteFacts
<1>2. \A f \in facts : Out(f) \in FactRow
  OBVIOUS
<1>3. \A r \in new : In(r) \in FactRow
  <2>1. \A r \in new : r \in Classified(p)
    OBVIOUS
  <2> HIDE DEF new
  <2> QED BY <2>1, ClassifiedRows
<1> HIDE DEF FactRow
<1>4. WriteFacts(p, run) \subseteq FactRow
  BY <1>1, <1>2, <1>3
<1>5. \A f \in facts : Out(f).current <=> f.current /\ ~(\E r \in new : Cell(f, r))
  BY DEF FactRow
<1>6. \A f \in facts : Out(f).current => Out(f) = f
  BY <1>5
<1>7. Current(WriteFacts(p, run))
        = {f \in Current(facts) : ~(\E r \in new : Cell(f, r))} \cup {In(r) : r \in new}
  <2> DEFINE Kept(f) == ~(\E r \in new : Cell(f, r))
  <2>1. \A r \in new : In(r).current
    OBVIOUS
  <2>2. \A f \in facts : Out(f).current <=> f.current /\ Kept(f)
    BY <1>5
  <2> HIDE DEF new, Out, In, Kept
  <2>3. Current(WriteFacts(p, run)) = {f \in Current(facts) : Kept(f)} \cup {In(r) : r \in new}
    BY <1>1, <1>6, <2>1, <2>2 DEF Current
  <2> QED BY <2>3 DEF Kept
<1>8. ASSUME NEW d \in Nat, NEW x \in Products
      PROVE  UnitsOf(Current(WriteFacts(p, run)), d, x)
                = Latest(UnitsOf(Classified(p), d, x), UnitsOf(Current(facts), d, x))
  <2>1. UnitsOf(Current(WriteFacts(p, run)), d, x)
          = {<<f.units, f.free, f.paid>> :
                f \in {g \in Current(facts) : g.day = d /\ g.product = x
                                             /\ ~(\E r \in new : r.day = d /\ r.product = x)}}
            \cup {<<r.units, r.free, r.paid>> : r \in {s \in new : s.day = d /\ s.product = x}}
    <3> HIDE DEF new
    <3>1. {g \in Current(WriteFacts(p, run)) : g.day = d /\ g.product = x}
            = {g \in Current(facts) : g.day = d /\ g.product = x
                                      /\ ~(\E r \in new : r.day = d /\ r.product = x)}
              \cup {In(r) : r \in {s \in new : s.day = d /\ s.product = x}}
      <4>1. \A r \in new : In(r).day = r.day /\ In(r).product = r.product
        OBVIOUS
      <4> HIDE DEF In
      <4> QED BY <1>7, <4>1
    <3>2. \A r : In(r).units = r.units /\ In(r).free = r.free /\ In(r).paid = r.paid
      OBVIOUS
    <3> HIDE DEF In
    <3> QED BY <3>1, <3>2 DEF UnitsOf
  <2>2. CASE \A r \in Classified(p) : ~(r.day = d /\ r.product = x)
    <3>1. \A r \in new : ~(r.day = d /\ r.product = x)
      BY <2>2
    <3>2. UnitsOf(Classified(p), d, x) = {}
      BY <2>2 DEF UnitsOf
    <3> HIDE DEF new
    <3>3. {s \in new : s.day = d /\ s.product = x} = {}
      BY <3>1
    <3>4. {g \in Current(facts) : g.day = d /\ g.product = x
                                  /\ ~(\E r \in new : r.day = d /\ r.product = x)}
            = {g \in Current(facts) : g.day = d /\ g.product = x}
      BY <3>1
    <3>5. UnitsOf(Current(WriteFacts(p, run)), d, x) = UnitsOf(Current(facts), d, x)
      BY <2>1, <3>3, <3>4 DEF UnitsOf
    <3> QED BY <3>2, <3>5 DEF Latest
  <2>3. ASSUME NEW r \in Classified(p), r.day = d, r.product = x
        PROVE  UnitsOf(Current(WriteFacts(p, run)), d, x)
                  = Latest(UnitsOf(Classified(p), d, x), UnitsOf(Current(facts), d, x))
    <3>1. \A s \in Classified(p) : s.day = d /\ s.product = x => s = r
      BY <2>3, ClassifiedRows
    <3>2. UnitsOf(Classified(p), d, x) = {<<r.units, r.free, r.paid>>}
      BY <2>3, <3>1 DEF UnitsOf
    <3>3. CASE r \in new
      <4>1. \A s \in new : s.day = d /\ s.product = x <=> s = r
        BY <2>3, <3>1
      <4> HIDE DEF new
      <4>2. {s \in new : s.day = d /\ s.product = x} = {r}
        BY <2>3, <3>3, <4>1
      <4>3. {g \in Current(facts) : g.day = d /\ g.product = x
                                    /\ ~(\E s \in new : s.day = d /\ s.product = x)} = {}
        BY <2>3, <3>3
      <4>4. UnitsOf(Current(WriteFacts(p, run)), d, x) = {<<r.units, r.free, r.paid>>}
        BY <2>1, <4>2, <4>3
      <4> QED BY <3>2, <4>4 DEF Latest
    <3>4. CASE r \notin new
      <4>1. PICK f \in Current(facts) : Cell(f, r) /\ ~FactDiffers(f, r)
        BY <3>4
      <4>2. UnitsOf(Current(facts), d, x) = {<<r.units, r.free, r.paid>>}
        <5>1. <<f.units, f.free, f.paid>> \in UnitsOf(Current(facts), d, x)
          BY <2>3, <4>1 DEF UnitsOf
        <5>2. <<f.units, f.free, f.paid>> = <<r.units, r.free, r.paid>>
          BY <4>1 DEF FactDiffers
        <5> QED BY <5>1, <5>2 DEF OneWord
      <4>3. \A s \in new : ~(s.day = d /\ s.product = x)
        BY <3>1, <3>4
      <4>4. UnitsOf(Current(WriteFacts(p, run)), d, x) = UnitsOf(Current(facts), d, x)
        <5> HIDE DEF new
        <5> QED BY <2>1, <4>3 DEF UnitsOf
      <4> QED BY <3>2, <4>2, <4>4 DEF Latest
    <3> QED BY <3>3, <3>4
  <2> QED BY <2>2, <2>3
<1> QED BY <1>4, <1>8

LEMMA CountedRows ==
  ASSUME NEW p \in Package, p.split => OrdersAreValid(p)
  PROVE  /\ CountedOrders(p) \subseteq [day : Nat, type : Types \cup {"all"}, count : Nat]
         /\ \A r, s \in CountedOrders(p) : r.day = s.day /\ r.type = s.type => r = s
<1>1. p.orders \subseteq [day : Nat, type : Types \cup {"all"}, count : Nat]
  BY DEF Package
<1>2. CASE p.split
  <2>1. \A r, s \in p.orders : <<r.day, r.type>> = <<s.day, s.type>> => r = s
    BY <1>2 DEF OrdersAreValid, Unique
  <2> QED BY <1>1, <1>2, <2>1 DEF CountedOrders
<1>3. CASE ~p.split
  BY <1>3 DEF CountedOrders
<1> QED BY <1>2, <1>3

LEMMA OrdersTakeTheWord ==
  ASSUME NEW p \in Package, p.split => OrdersAreValid(p), NEW run \in Nat,
         summaries \subseteq CountRow,
         \A d \in Nat, t \in Types \cup {"all"} : OneWord(OrdersOf(Current(summaries), d, t))
  PROVE  /\ WriteSummaries(p, run) \subseteq CountRow
         /\ \A d \in Nat, t \in Types \cup {"all"} :
               OrdersOf(Current(WriteSummaries(p, run)), d, t)
                  = Latest(OrdersOf(CountedOrders(p), d, t), OrdersOf(Current(summaries), d, t))
<1> DEFINE Cell(s, r) == s.day = r.day /\ s.type = r.type
           Changed(r) == \A s \in Current(summaries) : Cell(s, r) => s.count # r.count
           new        == {r \in CountedOrders(p) : Changed(r)}
           Out(s)     == IF s.current /\ \E r \in new : Cell(s, r) THEN [s EXCEPT !.current = FALSE]
                         ELSE s
           In(r)      == [day |-> r.day, type |-> r.type, count |-> r.count, run |-> run,
                          current |-> TRUE]
<1> USE DEF CountRow
<1>1. WriteSummaries(p, run) = {Out(s) : s \in summaries} \cup {In(r) : r \in new}
  BY Zenon DEF WriteSummaries
<1>2. \A s \in summaries : Out(s) \in CountRow
  OBVIOUS
<1>3. \A r \in new : In(r) \in CountRow
  <2>1. \A r \in new : r \in CountedOrders(p)
    OBVIOUS
  <2> HIDE DEF new
  <2> QED BY <2>1, CountedRows
<1> HIDE DEF CountRow
<1>4. WriteSummaries(p, run) \subseteq CountRow
  BY <1>1, <1>2, <1>3
<1>5. \A s \in summaries : Out(s).current <=> s.current /\ ~(\E r \in new : Cell(s, r))
  BY DEF CountRow
<1>6. \A s \in summaries : Out(s).current => Out(s) = s
  BY <1>5
<1>7. Current(WriteSummaries(p, run))
        = {s \in Current(summaries) : ~(\E r \in new : Cell(s, r))} \cup {In(r) : r \in new}
  <2> DEFINE Kept(s) == ~(\E r \in new : Cell(s, r))
  <2>1. \A r \in new : In(r).current
    OBVIOUS
  <2>2. \A s \in summaries : Out(s).current <=> s.current /\ Kept(s)
    BY <1>5
  <2> HIDE DEF new, Out, In, Kept
  <2>3. Current(WriteSummaries(p, run))
          = {s \in Current(summaries) : Kept(s)} \cup {In(r) : r \in new}
    BY <1>1, <1>6, <2>1, <2>2 DEF Current
  <2> QED BY <2>3 DEF Kept
<1>8. ASSUME NEW d \in Nat, NEW t \in Types \cup {"all"}
      PROVE  OrdersOf(Current(WriteSummaries(p, run)), d, t)
                = Latest(OrdersOf(CountedOrders(p), d, t), OrdersOf(Current(summaries), d, t))
  <2>1. OrdersOf(Current(WriteSummaries(p, run)), d, t)
          = {s.count : s \in {u \in Current(summaries) :
                                u.day = d /\ u.type = t /\ ~(\E r \in new : r.day = d /\ r.type = t)}}
            \cup {r.count : r \in {s \in new : s.day = d /\ s.type = t}}
    <3> HIDE DEF new
    <3>1. {u \in Current(WriteSummaries(p, run)) : u.day = d /\ u.type = t}
            = {u \in Current(summaries) :
                  u.day = d /\ u.type = t /\ ~(\E r \in new : r.day = d /\ r.type = t)}
              \cup {In(r) : r \in {s \in new : s.day = d /\ s.type = t}}
      <4>1. \A r \in new : In(r).day = r.day /\ In(r).type = r.type
        OBVIOUS
      <4> HIDE DEF In
      <4> QED BY <1>7, <4>1
    <3>2. \A r : In(r).count = r.count
      OBVIOUS
    <3> HIDE DEF In
    <3> QED BY <3>1, <3>2 DEF OrdersOf
  <2>2. CASE \A r \in CountedOrders(p) : ~(r.day = d /\ r.type = t)
    <3>1. \A r \in new : ~(r.day = d /\ r.type = t)
      BY <2>2
    <3>2. OrdersOf(CountedOrders(p), d, t) = {}
      BY <2>2 DEF OrdersOf
    <3> HIDE DEF new
    <3>3. {s \in new : s.day = d /\ s.type = t} = {}
      BY <3>1
    <3>4. {u \in Current(summaries) :
              u.day = d /\ u.type = t /\ ~(\E r \in new : r.day = d /\ r.type = t)}
            = {u \in Current(summaries) : u.day = d /\ u.type = t}
      BY <3>1
    <3>5. OrdersOf(Current(WriteSummaries(p, run)), d, t) = OrdersOf(Current(summaries), d, t)
      BY <2>1, <3>3, <3>4 DEF OrdersOf
    <3> QED BY <3>2, <3>5 DEF Latest
  <2>3. ASSUME NEW r \in CountedOrders(p), r.day = d, r.type = t
        PROVE  OrdersOf(Current(WriteSummaries(p, run)), d, t)
                  = Latest(OrdersOf(CountedOrders(p), d, t), OrdersOf(Current(summaries), d, t))
    <3>1. \A s \in CountedOrders(p) : s.day = d /\ s.type = t => s = r
      BY <2>3, CountedRows
    <3>2. OrdersOf(CountedOrders(p), d, t) = {r.count}
      BY <2>3, <3>1 DEF OrdersOf
    <3>3. CASE r \in new
      <4>1. \A s \in new : s.day = d /\ s.type = t <=> s = r
        BY <2>3, <3>1
      <4> HIDE DEF new
      <4>2. {s \in new : s.day = d /\ s.type = t} = {r}
        BY <2>3, <3>3, <4>1
      <4>3. {u \in Current(summaries) :
                u.day = d /\ u.type = t /\ ~(\E s \in new : s.day = d /\ s.type = t)} = {}
        BY <2>3, <3>3
      <4>4. OrdersOf(Current(WriteSummaries(p, run)), d, t) = {r.count}
        BY <2>1, <4>2, <4>3
      <4> QED BY <3>2, <4>4 DEF Latest
    <3>4. CASE r \notin new
      <4>1. PICK s \in Current(summaries) : Cell(s, r) /\ s.count = r.count
        BY <3>4
      <4>2. OrdersOf(Current(summaries), d, t) = {r.count}
        <5>1. r.count \in OrdersOf(Current(summaries), d, t)
          BY <2>3, <4>1 DEF OrdersOf
        <5> QED BY <5>1 DEF OneWord
      <4>3. \A u \in new : ~(u.day = d /\ u.type = t)
        BY <3>1, <3>4
      <4>4. OrdersOf(Current(WriteSummaries(p, run)), d, t) = OrdersOf(Current(summaries), d, t)
        <5> HIDE DEF new
        <5> QED BY <2>1, <4>3 DEF OrdersOf
      <4> QED BY <3>2, <4>2, <4>4 DEF Latest
    <3> QED BY <3>3, <3>4
  <2> QED BY <2>2, <2>3
<1> QED BY <1>4, <1>8

LEMMA PathRows ==
  ASSUME NEW p \in Package, PathsAreValid(p)
  PROVE  /\ p.paths \subseteq [product : Products, path : STRING, on : Nat]
         /\ \A r, s \in p.paths : r.product = s.product => r = s
BY DEF Package, PathsAreValid, Unique

\* The constraint of one current page per product is what makes an address that
\* was there before the only one.
LEMMA PagesTakeTheWord ==
  ASSUME NEW p \in Package, PathsAreValid(p), pages \subseteq PageRow,
         OnePagePerRole(WritePaths(p))
  PROVE  /\ WritePaths(p) \subseteq PageRow
         /\ \A x \in Products :
               AddressOf(Current(WritePaths(p)), x)
                  = Latest(AddressOf(p.paths, x), AddressOf(Current(pages), x))
<1> DEFINE Known(r)   == \E g \in pages : g.product = r.product /\ g.path = r.path
           new        == {r \in p.paths : ~Known(r)}
           Retired(g) == g.current /\ \E r \in new : r.product = g.product
           Seen(g)    == {r \in p.paths : r.product = g.product /\ r.path = g.path}
           Out(g)     == IF Seen(g) # {}
                         THEN [g EXCEPT !.current = TRUE, !.last = Max({@} \cup {r.on : r \in Seen(g)})]
                         ELSE IF Retired(g) THEN [g EXCEPT !.current = FALSE] ELSE g
           In(r)      == [product |-> r.product, path |-> r.path, last |-> r.on, current |-> TRUE]
<1>1. WritePaths(p) = {Out(g) : g \in pages} \cup {In(r) : r \in new}
  BY Zenon DEF WritePaths
<1>2. ASSUME NEW g \in pages
      PROVE  /\ Out(g) \in PageRow
             /\ Out(g).product = g.product /\ Out(g).path = g.path
             /\ Out(g).current <=> Seen(g) # {} \/ (g.current /\ ~\E r \in new : r.product = g.product)
  <2>1. CASE Seen(g) = {}
    <3> HIDE DEF Seen, new
    <3> QED BY <2>1 DEF PageRow
  <2>2. ASSUME NEW s \in Seen(g)
        PROVE  /\ Out(g) \in PageRow
               /\ Out(g).product = g.product /\ Out(g).path = g.path /\ Out(g).current
    <3>1. Seen(g) = {s} /\ s.on \in Nat
      BY <2>2, PathRows
    <3> DEFINE m == Max({g.last} \cup {r.on : r \in Seen(g)})
    <3>2. {g.last} \cup {r.on : r \in Seen(g)} = {g.last, s.on} /\ g.last \in Nat
      BY <3>1 DEF PageRow
    <3>3. m \in Nat
      <4>1. \E x \in {g.last, s.on} : \A y \in {g.last, s.on} : x >= y
        BY <3>1, <3>2
      <4>2. Max({g.last, s.on}) \in {g.last, s.on}
        BY <4>1 DEF Max
      <4> QED BY <3>1, <3>2, <4>2
    <3> HIDE DEF m
    <3>4. Out(g) = [g EXCEPT !.current = TRUE, !.last = m]
      BY <2>2, Zenon DEF m
    <3> HIDE DEF Out
    <3> QED BY <3>3, <3>4 DEF PageRow
  <2> HIDE DEF Out
  <2> QED BY <2>1, <2>2
<1>3. \A r \in new : In(r) \in PageRow /\ r \in p.paths
  BY PathRows DEF PageRow
<1>4. \A r : In(r).current /\ In(r).product = r.product /\ In(r).path = r.path
  OBVIOUS
<1>5. WritePaths(p) \subseteq PageRow
  <2> HIDE DEF Out, In, new
  <2> QED BY <1>1, <1>2, <1>3
<1>6. ASSUME NEW x \in Products
      PROVE  AddressOf(Current(WritePaths(p)), x)
                = Latest(AddressOf(p.paths, x), AddressOf(Current(pages), x))
  <2>1. CASE \A r \in p.paths : r.product # x
    <3>1. \A g \in pages : g.product = x => (Out(g).current <=> g.current)
      BY <1>2, <2>1
    <3>2. \A r \in new : r.product # x
      BY <2>1
    <3>3. AddressOf(p.paths, x) = {}
      BY <2>1 DEF AddressOf
    <3>4. AddressOf(Current(WritePaths(p)), x) = AddressOf(Current(pages), x)
      <4> HIDE DEF Out, In, new
      <4>1. AddressOf(Current(WritePaths(p)), x) \subseteq AddressOf(Current(pages), x)
        BY <1>1, <1>2, <1>4, <3>1, <3>2 DEF AddressOf, Current
      <4>2. AddressOf(Current(pages), x) \subseteq AddressOf(Current(WritePaths(p)), x)
        BY <1>1, <1>2, <3>1 DEF AddressOf, Current
      <4> QED BY <4>1, <4>2
    <3> QED BY <3>3, <3>4 DEF Latest
  <2>2. ASSUME NEW r \in p.paths, r.product = x
        PROVE  AddressOf(Current(WritePaths(p)), x)
                  = Latest(AddressOf(p.paths, x), AddressOf(Current(pages), x))
    <3>1. AddressOf(p.paths, x) = {r.path}
      BY <2>2, PathRows DEF AddressOf
    <3>2. PICK h \in Current(WritePaths(p)) : h.product = x /\ h.path = r.path
      <4>1. CASE r \in new
        <5>1. In(r) \in WritePaths(p)
          BY <1>1, <4>1
        <5> HIDE DEF In
        <5> QED BY <1>4, <2>2, <5>1 DEF Current
      <4>2. CASE r \notin new
        <5>1. PICK g \in pages : g.product = r.product /\ g.path = r.path
          BY <4>2
        <5>2. r \in Seen(g)
          BY <5>1
        <5> HIDE DEF Out, Seen
        <5>3. Out(g) \in WritePaths(p) /\ Out(g).current
          BY <1>1, <1>2, <5>2
        <5> QED BY <1>2, <2>2, <5>1, <5>3 DEF Current
      <4> QED BY <4>1, <4>2
    <3>3. \A g \in Current(WritePaths(p)) : g.product = x => g = h
      BY <3>2 DEF OnePagePerRole
    <3>4. AddressOf(Current(WritePaths(p)), x) = {r.path}
      BY <3>2, <3>3 DEF AddressOf
    <3> QED BY <3>1, <3>4 DEF Latest
  <2> QED BY <2>1, <2>2
<1> QED BY <1>5, <1>6

-----------------------------------------------------------------------------
\* Every row is a row the import writes, and a published package was read.
RowsAreTyped ==
    /\ facts \subseteq FactRow /\ pages \subseteq PageRow /\ summaries \subseteq CountRow
    /\ source.as_of \in Nat /\ attempts \in Nat
    /\ history \in Seq({p \in Archives : ReadPackage(p)})

\* What the packages published so far said of a cell, one after the other.
SaidOfUnits(d, x) == [i \in DOMAIN history |-> UnitsOf(Classified(history[i]), d, x)]
SaidOfAddress(x) == [i \in DOMAIN history |-> AddressOf(history[i].paths, x)]
SaidOfOrders(d, t) == [i \in DOMAIN history |-> OrdersOf(CountedOrders(history[i]), d, t)]

\* The last word of every cell stands, inside the days the source covers or not.
WordsStand ==
    /\ \A d \in Nat, x \in Products : UnitsOf(Current(facts), d, x) = LastTold(SaidOfUnits(d, x))
    /\ \A x \in Products : AddressOf(Current(pages), x) = LastTold(SaidOfAddress(x))
    /\ \A d \in Nat, t \in Types \cup {"all"} :
          OrdersOf(Current(summaries), d, t) = LastTold(SaidOfOrders(d, t))

ShopInv == RowsAreTyped /\ WordsStand

\* A package says one thing of a cell, so the current rows do.
LEMMA RowsSayOneThing ==
  ASSUME ShopInv
  PROVE  /\ \A d \in Nat, x \in Products : OneWord(UnitsOf(Current(facts), d, x))
         /\ \A d \in Nat, t \in Types \cup {"all"} : OneWord(OrdersOf(Current(summaries), d, t))
<1>1. Len(history) \in Nat /\ DOMAIN history = 1..Len(history)
  BY DEF ShopInv, RowsAreTyped
<1>2. ASSUME NEW i \in 1..Len(history)
      PROVE  /\ history[i] \in Package /\ FactsAreValid(history[i])
             /\ history[i].split => OrdersAreValid(history[i])
  BY <1>1, ShopAssumption DEF ShopInv, RowsAreTyped, ReadPackage
<1>3. ASSUME NEW d \in Nat, NEW x \in Products
      PROVE  OneWord(UnitsOf(Current(facts), d, x))
  <2>1. ASSUME NEW i \in 1..Len(history)
        PROVE  OneWord(SaidOfUnits(d, x)[i])
    <3>1. \A r, s \in Classified(history[i]) : r.day = s.day /\ r.product = s.product => r = s
      BY <1>2, ClassifiedRows
    <3> QED BY <1>1, <3>1 DEF OneWord, SaidOfUnits, UnitsOf
  <2>2. DOMAIN SaidOfUnits(d, x) = 1..Len(history)
    BY <1>1 DEF SaidOfUnits
  <2>3. OneWord(LastTold(SaidOfUnits(d, x)))
    BY <1>1, <2>1, <2>2, LastWordIsSaid DEF OneWord
  <2> QED BY <2>3 DEF ShopInv, WordsStand
<1>4. ASSUME NEW d \in Nat, NEW t \in Types \cup {"all"}
      PROVE  OneWord(OrdersOf(Current(summaries), d, t))
  <2>1. ASSUME NEW i \in 1..Len(history)
        PROVE  OneWord(SaidOfOrders(d, t)[i])
    <3>1. \A r, s \in CountedOrders(history[i]) : r.day = s.day /\ r.type = s.type => r = s
      BY <1>2, CountedRows
    <3> QED BY <1>1, <3>1 DEF OneWord, SaidOfOrders, OrdersOf
  <2>2. DOMAIN SaidOfOrders(d, t) = 1..Len(history)
    BY <1>1 DEF SaidOfOrders
  <2>3. OneWord(LastTold(SaidOfOrders(d, t)))
    BY <1>1, <2>1, <2>2, LastWordIsSaid DEF OneWord
  <2> QED BY <2>3 DEF ShopInv, WordsStand
<1> QED BY <1>3, <1>4

LEMMA ShopStarts == ShopInit => ShopInv
<1> SUFFICES ASSUME ShopInit PROVE ShopInv
  OBVIOUS
<1>1. RowsAreTyped
  BY ShopAssumption DEF ShopInit, RowsAreTyped, NoSource
<1>2. \A f : DOMAIN f = {} => LastTold(f) = {}
  BY DEF LastTold
<1>3. WordsStand
  <2>1. \A d, x : LastTold(SaidOfUnits(d, x)) = {}
    BY <1>2 DEF ShopInit, SaidOfUnits
  <2>2. \A x : LastTold(SaidOfAddress(x)) = {}
    BY <1>2 DEF ShopInit, SaidOfAddress
  <2>3. \A d, t : LastTold(SaidOfOrders(d, t)) = {}
    BY <1>2 DEF ShopInit, SaidOfOrders
  <2> QED BY <2>1, <2>2, <2>3 DEF ShopInit, WordsStand, UnitsOf, AddressOf, OrdersOf, Current
<1> QED BY <1>1, <1>3 DEF ShopInv

LEMMA PublishKeeps ==
  ASSUME ShopInv, NEW p \in Archives, Publish(p)
  PROVE  ShopInv'
<1>1. p \in Package /\ FactsAreValid(p) /\ PathsAreValid(p) /\ (p.split => OrdersAreValid(p))
  BY ShopAssumption DEF Publish, ReadPackage
<1>2. attempts' \in Nat
  BY DEF ShopInv, RowsAreTyped, Publish, Attempt
<1>3. /\ Len(history) \in Nat /\ DOMAIN history = 1..Len(history)
      /\ DOMAIN history' = 1..(Len(history) + 1)
      /\ history'[Len(history) + 1] = p
      /\ \A i \in 1..Len(history) : history'[i] = history[i]
  BY DEF ShopInv, RowsAreTyped, Publish
<1>4. facts \subseteq FactRow /\ pages \subseteq PageRow /\ summaries \subseteq CountRow
  BY DEF ShopInv, RowsAreTyped
<1>5. /\ facts' \subseteq FactRow
      /\ \A d \in Nat, x \in Products :
            UnitsOf(Current(facts'), d, x)
               = Latest(UnitsOf(Classified(p), d, x), UnitsOf(Current(facts), d, x))
  BY <1>1, <1>2, <1>4, FactsTakeTheWord, RowsSayOneThing DEF Publish
<1>6. /\ summaries' \subseteq CountRow
      /\ \A d \in Nat, t \in Types \cup {"all"} :
            OrdersOf(Current(summaries'), d, t)
               = Latest(OrdersOf(CountedOrders(p), d, t), OrdersOf(Current(summaries), d, t))
  BY <1>1, <1>2, <1>4, OrdersTakeTheWord, RowsSayOneThing DEF Publish
<1>7. /\ pages' \subseteq PageRow
      /\ \A x \in Products :
            AddressOf(Current(pages'), x) = Latest(AddressOf(p.paths, x), AddressOf(Current(pages), x))
  BY <1>1, <1>4, PagesTakeTheWord DEF Publish
<1>8. RowsAreTyped'
  <2>1. history' \in Seq({q \in Archives : ReadPackage(q)})
    <3>1. p \in {q \in Archives : ReadPackage(q)}
      BY DEF Publish
    <3> DEFINE R == {q \in Archives : ReadPackage(q)}
    <3>2. history \in Seq(R) /\ p \in R
      BY <3>1 DEF ShopInv, RowsAreTyped
    <3> HIDE DEF R
    <3>3. Append(history, p) \in Seq(R)
      BY <3>2
    <3> QED BY <3>3 DEF R, Publish
  <2>2. source'.as_of \in Nat
    BY <1>1 DEF Publish, Package
  <2> QED BY <1>2, <1>5, <1>6, <1>7, <2>1, <2>2 DEF RowsAreTyped
<1>9. WordsStand'
  <2>1. ASSUME NEW d \in Nat, NEW x \in Products
        PROVE  UnitsOf(Current(facts'), d, x) = LastTold(SaidOfUnits(d, x)')
    <3>1. LastTold(SaidOfUnits(d, x)') = Latest(UnitsOf(Classified(p), d, x), LastTold(SaidOfUnits(d, x)))
      <4>1. /\ DOMAIN SaidOfUnits(d, x) = 1..Len(history)
            /\ DOMAIN SaidOfUnits(d, x)' = 1..(Len(history) + 1)
            /\ SaidOfUnits(d, x)'[Len(history) + 1] = UnitsOf(Classified(p), d, x)
            /\ \A i \in 1..Len(history) : SaidOfUnits(d, x)'[i] = SaidOfUnits(d, x)[i]
        BY <1>3 DEF SaidOfUnits
      <4> QED BY <1>3, <4>1, LastWord
    <3> QED BY <1>5, <3>1 DEF ShopInv, WordsStand
  <2>2. ASSUME NEW x \in Products
        PROVE  AddressOf(Current(pages'), x) = LastTold(SaidOfAddress(x)')
    <3>1. LastTold(SaidOfAddress(x)') = Latest(AddressOf(p.paths, x), LastTold(SaidOfAddress(x)))
      <4>1. /\ DOMAIN SaidOfAddress(x) = 1..Len(history)
            /\ DOMAIN SaidOfAddress(x)' = 1..(Len(history) + 1)
            /\ SaidOfAddress(x)'[Len(history) + 1] = AddressOf(p.paths, x)
            /\ \A i \in 1..Len(history) : SaidOfAddress(x)'[i] = SaidOfAddress(x)[i]
        BY <1>3 DEF SaidOfAddress
      <4> QED BY <1>3, <4>1, LastWord
    <3> QED BY <1>7, <3>1 DEF ShopInv, WordsStand
  <2>3. ASSUME NEW d \in Nat, NEW t \in Types \cup {"all"}
        PROVE  OrdersOf(Current(summaries'), d, t) = LastTold(SaidOfOrders(d, t)')
    <3>1. LastTold(SaidOfOrders(d, t)') = Latest(OrdersOf(CountedOrders(p), d, t), LastTold(SaidOfOrders(d, t)))
      <4>1. /\ DOMAIN SaidOfOrders(d, t) = 1..Len(history)
            /\ DOMAIN SaidOfOrders(d, t)' = 1..(Len(history) + 1)
            /\ SaidOfOrders(d, t)'[Len(history) + 1] = OrdersOf(CountedOrders(p), d, t)
            /\ \A i \in 1..Len(history) : SaidOfOrders(d, t)'[i] = SaidOfOrders(d, t)[i]
        BY <1>3 DEF SaidOfOrders
      <4> QED BY <1>3, <4>1, LastWord
    <3> QED BY <1>6, <3>1 DEF ShopInv, WordsStand
  <2> QED BY <2>1, <2>2, <2>3 DEF WordsStand, UnitsOf, AddressOf, OrdersOf, Current, LastTold
<1> QED BY <1>8, <1>9 DEF ShopInv

\* An attempt that is refused, dry, unchanged or ended on a constraint counts and
\* writes nothing.
LEMMA NothingWrittenKeeps ==
  ASSUME ShopInv, UNCHANGED <<tables, history>>, attempts' \in Nat
  PROVE  ShopInv'
<1>1. RowsAreTyped'
  BY DEF ShopInv, RowsAreTyped, tables
<1>2. WordsStand'
  <2>1. facts' = facts /\ pages' = pages /\ summaries' = summaries /\ history' = history
    BY DEF tables
  <2>2. \A d, x : SaidOfUnits(d, x)' = SaidOfUnits(d, x)
    BY <2>1, Zenon DEF SaidOfUnits
  <2>3. \A x : SaidOfAddress(x)' = SaidOfAddress(x)
    BY <2>1, Zenon DEF SaidOfAddress
  <2>4. \A d, t : SaidOfOrders(d, t)' = SaidOfOrders(d, t)
    BY <2>1, Zenon DEF SaidOfOrders
  <2>5. /\ \A d \in Nat, x \in Products :
              UnitsOf(Current(facts'), d, x) = LastTold(SaidOfUnits(d, x)')
        /\ \A x \in Products : AddressOf(Current(pages'), x) = LastTold(SaidOfAddress(x)')
        /\ \A d \in Nat, t \in Types \cup {"all"} :
              OrdersOf(Current(summaries'), d, t) = LastTold(SaidOfOrders(d, t)')
    BY <2>1, <2>2, <2>3, <2>4 DEF ShopInv, WordsStand
  <2> QED BY <2>5 DEF WordsStand, UnitsOf, AddressOf, OrdersOf, Current, LastTold
<1> QED BY <1>1, <1>2 DEF ShopInv

\* However the packages overlap and in whatever order they are imported, what the
\* current rows say of a cell of _write_facts and _write_summaries, and of the
\* address of a product in _write_paths, is what the last published package that
\* named it said.
THEOREM LastWordAlwaysStands == ShopSpec => []LastWordStands
<1>1. ShopInit => ShopInv
  BY ShopStarts
<1>2. ShopInv /\ [ShopNext]_shopVars => ShopInv'
  <2> SUFFICES ASSUME ShopInv, [ShopNext]_shopVars PROVE ShopInv'
    OBVIOUS
  <2>1. ASSUME NEW p \in Archives, Publish(p) PROVE ShopInv'
    BY <2>1, PublishKeeps
  <2>2. ASSUME NEW p \in Archives, Refuse(p) \/ DryRun(p) \/ Unchanged(p) \/ Fail(p)
        PROVE  ShopInv'
    <3>1. UNCHANGED <<tables, history>> /\ attempts' \in Nat
      BY <2>2 DEF Refuse, DryRun, Unchanged, Fail, Attempt, ShopInv, RowsAreTyped
    <3> QED BY <3>1, NothingWrittenKeeps
  <2>3. CASE UNCHANGED shopVars
    <3>1. UNCHANGED <<tables, history>> /\ attempts' \in Nat
      BY <2>3 DEF shopVars, ShopInv, RowsAreTyped
    <3> QED BY <3>1, NothingWrittenKeeps
  <2> QED BY <2>1, <2>2, <2>3 DEF ShopNext
<1>3. ShopInv => LastWordStands
  <2> SUFFICES ASSUME ShopInv PROVE LastWordStands
    OBVIOUS
  <2>1. \A d \in 1..source.as_of : d \in Nat
    BY DEF ShopInv, RowsAreTyped
  <2> QED BY <2>1 DEF ShopInv, WordsStand, LastWordStands, SaidOfUnits, SaidOfAddress, SaidOfOrders
<1> QED BY <1>1, <1>2, <1>3, PTL DEF ShopSpec
=============================================================================
