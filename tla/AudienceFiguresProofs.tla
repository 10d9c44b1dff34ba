------------------------ MODULE AudienceFiguresProofs ------------------------
(***************************************************************************)
(* Proofs about AudienceFigures, for any number of sessions, submissions,  *)
(* metrics, newsletters and readings.                                      *)
(*                                                                         *)
(* Everything rests on what a transaction knows of a slot (a metric and a  *)
(* date) between its lock and its commit: the row it holds is still the    *)
(* current one, because whoever replaces a row has locked it first, and a  *)
(* slot it has written stays as it found it, because the unique index      *)
(* makes everyone else wait.                                               *)
(***************************************************************************)
EXTENDS AudienceFigures, WellFoundedInduction, TLAPS

-----------------------------------------------------------------------------
(* The inductive invariant: the table. *)

\* A key and a metric make a row; keys in the table are spent; a correction
\* names a row of its slot; and every slot that was ever filled shows one figure.
TableIsSound ==
    /\ \A r \in figures : r.key < nextKey
    /\ \A r1, r2 \in figures : r1.key = r2.key /\ r1.metric = r2.metric => r1 = r2
    /\ \A r \in figures : r.supersedes # NoRow
          => \E q \in figures : q.metric = r.metric /\ q.date = r.date /\ q.key = r.supersedes
    /\ \A r \in figures : \E q \in figures : q.metric = r.metric /\ q.date = r.date /\ q.current
    /\ \A r1, r2 \in figures :
          r1.metric = r2.metric /\ r1.date = r2.date /\ r1.current /\ r2.current => r1 = r2

\* CurrentKey, of any table.
KeyOf(F, m, d) ==
    IF CurrentRows(F, m, d) = {} THEN NoRow ELSE (CHOOSE r \in CurrentRows(F, m, d) : TRUE).key

\* The rows of a key are a submission.
CarriedBy(F, k, id) ==
    /\ \A r \in F : r.key = k =>
          r.metric \in DOMAIN id[2] /\ r.date = id[1] /\ r.value = id[2][r.metric]
    /\ \A m \in DOMAIN id[2] : \E r \in F : r.key = k /\ r.metric = m

\* Every typed key carries a submission that was recorded.
RowsAreRecorded ==
    /\ submitted \subseteq {ContentIdentity(sub) : sub \in Submissions}
    /\ \A r \in figures : r.metric \in SocialMetric =>
          \E id \in submitted : CarriedBy(figures, r.key, id)

-----------------------------------------------------------------------------
(* ... and the transactions: x is a session, F the table, n the next key and *)
(* D the identities recorded.                                              *)

Holds(x) == x.pc \in {"look", "lock", "insert"}
MetricOf(x) == Social[x.at]
Identity(x) == ContentIdentity(x.submission)

Asked(x) ==
    x.pc # "idle" =>
        /\ x.submission \in Submissions
        /\ Supplied(x.submission) # {}
        /\ x.submission.date \in Day

\* A transaction has a key and an identity that no row has yet, and is at a
\* figure it was given.
KeyIsOwn(x, F, n, D) ==
    Holds(x) =>
        /\ x.key \in 1..(n - 1)
        /\ \A r \in F : r.key # x.key
        /\ x.at \in DOMAIN Social
        /\ MetricOf(x) \in Supplied(x.submission)
        /\ Identity(x) \notin D

NothingHeld(x) == ~Holds(x) => x.mine = {} /\ x.locked = {}

\* What it has written is its submission, up to the figure it is at.
WrittenSoFar(x) ==
    Holds(x) =>
        /\ \A r \in x.mine :
              /\ r.key = x.key /\ r.date = x.submission.date /\ r.current
              /\ r.metric \in Supplied(x.submission)
              /\ r.value = x.submission.values[r.metric]
        /\ \A i \in DOMAIN Social : Social[i] \in Supplied(x.submission) =>
              (i < x.at <=> \E r \in x.mine : r.metric = Social[i])
        /\ \A r1, r2 \in x.mine : r1.metric = r2.metric => r1 = r2

\* Its locks are those of the figures it has been at.
LocksInOrder(x) ==
    \A l \in x.locked : \E i \in DOMAIN Social :
        /\ l[1] = Social[i]
        /\ i < x.at \/ (i = x.at /\ x.pc = "insert")

\* The slots it has written are as it found them, and a row it holds is current.
SlotsStand(x, F) ==
    /\ \A r \in x.mine :
          /\ r.supersedes = KeyOf(F, r.metric, r.date)
          /\ r.supersedes # NoRow => <<r.metric, r.supersedes>> \in x.locked
    /\ x.pc = "insert" /\ x.previous # NoRow =>
          /\ x.previous = KeyOf(F, MetricOf(x), x.submission.date)
          /\ <<MetricOf(x), x.previous>> \in x.locked

OneSession(x, F, n, D) ==
    /\ Asked(x) /\ KeyIsOwn(x, F, n, D) /\ NothingHeld(x) /\ WrittenSoFar(x)
    /\ LocksInOrder(x) /\ SlotsStand(x, F)

\* Two transactions share neither key, identity, lock nor slot.
Apart(x, y) ==
    /\ Holds(x) /\ Holds(y) => x.key # y.key /\ Identity(x) # Identity(y)
    /\ x.locked \cap y.locked = {}
    /\ \A r \in x.mine, q \in y.mine : ~(r.metric = q.metric /\ r.date = q.date)

Sessions ==
    /\ \A s \in Typists : OneSession(session[s], figures, nextKey, submitted)
    /\ \A s, t \in Typists : s # t => Apart(session[s], session[t])

Transactions ==
    /\ TableIsSound /\ RowsAreRecorded /\ Sessions
    /\ CorrectionsFormALine /\ SubmittedOnce /\ FiguresMatchReading

-----------------------------------------------------------------------------
(* Numbers and places. *)

LEMMA NatHasLeast ==
  ASSUME NEW S, S \subseteq Nat, S # {}
  PROVE  \E x \in S : \A y \in S : x <= y
<1> DEFINE R == {ss \in Nat \X Nat : ss[1] < ss[2]}
<1>1. IsWellFoundedOn(R, Nat)
  BY NatLessThanWellFounded, Zenon DEF OpToRel
<1>2. \E x \in S : \A y \in S : <<y, x>> \notin R
  BY <1>1, WFMin, Zenon
<1>3. PICK x \in S : \A y \in S : <<y, x>> \notin R
  BY <1>2
<1>4. ASSUME NEW y \in S
      PROVE  x <= y
  <2>1. SUFFICES ASSUME y < x
                 PROVE  FALSE
    OBVIOUS
  <2>2. <<y, x>> \in Nat \X Nat /\ <<y, x>>[1] < <<y, x>>[2]
    BY <2>1
  <2>3. <<y, x>> \in R
    BY <2>2, Zenon
  <2> QED
    BY <1>3, <2>3, Zenon
<1> QED
  BY <1>4

LEMMA Places ==
  /\ Len(Social) \in Nat /\ DOMAIN Social = 1..Len(Social)
  /\ \A i \in DOMAIN Social : Social[i] \in SocialMetric
  BY AudienceAssumption DEF SocialMetric

\* The walk through the registry: the next figure supplied, none skipped.
LEMMA NextFigureIs ==
  ASSUME NEW sub, NEW at \in 0..Len(Social)
  PROVE  LET n == NextFigure(sub, at)
         IN  /\ n \in 0..Len(Social)
             /\ n = 0 => \A i \in DOMAIN Social : i > at => Social[i] \notin Supplied(sub)
             /\ n # 0 => /\ n \in DOMAIN Social /\ n > at /\ Social[n] \in Supplied(sub)
                         /\ \A i \in DOMAIN Social : at < i /\ i < n => Social[i] \notin Supplied(sub)
<1> DEFINE later == {i \in DOMAIN Social : i > at /\ Social[i] \in Supplied(sub)}
<1>1. NextFigure(sub, at) = IF later = {} THEN 0 ELSE Min(later)
  BY DEF NextFigure
<1>2. later \subseteq 1..Len(Social)
  BY Places
<1>3. later # {} => Min(later) \in later /\ \A i \in later : Min(later) <= i
  <2> SUFFICES ASSUME later # {}
               PROVE  Min(later) \in later /\ \A i \in later : Min(later) <= i
    OBVIOUS
  <2>1. later \subseteq Nat
    BY <1>2, Places
  <2> HIDE DEF later
  <2>2. \E x \in later : \A y \in later : x <= y
    BY <2>1, NatHasLeast
  <2> QED
    BY <2>2 DEF Min
<1>4. CASE later = {}
  BY <1>1, <1>4, Places
<1>5. CASE later # {}
  <2>1. NextFigure(sub, at) \in later /\ \A i \in later : NextFigure(sub, at) <= i
    BY <1>1, <1>3, <1>5
  <2>2. NextFigure(sub, at) \in 1..Len(Social)
    BY <1>2, <2>1
  <2>3. \A i \in DOMAIN Social : at < i /\ i < NextFigure(sub, at) => i \notin later
    BY <2>1, <2>2, Places
  <2> QED
    BY <2>1, <2>2, <2>3, Places
<1> QED
  BY <1>4, <1>5

-----------------------------------------------------------------------------
(* The table. *)

LEMMA CurrentKeyIs ==
  ASSUME figures \subseteq Row, TableIsSound, NEW m, NEW d
  PROVE  /\ \A r \in figures : r.metric = m /\ r.date = d /\ r.current => CurrentKey(m, d) = r.key
         /\ CurrentKey(m, d) # NoRow =>
               \E r \in figures : r.metric = m /\ r.date = d /\ r.current /\ r.key = CurrentKey(m, d)
         /\ CurrentKey(m, d) \in 0..MaxRows
<1> DEFINE C == CurrentRows(figures, m, d)
<1>1. C = {r \in figures : r.metric = m /\ r.date = d /\ r.current}
  BY DEF CurrentRows
<1>2. CurrentKey(m, d) = IF C = {} THEN NoRow ELSE (CHOOSE r \in C : TRUE).key
  BY DEF CurrentKey
<1>3. \A r \in figures : r.key \in 1..MaxRows
  BY DEF Row
<1>4. C # {} => (CHOOSE r \in C : TRUE) \in C
  OBVIOUS
<1>5. \A r1, r2 \in C : r1 = r2
  BY <1>1 DEF TableIsSound
<1> HIDE DEF C
<1>6. \A r \in C : CurrentKey(m, d) = r.key
  BY <1>2, <1>4, <1>5
<1>7. CurrentKey(m, d) # NoRow => \E r \in C : r.key = CurrentKey(m, d)
  BY <1>2, <1>4
<1>8. CurrentKey(m, d) \in 0..MaxRows
  BY <1>1, <1>3, <1>6, <1>7, AudienceAssumption DEF NoRow
<1> QED
  BY <1>1, <1>6, <1>7, <1>8

\* A publication: rows of one new key, each the successor of its slot's current
\* row.
Published(new, k) ==
    /\ new \subseteq Row
    /\ \A n \in new : n.key = k /\ n.current /\ n.supersedes = CurrentKey(n.metric, n.date)
    /\ \A n1, n2 \in new : n1.metric = n2.metric => n1 = n2
    /\ \A r \in figures : r.key # k
    /\ figures' = PublishObservations(figures, new)

Filled(new, m, d) == \E n \in new : n.metric = m /\ n.date = d

\* What becomes of a row.
Kept(new, r) ==
    IF \E n \in new : n.metric = r.metric /\ n.supersedes = r.key
    THEN [r EXCEPT !.current = FALSE] ELSE r

LEMMA KeptIs ==
  ASSUME figures \subseteq Row, TableIsSound, NEW new, NEW k, Published(new, k), NEW r \in figures
  PROVE  /\ Kept(new, r) \in Row
         /\ Kept(new, r).key = r.key /\ Kept(new, r).metric = r.metric
         /\ Kept(new, r).date = r.date /\ Kept(new, r).value = r.value
         /\ Kept(new, r).supersedes = r.supersedes
         /\ Kept(new, r).current <=> r.current /\ ~Filled(new, r.metric, r.date)
         /\ ~Filled(new, r.metric, r.date) => Kept(new, r) = r
         /\ r.current => (Filled(new, r.metric, r.date)
                             <=> \E n \in new : n.metric = r.metric /\ n.date = r.date
                                                   /\ n.supersedes = r.key)
<1>1. r \in Row /\ r.key # NoRow
  BY DEF Row, NoRow
<1>2. ASSUME NEW n \in new, n.metric = r.metric, n.supersedes = r.key
      PROVE  r.current /\ n.date = r.date
  <2>1. n.supersedes = CurrentKey(n.metric, n.date)
    BY DEF Published
  <2>2. PICK q \in figures : q.metric = n.metric /\ q.date = n.date /\ q.current
                                /\ q.key = n.supersedes
    BY <1>1, <1>2, <2>1, CurrentKeyIs
  <2>3. q = r
    BY <1>2, <2>2 DEF TableIsSound
  <2> QED
    BY <2>2, <2>3
<1>3. ASSUME NEW n \in new, n.metric = r.metric, n.date = r.date, r.current
      PROVE  n.supersedes = r.key
  <2>1. n.supersedes = CurrentKey(n.metric, n.date)
    BY DEF Published
  <2> QED
    BY <1>3, <2>1, CurrentKeyIs
<1>4. (\E n \in new : n.metric = r.metric /\ n.supersedes = r.key)
         <=> r.current /\ Filled(new, r.metric, r.date)
  BY <1>2, <1>3 DEF Filled
<1>5. CASE r.current /\ Filled(new, r.metric, r.date)
  <2>1. Kept(new, r) = [r EXCEPT !.current = FALSE]
    BY <1>4, <1>5 DEF Kept
  <2>2. \E n \in new : n.metric = r.metric /\ n.date = r.date /\ n.supersedes = r.key
    BY <1>3, <1>5 DEF Filled
  <2> QED
    BY <1>1, <1>5, <2>1, <2>2 DEF Row
<1>6. CASE ~(r.current /\ Filled(new, r.metric, r.date))
  <2>1. Kept(new, r) = r
    BY <1>4, <1>6 DEF Kept
  <2> QED
    BY <1>1, <1>6, <2>1 DEF Filled
<1> QED
  BY <1>5, <1>6

LEMMA PublishedRows ==
  ASSUME NEW new, NEW k, Published(new, k)
  PROVE  figures' = {Kept(new, r) : r \in figures} \cup new
  BY DEF Published, PublishObservations, Kept

\* The table after a publication: sound, one line of corrections per slot, and
\* the slots it does not fill are as they were.
LEMMA PublicationIsSound ==
  ASSUME figures \subseteq Row, TableIsSound, CorrectionsFormALine,
         NEW new, NEW k \in 1..MaxRows, Published(new, k),
         nextKey \in Nat, nextKey' \in Nat, nextKey <= nextKey', k < nextKey'
  PROVE  /\ figures' \subseteq Row
         /\ TableIsSound'
         /\ CorrectionsFormALine'
         /\ \A r \in figures : Kept(new, r) \in figures'
         /\ \A q \in figures' : q \in new \/ \E r \in figures : q = Kept(new, r)
         /\ \A m, d : ~Filled(new, m, d)
               => CurrentRows(figures', m, d) = CurrentRows(figures, m, d)
<1>1. figures' = {Kept(new, r) : r \in figures} \cup new
  BY PublishedRows
<1>2. \A r \in figures :
         /\ Kept(new, r) \in Row
         /\ Kept(new, r).key = r.key /\ Kept(new, r).metric = r.metric
         /\ Kept(new, r).date = r.date
         /\ Kept(new, r).supersedes = r.supersedes
         /\ Kept(new, r).current <=> r.current /\ ~Filled(new, r.metric, r.date)
         /\ ~Filled(new, r.metric, r.date) => Kept(new, r) = r
         /\ r.current => (Filled(new, r.metric, r.date)
                             <=> \E n \in new : n.metric = r.metric /\ n.date = r.date
                                                   /\ n.supersedes = r.key)
  BY KeptIs
<1>3. /\ new \subseteq Row /\ \A n \in new : n.key = k /\ n.current
      /\ \A n \in new : n.supersedes = CurrentKey(n.metric, n.date)
      /\ \A n1, n2 \in new : n1.metric = n2.metric => n1 = n2
      /\ \A r \in figures : r.key # k
  BY DEF Published
<1>4. figures' \subseteq Row
  BY <1>1, <1>2, <1>3
<1>5. /\ \A r \in figures : Kept(new, r) \in figures'
      /\ \A q \in figures' : q \in new \/ \E r \in figures : q = Kept(new, r)
      /\ new \subseteq figures'
  BY <1>1
<1>6. \A m, d : ~Filled(new, m, d)
         => CurrentRows(figures', m, d) = CurrentRows(figures, m, d)
  <2> SUFFICES ASSUME NEW m, NEW d, ~Filled(new, m, d)
               PROVE  CurrentRows(figures', m, d) = CurrentRows(figures, m, d)
    OBVIOUS
  <2>1. \A q \in CurrentRows(figures', m, d) : q \in CurrentRows(figures, m, d)
    BY <1>2, <1>5 DEF CurrentRows, Filled
  <2>2. \A r \in CurrentRows(figures, m, d) : r \in CurrentRows(figures', m, d)
    BY <1>2, <1>5 DEF CurrentRows
  <2> QED
    BY <2>1, <2>2
<1>7. \A r \in figures : r.key \in Nat /\ r.supersedes # k
  <2> SUFFICES ASSUME NEW r \in figures
               PROVE  r.key \in Nat /\ r.supersedes # k
    OBVIOUS
  <2>1. r.key \in Nat /\ k # NoRow
    BY AudienceAssumption DEF Row, NoRow
  <2>2. r.supersedes # NoRow => \E q \in figures : q.key = r.supersedes
    BY DEF TableIsSound
  <2> QED
    BY <1>3, <2>1, <2>2
<1>8. \A n \in new : n.supersedes # k
  <2> SUFFICES ASSUME NEW n \in new
               PROVE  n.supersedes # k
    OBVIOUS
  <2>1. n.supersedes # NoRow => \E q \in figures : q.key = n.supersedes
    BY <1>3, CurrentKeyIs
  <2> QED
    BY <1>3, <2>1 DEF NoRow
<1>9. \A n \in new : n.supersedes # NoRow =>
         \E q \in figures : q.metric = n.metric /\ q.date = n.date /\ q.current
                               /\ q.key = n.supersedes
  BY <1>3, CurrentKeyIs
<1>10. \A n \in new, r \in figures :
          n.metric = r.metric /\ n.date = r.date => n.supersedes # r.supersedes
  <2> SUFFICES ASSUME NEW n \in new, NEW r \in figures, n.metric = r.metric, n.date = r.date,
                      n.supersedes = r.supersedes
               PROVE  FALSE
    OBVIOUS
  <2>1. PICK q \in figures : q.metric = r.metric /\ q.date = r.date /\ q.current
    BY DEF TableIsSound
  <2>2. n.supersedes = q.key
    BY <1>3, <2>1, CurrentKeyIs
  <2>3. r.metric \in Metric /\ r.date \in Day
    BY DEF Row
  <2>4. \A p \in figures : p.metric = r.metric /\ p.date = r.date /\ p.current =>
           \A o \in figures : o.metric = r.metric /\ o.date = r.date => o.supersedes # p.key
    BY <2>3 DEF CorrectionsFormALine
  <2> QED
    BY <2>1, <2>2, <2>4
<1>11. TableIsSound'
  <2>1. \A q \in figures' : q.key < nextKey'
    <3>1. \A r \in figures : r.key < nextKey'
      BY <1>7 DEF TableIsSound
    <3>2. \A r \in figures : Kept(new, r).key < nextKey'
      BY <1>2, <3>1
    <3>3. \A n \in new : n.key < nextKey'
      BY <1>3
    <3> QED
      BY <1>5, <3>2, <3>3
  <2>2. \A q1, q2 \in figures' : q1.key = q2.key /\ q1.metric = q2.metric => q1 = q2
    BY <1>2, <1>3, <1>5 DEF TableIsSound
  <2>3. \A q \in figures' : q.supersedes # NoRow =>
           \E p \in figures' : p.metric = q.metric /\ p.date = q.date /\ p.key = q.supersedes
    <3> SUFFICES ASSUME NEW q \in figures', q.supersedes # NoRow
                 PROVE  \E r \in figures : r.metric = q.metric /\ r.date = q.date
                                              /\ r.key = q.supersedes
      BY <1>2, <1>5
    <3>1. CASE q \in new
      BY <1>9, <3>1
    <3>2. CASE \E r \in figures : q = Kept(new, r)
      BY <1>2, <3>2 DEF TableIsSound
    <3> QED
      BY <1>5, <3>1, <3>2
  <2>4. \A q \in figures' : \E p \in figures' : p.metric = q.metric /\ p.date = q.date /\ p.current
    <3> SUFFICES ASSUME NEW q \in figures'
                 PROVE  \E p \in figures' : p.metric = q.metric /\ p.date = q.date /\ p.current
      OBVIOUS
    <3>1. CASE Filled(new, q.metric, q.date)
      BY <1>3, <1>5, <3>1 DEF Filled
    <3>2. CASE ~Filled(new, q.metric, q.date)
      <4>1. PICK r \in figures : q = Kept(new, r)
        BY <1>5, <3>2 DEF Filled
      <4>2. PICK p \in figures : p.metric = r.metric /\ p.date = r.date /\ p.current
        BY DEF TableIsSound
      <4> QED
        BY <1>2, <1>5, <3>2, <4>1, <4>2
    <3> QED
      BY <3>1, <3>2
  <2>5. \A q1, q2 \in figures' :
           q1.metric = q2.metric /\ q1.date = q2.date /\ q1.current /\ q2.current => q1 = q2
    <3> SUFFICES ASSUME NEW q1 \in figures', NEW q2 \in figures',
                        q1.metric = q2.metric, q1.date = q2.date, q1.current, q2.current
                 PROVE  q1 = q2
      OBVIOUS
    <3>1. CASE Filled(new, q1.metric, q1.date)
      <4>1. q1 \in new /\ q2 \in new
        BY <1>2, <1>5, <3>1
      <4> QED
        BY <1>3, <4>1
    <3>2. CASE ~Filled(new, q1.metric, q1.date)
      <4>1. q1 \in figures /\ q2 \in figures
        BY <1>2, <1>5, <3>2 DEF Filled
      <4> QED
        BY <4>1 DEF TableIsSound
    <3> QED
      BY <3>1, <3>2
  <2> QED
    BY <2>1, <2>2, <2>3, <2>4, <2>5 DEF TableIsSound
<1>12. CorrectionsFormALine'
  <2>1. \A r1, r2 \in figures :
           r1.metric = r2.metric /\ r1.date = r2.date /\ r1.supersedes = r2.supersedes => r1 = r2
    BY DEF CorrectionsFormALine, Row
  <2>2. \A r \in figures : r.current <=>
           ~\E q \in figures : q.metric = r.metric /\ q.date = r.date /\ q.supersedes = r.key
    <3> SUFFICES ASSUME NEW r \in figures
                 PROVE  r.current <=> ~\E q \in figures : q.metric = r.metric /\ q.date = r.date
                                                              /\ q.supersedes = r.key
      OBVIOUS
    <3>1. r.metric \in Metric /\ r.date \in Day
      BY DEF Row
    <3> QED
      BY <3>1 DEF CorrectionsFormALine
  <2>3. \A q1, q2 \in figures' :
           q1.metric = q2.metric /\ q1.date = q2.date /\ q1.supersedes = q2.supersedes => q1 = q2
    <3> SUFFICES ASSUME NEW q1 \in figures', NEW q2 \in figures',
                        q1.metric = q2.metric, q1.date = q2.date, q1.supersedes = q2.supersedes
                 PROVE  q1 = q2
      OBVIOUS
    <3>1. CASE q1 \in new /\ q2 \in new
      BY <1>3, <3>1
    <3>2. CASE q1 \in new /\ q2 \notin new
      BY <1>2, <1>5, <1>10, <3>2
    <3>3. CASE q1 \notin new /\ q2 \in new
      BY <1>2, <1>5, <1>10, <3>3
    <3>4. CASE q1 \notin new /\ q2 \notin new
      <4>1. PICK r1 \in figures : q1 = Kept(new, r1)
        BY <1>5, <3>4
      <4>2. PICK r2 \in figures : q2 = Kept(new, r2)
        BY <1>5, <3>4
      <4>3. r1 = r2
        BY <1>2, <2>1, <4>1, <4>2
      <4> QED
        BY <4>1, <4>2, <4>3
    <3> QED
      BY <3>1, <3>2, <3>3, <3>4
  <2>4. \A q \in figures' : q.current <=>
           ~\E p \in figures' : p.metric = q.metric /\ p.date = q.date /\ p.supersedes = q.key
    <3>1. ASSUME NEW q \in new
          PROVE  q.current /\ ~\E p \in figures' : p.supersedes = q.key
      <4>1. \A p \in figures' : p.supersedes # k
        BY <1>2, <1>5, <1>7, <1>8
      <4> QED
        BY <1>3, <4>1
    <3>2. ASSUME NEW r \in figures
          PROVE  Kept(new, r).current <=>
                   ~\E p \in figures' : p.metric = r.metric /\ p.date = r.date
                                           /\ p.supersedes = r.key
      <4>1. (\E p \in figures' : p.metric = r.metric /\ p.date = r.date /\ p.supersedes = r.key)
               <=> \/ \E p \in figures : p.metric = r.metric /\ p.date = r.date
                                             /\ p.supersedes = r.key
                   \/ \E n \in new : n.metric = r.metric /\ n.date = r.date
                                             /\ n.supersedes = r.key
        BY <1>2, <1>5
      <4> QED
        BY <1>2, <2>2, <4>1
    <3> QED
      BY <1>2, <1>5, <3>1, <3>2
  <2> QED
    BY <2>3, <2>4 DEF CorrectionsFormALine
<1> QED
  BY <1>4, <1>5, <1>6, <1>11, <1>12

LEMMA KeyOfIsCurrentKey ==
  /\ \A m, d : CurrentKey(m, d) = KeyOf(figures, m, d)
  /\ \A F, G, m, d : CurrentRows(F, m, d) = CurrentRows(G, m, d) => KeyOf(F, m, d) = KeyOf(G, m, d)
<1>1. \A m, d : CurrentKey(m, d) = KeyOf(figures, m, d)
  BY DEF CurrentKey, KeyOf
<1>2. ASSUME NEW F, NEW G, NEW m, NEW d, CurrentRows(F, m, d) = CurrentRows(G, m, d)
      PROVE  KeyOf(F, m, d) = KeyOf(G, m, d)
  BY <1>2 DEF KeyOf
<1> QED
  BY <1>1, <1>2

-----------------------------------------------------------------------------
(* One step of one transaction: x becomes y, z is another one. *)

LEMMA SessionFields ==
  ASSUME NEW x \in Session
  PROVE  /\ x.pc \in {"idle", "batch", "look", "lock", "insert"}
         /\ x.key \in 0..MaxRows /\ x.at \in 0..Len(Social) /\ x.mine \subseteq Row
         /\ x.seen \in 0..MaxRows /\ x.previous \in 0..MaxRows
         /\ x.locked \subseteq SocialMetric \X (1..MaxRows)
  BY DEF Session

\* A waiting transaction is not disturbed by others taking keys.
LEMMA Unmoved ==
  ASSUME NEW x, NEW F, NEW D, NEW n \in Nat, NEW n2 \in Nat, n <= n2, OneSession(x, F, n, D)
  PROVE  OneSession(x, F, n2, D)
<1>1. KeyIsOwn(x, F, n2, D)
  BY DEF OneSession, KeyIsOwn
<1> QED
  BY <1>1 DEF OneSession

LEMMA Quiet ==
  ASSUME NEW y, y.pc \in {"idle", "batch"}, y.mine = {}, y.locked = {}, Asked(y)
  PROVE  /\ \A F, n, D : OneSession(y, F, n, D)
         /\ \A z : Apart(y, z) /\ Apart(z, y)
<1>1. ~Holds(y)
  BY DEF Holds
<1>2. KeyIsOwn(y, {}, 0, {}) /\ NothingHeld(y) /\ WrittenSoFar(y) /\ LocksInOrder(y)
  BY <1>1 DEF KeyIsOwn, NothingHeld, WrittenSoFar, LocksInOrder
<1>3. \A F, n, D : KeyIsOwn(y, F, n, D) /\ SlotsStand(y, F)
  BY <1>1 DEF KeyIsOwn, SlotsStand
<1>4. \A z : Apart(y, z) /\ Apart(z, y)
  BY <1>1 DEF Apart
<1> QED
  BY <1>2, <1>3, <1>4 DEF OneSession

LEMMA IdleIsQuiet ==
  /\ \A F, n, D : OneSession(IdleSession, F, n, D)
  /\ \A z : Apart(IdleSession, z) /\ Apart(z, IdleSession)
<1>1. /\ IdleSession.pc = "idle" /\ IdleSession.mine = {} /\ IdleSession.locked = {}
  BY DEF IdleSession
<1>2. Asked(IdleSession)
  BY <1>1 DEF Asked
<1> QED
  BY <1>1, <1>2, Quiet

\* CreateBatch.
LEMMA Created ==
  ASSUME NEW x \in Session, NEW y, NEW F, NEW D, NEW n \in 1..MaxRows,
         OneSession(x, F, n, D), x.pc = "batch", Identity(x) \notin D,
         \A r \in F : r.key < n /\ r.key \in Nat,
         y.pc = "look", y.key = n, y.at = NextFigure(x.submission, 0),
         y.submission = x.submission, y.mine = x.mine, y.locked = x.locked
  PROVE  /\ OneSession(y, F, n + 1, D)
         /\ \A z : /\ Holds(z) => Identity(z) # Identity(x)
                   /\ OneSession(z, F, n, D)
                   => Apart(y, z) /\ Apart(z, y)
<1>1. Holds(y) /\ ~Holds(x) /\ y.mine = {} /\ y.locked = {}
  BY DEF Holds, OneSession, NothingHeld
<1>2. Asked(y)
  BY DEF OneSession, Asked
<1>3. y.at \in DOMAIN Social /\ MetricOf(y) \in Supplied(y.submission)
      /\ \A i \in DOMAIN Social : i < y.at => Social[i] \notin Supplied(y.submission)
  <2>1. 0 \in 0..Len(Social)
    BY Places
  <2>2. /\ y.at = 0 => \A i \in DOMAIN Social : i > 0 => Social[i] \notin Supplied(y.submission)
        /\ y.at # 0 => /\ y.at \in DOMAIN Social /\ Social[y.at] \in Supplied(y.submission)
                       /\ \A i \in DOMAIN Social :
                             0 < i /\ i < y.at => Social[i] \notin Supplied(y.submission)
    BY <2>1, NextFigureIs
  <2>3. \A i \in DOMAIN Social : i > 0 /\ 0 < i
    BY Places
  <2>4. \E i \in DOMAIN Social : Social[i] \in Supplied(y.submission)
    BY <1>2, AudienceAssumption DEF Asked, Supplied, SocialMetric
  <2> QED
    BY <2>2, <2>3, <2>4 DEF MetricOf
<1>4. KeyIsOwn(y, F, n + 1, D)
  <2>1. n \in Nat /\ n \in 1..((n + 1) - 1)
    BY AudienceAssumption
  <2>2. \A r \in F : r.key # n
    BY <2>1
  <2> QED
    BY <1>3, <2>1, <2>2 DEF KeyIsOwn, Identity
<1>5. WrittenSoFar(y)
  BY <1>1, <1>3 DEF WrittenSoFar
<1>6. NothingHeld(y) /\ LocksInOrder(y) /\ SlotsStand(y, F)
  BY <1>1 DEF NothingHeld, LocksInOrder, SlotsStand
<1>7. ASSUME NEW z, Holds(z) => Identity(z) # Identity(x), OneSession(z, F, n, D)
      PROVE  Apart(y, z) /\ Apart(z, y)
  <2>1. Holds(z) => z.key # y.key /\ Identity(z) # Identity(y)
    BY <1>7, AudienceAssumption DEF OneSession, KeyIsOwn, Identity
  <2> QED
    BY <1>1, <2>1 DEF Apart
<1> QED
  BY <1>2, <1>4, <1>5, <1>6, <1>7 DEF OneSession

\* LookForCurrent.
LEMMA Looked ==
  ASSUME NEW x, NEW y, NEW F, NEW n, NEW D, OneSession(x, F, n, D),
         x.pc = "look", y.pc = "lock", y.key = x.key, y.at = x.at,
         y.submission = x.submission, y.mine = x.mine, y.locked = x.locked
  PROVE  /\ OneSession(y, F, n, D)
         /\ \A z : Apart(x, z) /\ Apart(z, x) => Apart(y, z) /\ Apart(z, y)
<1>1. Holds(x) /\ Holds(y) /\ MetricOf(x) = MetricOf(y) /\ Identity(x) = Identity(y)
  BY DEF Holds, MetricOf, Identity
<1>2. Asked(y) /\ KeyIsOwn(y, F, n, D) /\ NothingHeld(y)
  BY <1>1 DEF OneSession, Asked, KeyIsOwn, NothingHeld
<1>3. WrittenSoFar(y)
  BY <1>1 DEF OneSession, WrittenSoFar
<1>4. LocksInOrder(y) /\ SlotsStand(y, F)
  BY DEF OneSession, LocksInOrder, SlotsStand
<1>5. \A z : Apart(x, z) /\ Apart(z, x) => Apart(y, z) /\ Apart(z, y)
  BY <1>1 DEF Apart
<1> QED
  BY <1>2, <1>3, <1>4, <1>5 DEF OneSession

\* LockCurrent: the row it has found, and what it holds then.
RowSeen(x) == IF x.seen = NoRow THEN {} ELSE {<<MetricOf(x), x.seen>>}
RowHeld(x, F) == IF x.seen = KeyOf(F, MetricOf(x), x.submission.date) THEN x.seen ELSE NoRow

LEMMA Locked ==
  ASSUME NEW x, NEW y, NEW F, NEW n, NEW D, OneSession(x, F, n, D), x.pc = "lock",
         y.pc = "insert", y.key = x.key, y.at = x.at,
         y.submission = x.submission, y.mine = x.mine, y.locked = x.locked \cup RowSeen(x),
         y.previous = RowHeld(x, F)
  PROVE  /\ OneSession(y, F, n, D)
         /\ \A z : Apart(x, z) /\ Apart(z, x) /\ RowSeen(x) \cap z.locked = {}
                  => Apart(y, z) /\ Apart(z, y)
<1>1. Holds(x) /\ Holds(y) /\ MetricOf(x) = MetricOf(y) /\ Identity(x) = Identity(y)
  BY DEF Holds, MetricOf, Identity
<1>2. Asked(y) /\ KeyIsOwn(y, F, n, D) /\ NothingHeld(y)
  BY <1>1 DEF OneSession, Asked, KeyIsOwn, NothingHeld
<1>3. WrittenSoFar(y)
  BY <1>1 DEF OneSession, WrittenSoFar
<1>4. LocksInOrder(y)
  <2>1. y.at \in DOMAIN Social
    BY <1>1 DEF OneSession, KeyIsOwn
  <2>2. \A l \in RowSeen(x) : l[1] = Social[y.at]
    BY DEF MetricOf, RowSeen
  <2> QED
    BY <2>1, <2>2 DEF OneSession, LocksInOrder
<1>5. SlotsStand(y, F)
  <2>1. \A r \in y.mine :
           /\ r.supersedes = KeyOf(F, r.metric, r.date)
           /\ r.supersedes # NoRow => <<r.metric, r.supersedes>> \in y.locked
    BY DEF OneSession, SlotsStand
  <2>2. y.previous # NoRow =>
           /\ y.previous = KeyOf(F, MetricOf(y), y.submission.date)
           /\ <<MetricOf(y), y.previous>> \in y.locked
    BY <1>1 DEF RowSeen, RowHeld
  <2> QED
    BY <2>1, <2>2 DEF SlotsStand
<1>6. \A z : Apart(x, z) /\ Apart(z, x) /\ RowSeen(x) \cap z.locked = {}
                  => Apart(y, z) /\ Apart(z, y)
  BY <1>1 DEF Apart
<1> QED
  BY <1>2, <1>3, <1>4, <1>5, <1>6 DEF OneSession

\* What a transaction writes for the figure it is at.
RowOf(x) ==
    [key |-> x.key, metric |-> MetricOf(x), date |-> x.submission.date,
     value |-> x.submission.values[MetricOf(x)], supersedes |-> x.previous, current |-> TRUE]

\* The row it writes follows its slot's current one, and is its own.
LEMMA RowIsSound ==
  ASSUME NEW x \in Session, NEW F, NEW n \in 1..(MaxRows + 1), NEW D, OneSession(x, F, n, D),
         x.pc = "insert", KeyOf(F, MetricOf(x), x.submission.date) \in {NoRow, x.previous}
  PROVE  /\ RowOf(x) \in Row
         /\ RowOf(x).supersedes = KeyOf(F, MetricOf(x), x.submission.date)
         /\ RowOf(x).supersedes # NoRow => <<MetricOf(x), RowOf(x).supersedes>> \in x.locked
         /\ \A r \in x.mine : r.metric # MetricOf(x)
<1>1. Holds(x)
  BY DEF Holds
<1>2. /\ x.key \in 1..MaxRows /\ x.at \in DOMAIN Social
      /\ MetricOf(x) \in Supplied(x.submission)
  BY <1>1, AudienceAssumption DEF OneSession, KeyIsOwn
<1>3. /\ MetricOf(x) \in SocialMetric /\ x.submission.date \in Day
      /\ x.submission.values[MetricOf(x)] \in Nat
  <2>1. x.submission \in Submissions /\ x.submission.date \in Day
    BY DEF OneSession, Asked
  <2>2. /\ DOMAIN x.submission.values \subseteq SocialMetric
        /\ x.submission.values \in [DOMAIN x.submission.values -> Nat]
    BY <2>1, AudienceAssumption
  <2> QED
    BY <1>2, <2>1, <2>2 DEF Supplied
<1>4. RowOf(x) \in Row
  <2>1. x.previous \in 0..MaxRows
    BY SessionFields
  <2> QED
    BY <1>2, <1>3, <2>1 DEF RowOf, Row, Metric, Value
<1>5. x.previous = KeyOf(F, MetricOf(x), x.submission.date)
  BY DEF OneSession, SlotsStand
<1>6. x.previous # NoRow => <<MetricOf(x), x.previous>> \in x.locked
  BY DEF OneSession, SlotsStand
<1>7. \A r \in x.mine : r.metric # MetricOf(x)
  <2>1. (x.at < x.at <=> \E r \in x.mine : r.metric = Social[x.at])
    BY <1>1, <1>2 DEF OneSession, WrittenSoFar, MetricOf
  <2>2. ~(x.at < x.at)
    BY <1>2, Places
  <2> QED
    BY <2>1, <2>2 DEF MetricOf
<1> QED
  BY <1>4, <1>5, <1>6, <1>7 DEF RowOf

\* WriteFigure.
LEMMA Written ==
  ASSUME NEW x \in Session, NEW y, NEW F, NEW n \in 1..(MaxRows + 1), NEW D, OneSession(x, F, n, D),
         x.pc = "insert", KeyOf(F, MetricOf(x), x.submission.date) \in {NoRow, x.previous},
         y.at = NextFigure(x.submission, x.at), y.at # 0,
         y.pc = "look", y.key = x.key, y.submission = x.submission,
         y.mine = x.mine \cup {RowOf(x)}, y.locked = x.locked
  PROVE  /\ OneSession(y, F, n, D)
         /\ \A z : /\ Apart(x, z) /\ Apart(z, x)
                   /\ \A q \in z.mine : ~(q.metric = MetricOf(x) /\ q.date = x.submission.date)
                   => Apart(y, z) /\ Apart(z, y)
<1>1. Holds(x) /\ Holds(y) /\ Identity(x) = Identity(y)
  BY DEF Holds, Identity
<1>2. /\ RowOf(x).key = x.key /\ RowOf(x).metric = MetricOf(x) /\ RowOf(x).current
      /\ RowOf(x).date = x.submission.date
      /\ RowOf(x).value = x.submission.values[MetricOf(x)]
  BY DEF RowOf
<1>3. /\ RowOf(x).supersedes = KeyOf(F, MetricOf(x), x.submission.date)
      /\ RowOf(x).supersedes # NoRow => <<MetricOf(x), RowOf(x).supersedes>> \in x.locked
      /\ \A r \in x.mine : r.metric # MetricOf(x)
  BY RowIsSound
<1>4. /\ x.at \in 0..Len(Social) /\ x.at \in DOMAIN Social
      /\ MetricOf(x) \in Supplied(x.submission)
  BY <1>1, SessionFields DEF OneSession, KeyIsOwn
<1>5. /\ y.at \in DOMAIN Social /\ y.at > x.at /\ Social[y.at] \in Supplied(x.submission)
      /\ \A i \in DOMAIN Social : x.at < i /\ i < y.at => Social[i] \notin Supplied(x.submission)
  BY <1>4, NextFigureIs
<1>6. Asked(y) /\ KeyIsOwn(y, F, n, D) /\ NothingHeld(y)
  <2>1. Asked(y)
    BY <1>1 DEF OneSession, Asked, Holds
  <2>2. KeyIsOwn(y, F, n, D)
    BY <1>1, <1>5 DEF OneSession, KeyIsOwn, MetricOf
  <2> QED
    BY <1>1, <2>1, <2>2 DEF NothingHeld
<1>7. WrittenSoFar(y)
  <2>1. \A r \in y.mine :
           /\ r.key = y.key /\ r.date = y.submission.date /\ r.current
           /\ r.metric \in Supplied(y.submission)
           /\ r.value = y.submission.values[r.metric]
    BY <1>1, <1>2, <1>4 DEF OneSession, WrittenSoFar
  <2>2. \A r1, r2 \in y.mine : r1.metric = r2.metric => r1 = r2
    BY <1>1, <1>2, <1>3 DEF OneSession, WrittenSoFar
  <2>3. ASSUME NEW i \in DOMAIN Social, Social[i] \in Supplied(y.submission)
        PROVE  i < y.at <=> \E r \in y.mine : r.metric = Social[i]
    <3>1. i < x.at <=> \E r \in x.mine : r.metric = Social[i]
      BY <1>1, <2>3 DEF OneSession, WrittenSoFar
    <3>2. RowOf(x).metric = Social[i] <=> i = x.at
      BY <1>2, <1>4, AudienceAssumption DEF MetricOf
    <3>3. i < y.at <=> i < x.at \/ i = x.at
      BY <1>4, <1>5, <2>3, Places
    <3> QED
      BY <3>1, <3>2, <3>3
  <2> QED
    BY <2>1, <2>2, <2>3 DEF WrittenSoFar
<1>8. LocksInOrder(y)
  <2> SUFFICES ASSUME NEW l \in y.locked
               PROVE  \E i \in DOMAIN Social : l[1] = Social[i] /\ i < y.at
    BY DEF LocksInOrder
  <2>1. PICK i \in DOMAIN Social : l[1] = Social[i] /\ (i < x.at \/ i = x.at)
    BY DEF OneSession, LocksInOrder
  <2>2. i < y.at
    BY <1>4, <1>5, <2>1, Places
  <2> QED
    BY <2>1, <2>2
<1>9. SlotsStand(y, F)
  BY <1>2, <1>3 DEF OneSession, SlotsStand
<1>10. ASSUME NEW z, Apart(x, z), Apart(z, x),
              \A q \in z.mine : ~(q.metric = MetricOf(x) /\ q.date = x.submission.date)
       PROVE  Apart(y, z) /\ Apart(z, y)
  BY <1>1, <1>2, <1>10 DEF Apart
<1> QED
  BY <1>6, <1>7, <1>8, <1>9, <1>10 DEF OneSession

-----------------------------------------------------------------------------
(* Publications. *)

\* The commit of a transaction is a publication.
LEMMA CommitPublishes ==
  ASSUME NEW x \in Session, NEW n \in 1..(MaxRows + 1), NEW D, OneSession(x, figures, n, D),
         x.pc = "insert", KeyOf(figures, MetricOf(x), x.submission.date) \in {NoRow, x.previous},
         figures' = PublishObservations(figures, x.mine \cup {RowOf(x)})
  PROVE  /\ Published(x.mine \cup {RowOf(x)}, x.key)
         /\ \A r \in x.mine \cup {RowOf(x)} :
               /\ r.metric \in SocialMetric
               /\ r.supersedes # NoRow => <<r.metric, r.supersedes>> \in x.locked
<1>1. Holds(x)
  BY DEF Holds
<1>2. /\ RowOf(x).key = x.key /\ RowOf(x).metric = MetricOf(x) /\ RowOf(x).current
      /\ RowOf(x).date = x.submission.date
  BY DEF RowOf
<1>3. /\ RowOf(x) \in Row
      /\ RowOf(x).supersedes = KeyOf(figures, MetricOf(x), x.submission.date)
      /\ RowOf(x).supersedes # NoRow => <<MetricOf(x), RowOf(x).supersedes>> \in x.locked
      /\ \A r \in x.mine : r.metric # MetricOf(x)
  BY RowIsSound
<1>4. /\ \A r \in x.mine : r.key = x.key /\ r.current /\ r.metric \in Supplied(x.submission)
      /\ \A r1, r2 \in x.mine : r1.metric = r2.metric => r1 = r2
  BY <1>1 DEF OneSession, WrittenSoFar
<1>5. \A r \in x.mine : /\ r.supersedes = KeyOf(figures, r.metric, r.date)
                        /\ r.supersedes # NoRow => <<r.metric, r.supersedes>> \in x.locked
  BY DEF OneSession, SlotsStand
<1>6. /\ \A r \in figures : r.key # x.key
      /\ MetricOf(x) \in Supplied(x.submission)
  BY <1>1 DEF OneSession, KeyIsOwn
<1>7. Supplied(x.submission) \subseteq SocialMetric
  BY <1>1, AudienceAssumption DEF OneSession, Asked, Holds, Supplied
<1>8. x.mine \cup {RowOf(x)} \subseteq Row
  BY <1>3, SessionFields
<1>9. \A r \in x.mine \cup {RowOf(x)} :
         r.key = x.key /\ r.current /\ r.supersedes = CurrentKey(r.metric, r.date)
  BY <1>2, <1>3, <1>4, <1>5, KeyOfIsCurrentKey
<1>10. \A r1, r2 \in x.mine \cup {RowOf(x)} : r1.metric = r2.metric => r1 = r2
  BY <1>2, <1>3, <1>4
<1>11. Published(x.mine \cup {RowOf(x)}, x.key)
  BY <1>6, <1>8, <1>9, <1>10 DEF Published
<1> QED
  BY <1>2, <1>3, <1>4, <1>5, <1>6, <1>7, <1>11

\* A transaction none of whose slots it fills is not disturbed by it.
LEMMA Undisturbed ==
  ASSUME figures \subseteq Row, TableIsSound, CorrectionsFormALine,
         NEW new, NEW k \in 1..MaxRows, Published(new, k),
         nextKey \in Nat, nextKey' \in Nat, nextKey <= nextKey', k < nextKey',
         NEW z, NEW D, NEW D2, OneSession(z, figures, nextKey, D),
         Holds(z) => z.key # k /\ Identity(z) \notin D2,
         \A r \in z.mine : ~Filled(new, r.metric, r.date),
         z.pc = "insert" /\ z.previous # NoRow => ~Filled(new, MetricOf(z), z.submission.date)
  PROVE  OneSession(z, figures', nextKey', D2)
<1>1. /\ \A q \in figures' : q \in new \/ \E r \in figures : q = Kept(new, r)
      /\ \A m, d : ~Filled(new, m, d)
               => CurrentRows(figures', m, d) = CurrentRows(figures, m, d)
  BY PublicationIsSound
<1>2. \A q \in figures' : q.key = k \/ \E r \in figures : q.key = r.key
  <2>1. \A r \in figures : Kept(new, r).key = r.key
    BY KeptIs
  <2>2. \A r \in new : r.key = k
    BY DEF Published
  <2> QED
    BY <1>1, <2>1, <2>2
<1>3. \A m, d : ~Filled(new, m, d) => KeyOf(figures', m, d) = KeyOf(figures, m, d)
  BY <1>1, KeyOfIsCurrentKey
<1>4. KeyIsOwn(z, figures', nextKey', D2)
  <2> SUFFICES ASSUME Holds(z)
               PROVE  KeyIsOwn(z, figures', nextKey', D2)
    BY DEF KeyIsOwn
  <2>1. /\ z.key \in 1..(nextKey - 1) /\ \A r \in figures : r.key # z.key
        /\ z.at \in DOMAIN Social /\ MetricOf(z) \in Supplied(z.submission)
    BY DEF OneSession, KeyIsOwn
  <2>2. z.key \in 1..(nextKey' - 1)
    BY <2>1
  <2>3. \A r \in figures' : r.key # z.key
    BY <1>2, <2>1
  <2> QED
    BY <2>1, <2>2, <2>3 DEF KeyIsOwn
<1>5. SlotsStand(z, figures')
  <2>1. \A r \in z.mine :
           /\ r.supersedes = KeyOf(figures', r.metric, r.date)
           /\ r.supersedes # NoRow => <<r.metric, r.supersedes>> \in z.locked
    BY <1>3 DEF OneSession, SlotsStand
  <2>2. z.pc = "insert" /\ z.previous # NoRow =>
           /\ z.previous = KeyOf(figures', MetricOf(z), z.submission.date)
           /\ <<MetricOf(z), z.previous>> \in z.locked
    BY <1>3 DEF OneSession, SlotsStand
  <2> QED
    BY <2>1, <2>2 DEF SlotsStand
<1> QED
  BY <1>4, <1>5 DEF OneSession

\* Whoever commits has the locks of the rows it replaces, so what the others
\* hold or have written stays as it is.
LEMMA OthersStand ==
  ASSUME figures \subseteq Row, TableIsSound, CorrectionsFormALine,
         NEW x \in Session, NEW D, OneSession(x, figures, nextKey, D), nextKey \in 1..(MaxRows + 1),
         x.pc = "insert", KeyOf(figures, MetricOf(x), x.submission.date) \in {NoRow, x.previous},
         figures' = PublishObservations(figures, x.mine \cup {RowOf(x)}), nextKey' = nextKey,
         NEW z, OneSession(z, figures, nextKey, D), Apart(x, z),
         \A q \in z.mine : ~(q.metric = MetricOf(x) /\ q.date = x.submission.date)
  PROVE  OneSession(z, figures', nextKey, D \cup {Identity(x)})
<1> DEFINE new == x.mine \cup {RowOf(x)}
<1>1. /\ Published(new, x.key)
      /\ \A r \in new : r.supersedes # NoRow => <<r.metric, r.supersedes>> \in x.locked
  BY CommitPublishes
<1>2. Holds(x)
  BY DEF Holds
<1>3. x.key \in 1..MaxRows /\ x.key < nextKey /\ nextKey \in Nat
  BY <1>2, AudienceAssumption DEF OneSession, KeyIsOwn
<1>4. RowOf(x).metric = MetricOf(x) /\ RowOf(x).date = x.submission.date
  BY DEF RowOf
<1>5. Holds(z) => z.key # x.key /\ Identity(z) \notin D \cup {Identity(x)}
  BY <1>2 DEF Apart, OneSession, KeyIsOwn
<1>6. \A r \in z.mine : ~Filled(new, r.metric, r.date)
  BY <1>4 DEF Apart, Filled
<1>7. ASSUME z.pc = "insert", z.previous # NoRow, Filled(new, MetricOf(z), z.submission.date)
      PROVE  FALSE
  <2>1. PICK r \in new : r.metric = MetricOf(z) /\ r.date = z.submission.date
    BY <1>7 DEF Filled
  <2>2. r.supersedes = KeyOf(figures, MetricOf(z), z.submission.date)
    BY <1>1, <2>1, KeyOfIsCurrentKey DEF Published
  <2>3. /\ z.previous = KeyOf(figures, MetricOf(z), z.submission.date)
        /\ <<MetricOf(z), z.previous>> \in z.locked
    BY <1>7 DEF OneSession, SlotsStand
  <2>4. <<MetricOf(z), z.previous>> \in x.locked
    BY <1>1, <1>7, <2>1, <2>2, <2>3
  <2> QED
    BY <2>3, <2>4 DEF Apart
<1> HIDE DEF new
<1>8. OneSession(z, figures', nextKey', D \cup {Identity(x)})
  BY <1>1, <1>3, <1>5, <1>6, <1>7, Undisturbed
<1> QED
  BY <1>8

\* The figures of a key, whatever row they are in.
Content(F, k) == {<<r.metric, r.date, r.value>> : r \in {q \in F : q.key = k}}

SocialKeys(F) == {r.key : r \in {q \in F : q.metric \in SocialMetric}}

LEMMA SubmittedOnceIs ==
  SubmittedOnce <=> \A k1, k2 \in SocialKeys(figures) :
                       Content(figures, k1) = Content(figures, k2) => k1 = k2
  BY DEF SubmittedOnce, SocialKeys, Content

Repeats(F, k1, k2) ==
    \A q \in F : q.key = k1 =>
       \E p \in F : p.key = k2 /\ p.metric = q.metric /\ p.date = q.date /\ p.value = q.value

LEMMA InContent ==
  ASSUME NEW F, NEW k1, NEW k2, Content(F, k1) = Content(F, k2)
  PROVE  Repeats(F, k1, k2)
<1> SUFFICES ASSUME NEW q \in F, q.key = k1
             PROVE  \E p \in F : p.key = k2 /\ p.metric = q.metric /\ p.date = q.date
                                     /\ p.value = q.value
  BY DEF Repeats
<1>1. <<q.metric, q.date, q.value>> \in Content(F, k1)
  BY DEF Content
<1>2. <<q.metric, q.date, q.value>> \in Content(F, k2)
  BY <1>1
<1> QED
  BY <1>2 DEF Content

\* Two keys with the same figures carry the same submission.
LEMMA SameContent ==
  ASSUME NEW F, NEW k1, NEW k2, NEW sub1 \in Submissions, NEW sub2 \in Submissions,
         CarriedBy(F, k1, ContentIdentity(sub1)), CarriedBy(F, k2, ContentIdentity(sub2)),
         Content(F, k1) = Content(F, k2), NEW r \in F, r.key = k1
  PROVE  ContentIdentity(sub1) = ContentIdentity(sub2)
<1>1. /\ ContentIdentity(sub1)[1] = sub1.date /\ ContentIdentity(sub1)[2] = sub1.values
      /\ ContentIdentity(sub2)[1] = sub2.date /\ ContentIdentity(sub2)[2] = sub2.values
  BY DEF ContentIdentity
<1>2. /\ \A q \in F : q.key = k1 =>
            /\ q.metric \in DOMAIN sub1.values /\ q.date = sub1.date
            /\ q.value = sub1.values[q.metric]
      /\ \A m \in DOMAIN sub1.values : \E q \in F : q.key = k1 /\ q.metric = m
  BY <1>1 DEF CarriedBy
<1>3. /\ \A q \in F : q.key = k2 =>
            /\ q.metric \in DOMAIN sub2.values /\ q.date = sub2.date
            /\ q.value = sub2.values[q.metric]
      /\ \A m \in DOMAIN sub2.values : \E q \in F : q.key = k2 /\ q.metric = m
  BY <1>1 DEF CarriedBy
<1>4. Content(F, k2) = Content(F, k1)
  OBVIOUS
<1>5. Repeats(F, k1, k2)
  BY InContent, Zenon
<1>6. Repeats(F, k2, k1)
  BY <1>4, InContent, Zenon
<1>7. sub1.date = sub2.date
  BY <1>2, <1>3, <1>5 DEF Repeats
<1>8. DOMAIN sub1.values = DOMAIN sub2.values
  <2>1. \A m \in DOMAIN sub1.values : m \in DOMAIN sub2.values
    BY <1>2, <1>3, <1>5 DEF Repeats
  <2>2. \A m \in DOMAIN sub2.values : m \in DOMAIN sub1.values
    BY <1>2, <1>3, <1>6 DEF Repeats
  <2> QED
    BY <2>1, <2>2
<1>9. \A m \in DOMAIN sub1.values : sub1.values[m] = sub2.values[m]
  BY <1>2, <1>3, <1>5 DEF Repeats
<1>10. /\ sub1.values \in [DOMAIN sub1.values -> Nat]
       /\ sub2.values \in [DOMAIN sub2.values -> Nat]
  BY AudienceAssumption
<1>11. sub1.values = sub2.values
  BY <1>8, <1>9, <1>10
<1> QED
  BY <1>7, <1>11 DEF ContentIdentity

\* A publication changes no figure of another key.
LEMMA OldKeysStand ==
  ASSUME figures \subseteq Row, TableIsSound, NEW new, NEW k, Published(new, k), NEW j, j # k
  PROVE  /\ Content(figures', j) = Content(figures, j)
         /\ \A id : CarriedBy(figures, j, id) => CarriedBy(figures', j, id)
         /\ \A q \in figures' : q.key = j => \E r \in figures : r.key = j /\ r.metric = q.metric
<1>1. figures' = {Kept(new, r) : r \in figures} \cup new
  BY PublishedRows
<1>2. \A r \in figures : /\ Kept(new, r).key = r.key /\ Kept(new, r).metric = r.metric
                         /\ Kept(new, r).date = r.date /\ Kept(new, r).value = r.value
  BY KeptIs
<1>3. \A r \in new : r.key # j
  BY DEF Published
<1>4. \A q \in figures' : q.key = j =>
         \E r \in figures : r.key = j /\ r.metric = q.metric /\ r.date = q.date /\ r.value = q.value
  BY <1>1, <1>2, <1>3
<1>5. \A r \in figures : r.key = j =>
         \E q \in figures' : q.key = j /\ q.metric = r.metric /\ q.date = r.date /\ q.value = r.value
  BY <1>1, <1>2
<1>6. Content(figures', j) = Content(figures, j)
  <2>1. ASSUME NEW c \in Content(figures', j)
        PROVE  c \in Content(figures, j)
    BY <1>4 DEF Content
  <2>2. ASSUME NEW c \in Content(figures, j)
        PROVE  c \in Content(figures', j)
    BY <1>5 DEF Content
  <2> QED
    BY <2>1, <2>2
<1>7. ASSUME NEW id, CarriedBy(figures, j, id)
      PROVE  CarriedBy(figures', j, id)
  <2>1. \A r \in figures' : r.key = j =>
           r.metric \in DOMAIN id[2] /\ r.date = id[1] /\ r.value = id[2][r.metric]
    BY <1>4, <1>7 DEF CarriedBy
  <2>2. \A m \in DOMAIN id[2] : \E r \in figures' : r.key = j /\ r.metric = m
    BY <1>5, <1>7 DEF CarriedBy
  <2> QED
    BY <2>1, <2>2 DEF CarriedBy
<1> QED
  BY <1>4, <1>6, <1>7

\* A publication is recorded once, if what it publishes was not recorded yet.
LEMMA PublicationIsRecorded ==
  ASSUME figures \subseteq Row, TableIsSound, RowsAreRecorded, SubmittedOnce,
         NEW new, NEW k, Published(new, k),
         submitted \subseteq submitted',
         submitted' \subseteq {ContentIdentity(sub) : sub \in Submissions},
         \A r \in new : r.metric \in SocialMetric
            => \E id \in submitted' \ submitted : CarriedBy(figures', k, id)
  PROVE  RowsAreRecorded' /\ SubmittedOnce'
<1>1. figures' = {Kept(new, r) : r \in figures} \cup new
  BY PublishedRows
<1>2. \A r \in figures : Kept(new, r).key = r.key /\ r.key # k
  BY KeptIs DEF Published
<1>3. \A j : j # k => \A id : CarriedBy(figures, j, id) => CarriedBy(figures', j, id)
  BY OldKeysStand
<1>4. \A j : j # k =>
         \A q \in figures' : q.key = j => \E r \in figures : r.key = j /\ r.metric = q.metric
  BY OldKeysStand
<1>5. \A j : j # k => Content(figures', j) = Content(figures, j)
  BY OldKeysStand
<1>6. ASSUME NEW q \in figures', q.metric \in SocialMetric, q.key # k
      PROVE  \E id \in submitted : CarriedBy(figures', q.key, id)
  <2>1. PICK r \in figures : r.key = q.key /\ r.metric = q.metric
    BY <1>4, <1>6
  <2>2. PICK id \in submitted : CarriedBy(figures, r.key, id)
    BY <1>6, <2>1 DEF RowsAreRecorded
  <2> QED
    BY <1>3, <1>6, <2>1, <2>2
<1>7. ASSUME NEW q \in figures', q.metric \in SocialMetric, q.key = k
      PROVE  \E id \in submitted' \ submitted : CarriedBy(figures', k, id)
  <2>1. q \in new
    BY <1>1, <1>2, <1>7
  <2> QED
    BY <1>7, <2>1
<1>8. RowsAreRecorded'
  BY <1>6, <1>7 DEF RowsAreRecorded
<1>9. ASSUME NEW k2 \in SocialKeys(figures'), k2 # k, k \in SocialKeys(figures')
      PROVE  Content(figures', k) # Content(figures', k2)
  <2> SUFFICES ASSUME Content(figures', k) = Content(figures', k2)
               PROVE  FALSE
    OBVIOUS
  <2>1. PICK q1 \in figures' : q1.metric \in SocialMetric /\ q1.key = k
    BY <1>9 DEF SocialKeys
  <2>2. PICK q2 \in figures' : q2.metric \in SocialMetric /\ q2.key = k2
    BY <1>9 DEF SocialKeys
  <2>3. PICK id1 \in submitted' \ submitted : CarriedBy(figures', k, id1)
    BY <1>7, <2>1
  <2>4. PICK id2 \in submitted : CarriedBy(figures', k2, id2)
    BY <1>6, <1>9, <2>2
  <2>5. PICK sub1 \in Submissions : id1 = ContentIdentity(sub1)
    BY <2>3
  <2>6. PICK sub2 \in Submissions : id2 = ContentIdentity(sub2)
    BY <2>4
  <2>7. ContentIdentity(sub1) = ContentIdentity(sub2)
    BY <2>1, <2>3, <2>4, <2>5, <2>6, SameContent
  <2> QED
    BY <2>3, <2>4, <2>5, <2>6, <2>7
<1>10. SubmittedOnce'
  <2>1. \A k1, k2 \in SocialKeys(figures) :
           Content(figures, k1) = Content(figures, k2) => k1 = k2
    BY SubmittedOnceIs
  <2>2. \A j \in SocialKeys(figures') : j # k => j \in SocialKeys(figures)
    BY <1>4 DEF SocialKeys
  <2>3. \A k1, k2 \in SocialKeys(figures') :
           Content(figures', k1) = Content(figures', k2) => k1 = k2
    BY <1>5, <1>9, <2>1, <2>2
  <2> QED
    BY <2>3, SubmittedOnceIs DEF SubmittedOnce, SocialKeys, Content
<1> QED
  BY <1>8, <1>10

\* What a transaction commits is its submission.
LEMMA CommitCarries ==
  ASSUME figures \subseteq Row, TableIsSound,
         NEW x \in Session, NEW n \in 1..(MaxRows + 1), NEW D, OneSession(x, figures, n, D),
         x.pc = "insert", KeyOf(figures, MetricOf(x), x.submission.date) \in {NoRow, x.previous},
         NextFigure(x.submission, x.at) = 0,
         figures' = PublishObservations(figures, x.mine \cup {RowOf(x)})
  PROVE  CarriedBy(figures', x.key, Identity(x))
<1> DEFINE new == x.mine \cup {RowOf(x)}
<1>1. Published(new, x.key)
  BY CommitPublishes
<1>2. Holds(x)
  BY DEF Holds
<1>3. Identity(x)[1] = x.submission.date /\ Identity(x)[2] = x.submission.values
  BY DEF Identity, ContentIdentity
<1>4. figures' = {Kept(new, r) : r \in figures} \cup new
  BY <1>1, PublishedRows
<1>5. \A r \in figures : Kept(new, r).key # x.key
  <2> HIDE DEF new
  <2>1. \A r \in figures : Kept(new, r).key = r.key
    BY <1>1, KeptIs
  <2>2. \A r \in figures : r.key # x.key
    BY <1>1 DEF Published
  <2> QED
    BY <2>1, <2>2
<1>6. \A q \in figures' : q.key = x.key => q \in new
  BY <1>4, <1>5
<1>7. /\ RowOf(x).key = x.key /\ RowOf(x).metric = MetricOf(x)
      /\ RowOf(x).date = x.submission.date
      /\ RowOf(x).value = x.submission.values[MetricOf(x)]
  BY DEF RowOf
<1>8. x.at \in DOMAIN Social /\ MetricOf(x) \in Supplied(x.submission)
  BY <1>2 DEF OneSession, KeyIsOwn
<1>9. \A r \in new :
         /\ r.key = x.key /\ r.date = x.submission.date
         /\ r.metric \in DOMAIN x.submission.values
         /\ r.value = x.submission.values[r.metric]
  <2>1. \A r \in x.mine :
           /\ r.key = x.key /\ r.date = x.submission.date
           /\ r.metric \in Supplied(x.submission)
           /\ r.value = x.submission.values[r.metric]
    BY <1>2 DEF OneSession, WrittenSoFar
  <2> QED
    BY <1>7, <1>8, <2>1 DEF Supplied
<1>10. ASSUME NEW m \in Supplied(x.submission)
       PROVE  \E r \in new : r.metric = m
  <2>1. PICK i \in DOMAIN Social : Social[i] = m
    BY <1>2, AudienceAssumption DEF OneSession, Asked, Holds, Supplied, SocialMetric
  <2>2. x.at \in 0..Len(Social)
    BY SessionFields
  <2>3. ~(i > x.at)
    BY <2>1, <2>2, NextFigureIs
  <2>4. CASE i = x.at
    BY <1>7, <2>1, <2>4 DEF MetricOf
  <2>5. CASE i < x.at
    BY <1>2, <2>1, <2>5 DEF OneSession, WrittenSoFar
  <2> QED
    BY <2>2, <2>3, <2>4, <2>5, Places
<1>11. \A m \in DOMAIN Identity(x)[2] : \E r \in figures' : r.key = x.key /\ r.metric = m
  BY <1>3, <1>4, <1>9, <1>10 DEF Supplied
<1>12. \A q \in figures' : q.key = x.key =>
          /\ q.metric \in DOMAIN Identity(x)[2] /\ q.date = Identity(x)[1]
          /\ q.value = Identity(x)[2][q.metric]
  BY <1>3, <1>6, <1>9
<1> QED
  BY <1>11, <1>12 DEF CarriedBy

-----------------------------------------------------------------------------
(* The steps. *)

AudienceInvariant == AudienceTypeOK /\ Transactions

\* What the actions say of a session, said of its record.
LEMMA SessionReads ==
  ASSUME NEW s
  PROVE  /\ \A label : TypistAt(s, label) <=> session[s].pc = label
         /\ HoldsIdentity(s) <=> Holds(session[s])
         /\ ThisMetric(s) = MetricOf(session[s]) /\ ThisDate(s) = session[s].submission.date
         /\ NewRow(s) = RowOf(session[s])
         /\ NextAfter(s) = NextFigure(session[s].submission, session[s].at)
         /\ \A t : SameIdentity(s, t) <=> Identity(session[s]) = Identity(session[t])
         /\ IndexAllows(s) <=> KeyOf(figures, MetricOf(session[s]), session[s].submission.date)
                                  \in {NoRow, session[s].previous}
  BY KeyOfIsCurrentKey DEF TypistAt, HoldsIdentity, Holds, ThisMetric, MetricOf, ThisDate,
     NewRow, RowOf, NextAfter, SameIdentity, Identity, IndexAllows

\* Nothing but sessions and keys moved.
Still == UNCHANGED <<today, figures, submitted, lists, revisions, smaily, lookup>>

LEMMA TableStands ==
  ASSUME AudienceInvariant, figures' = figures, submitted' = submitted, revisions' = revisions,
         nextKey' \in Nat, nextKey <= nextKey'
  PROVE  /\ TableIsSound' /\ RowsAreRecorded' /\ CorrectionsFormALine' /\ SubmittedOnce'
         /\ FiguresMatchReading'
<1>1. /\ TableIsSound /\ RowsAreRecorded /\ CorrectionsFormALine /\ SubmittedOnce
      /\ FiguresMatchReading /\ figures \subseteq Row /\ nextKey \in Nat
  BY AudienceAssumption DEF AudienceInvariant, Transactions, AudienceTypeOK
<1>2. \A r \in figures : r.key \in Nat
  BY <1>1, AudienceAssumption DEF Row
<1>3. TableIsSound'
  <2>1. \A r \in figures : r.key < nextKey'
    BY <1>1, <1>2 DEF TableIsSound
  <2> QED
    BY <1>1, <2>1 DEF TableIsSound
<1>4. RowsAreRecorded'
  BY <1>1 DEF RowsAreRecorded
<1>5. CorrectionsFormALine'
  BY <1>1 DEF CorrectionsFormALine
<1>6. SubmittedOnce'
  BY <1>1 DEF SubmittedOnce
<1>7. FiguresMatchReading'
  BY <1>1 DEF FiguresMatchReading, Shown, HasFigure
<1> QED
  BY <1>3, <1>4, <1>5, <1>6, <1>7

\* The session of one typist moves from session[s] to y.
LEMMA OneMoves ==
  ASSUME AudienceInvariant, NEW s \in Typists, NEW y \in Session,
         session' = [session EXCEPT ![s] = y], Still,
         nextKey' \in 1..(MaxRows + 1), nextKey <= nextKey',
         OneSession(y, figures, nextKey', submitted),
         \A t \in Typists \ {s} : Apart(y, session[t]) /\ Apart(session[t], y)
  PROVE  AudienceInvariant'
<1>1. AudienceTypeOK /\ Sessions
  BY DEF AudienceInvariant, Transactions
<1>2. AudienceTypeOK'
  BY <1>1 DEF AudienceTypeOK, Still
<1>3. nextKey \in Nat /\ nextKey' \in Nat
  BY <1>1, AudienceAssumption DEF AudienceTypeOK
<1>4. session'[s] = y /\ \A t \in Typists \ {s} : session'[t] = session[t]
  BY <1>1 DEF AudienceTypeOK
<1>5. \A t \in Typists : OneSession(session[t], figures, nextKey', submitted)
  BY <1>1, <1>3, Unmoved DEF Sessions
<1>6. Sessions'
  <2>1. \A t \in Typists : OneSession(session'[t], figures', nextKey', submitted')
    BY <1>4, <1>5 DEF Still
  <2>2. \A t, u \in Typists : t # u => Apart(session'[t], session'[u])
    BY <1>1, <1>4 DEF Sessions
  <2> QED
    BY <2>1, <2>2 DEF Sessions
<1>7. /\ TableIsSound' /\ RowsAreRecorded' /\ CorrectionsFormALine' /\ SubmittedOnce'
      /\ FiguresMatchReading'
  BY <1>3, TableStands DEF Still
<1> QED
  BY <1>2, <1>6, <1>7 DEF AudienceInvariant, Transactions

\* A request ends, or has not begun to write.
LEMMA SessionTyped ==
  /\ IdleSession \in Session
  /\ \A sub \in Submissions : [IdleSession EXCEPT !.pc = "batch", !.submission = sub] \in Session
<1>1. /\ 0 \in 0..MaxRows /\ 0 \in 0..Len(Social) /\ NoRow \in 0..MaxRows
  BY Places, AudienceAssumption DEF NoRow
<1> QED
  BY <1>1 DEF IdleSession, Session

LEMMA EndsQuietly ==
  ASSUME AudienceInvariant, NEW s \in Typists, Still, nextKey' = nextKey,
         session' = [session EXCEPT ![s] = IdleSession]
  PROVE  AudienceInvariant'
<1>1. nextKey' \in 1..(MaxRows + 1) /\ nextKey <= nextKey'
  BY AudienceAssumption DEF AudienceInvariant, AudienceTypeOK
<1> QED
  BY <1>1, IdleIsQuiet, SessionTyped, OneMoves

LEMMA ConfirmStep ==
  ASSUME AudienceInvariant, NEW s \in Typists, NEW sub \in Submissions, ConfirmFigures(s, sub)
  PROVE  AudienceInvariant'
<1> DEFINE y == [IdleSession EXCEPT !.pc = "batch", !.submission = sub]
<1>1. y \in Session
  BY SessionTyped
<1>2. y.pc = "batch" /\ y.submission = sub /\ y.mine = {} /\ y.locked = {}
  BY DEF IdleSession
<1>3. session' = [session EXCEPT ![s] = y] /\ Still /\ nextKey' = nextKey
  BY DEF ConfirmFigures, Still, smailyVars
<1>4. Supplied(sub) # {} /\ sub.date <= today
  BY DEF ConfirmFigures, Acceptable
<1>5. sub.date \in Day
  <2>1. sub.date \in Nat \ {0} /\ today \in Day /\ LastDay \in Nat
    BY AudienceAssumption DEF AudienceInvariant, AudienceTypeOK
  <2> QED
    BY <1>4, <2>1 DEF Day
<1> HIDE DEF y
<1>6. Asked(y)
  BY <1>2, <1>4, <1>5 DEF Asked
<1>7. /\ OneSession(y, figures, nextKey', submitted)
      /\ \A t \in Typists \ {s} : Apart(y, session[t]) /\ Apart(session[t], y)
  BY <1>2, <1>6, Quiet
<1>8. nextKey' \in 1..(MaxRows + 1) /\ nextKey <= nextKey'
  BY <1>3, AudienceAssumption DEF AudienceInvariant, AudienceTypeOK
<1> QED
  BY <1>1, <1>3, <1>7, <1>8, OneMoves

\* What the invariant says of the session that moves, and of the others.
LEMMA OfSession ==
  ASSUME AudienceInvariant, NEW s \in Typists
  PROVE  /\ session[s] \in Session /\ OneSession(session[s], figures, nextKey, submitted)
         /\ \A t \in Typists \ {s} : /\ Apart(session[s], session[t]) /\ Apart(session[t], session[s])
                                     /\ OneSession(session[t], figures, nextKey, submitted)
         /\ nextKey \in 1..(MaxRows + 1) /\ nextKey \in Nat /\ MaxRows \in Nat
         /\ figures \subseteq Row /\ TableIsSound /\ CorrectionsFormALine
         /\ session \in [Typists -> Session]
  BY AudienceAssumption DEF AudienceInvariant, AudienceTypeOK, Transactions, Sessions

LEMMA CreateStep ==
  ASSUME AudienceInvariant, NEW s \in Typists, CreateBatch(s)
  PROVE  AudienceInvariant'
<1> DEFINE x == session[s]
           y == [x EXCEPT !.pc = "look", !.key = nextKey, !.at = NextFigure(x.submission, 0)]
<1>1. CASE Identity(x) \in submitted
  <2>1. session' = [session EXCEPT ![s] = IdleSession] /\ nextKey' = nextKey /\ Still
    BY <1>1 DEF CreateBatch, Identity, Still, smailyVars
  <2> QED
    BY <2>1, EndsQuietly
<1>2. CASE Identity(x) \notin submitted
  <2>1. x \in Session /\ session \in [Typists -> Session]
    BY OfSession
  <2>2. session' = [session EXCEPT ![s].pc = "look", ![s].key = nextKey,
                                   ![s].at = NextFigure(session[s].submission, 0)]
        /\ nextKey' = nextKey + 1 /\ Still /\ nextKey <= MaxRows
    BY <1>2 DEF CreateBatch, Identity, Still, smailyVars
  <2>3. session' = [session EXCEPT ![s] = y]
    BY <2>1, <2>2
  <2>4. nextKey \in 1..MaxRows /\ nextKey' \in 1..(MaxRows + 1) /\ nextKey <= nextKey'
    BY <2>2, OfSession
  <2>5. NextFigure(x.submission, 0) \in 0..Len(Social)
    <3>1. 0 \in 0..Len(Social)
      BY Places
    <3> QED
      BY <3>1, NextFigureIs
  <2>6. y \in Session
    <3>1. nextKey \in 0..MaxRows
      BY <2>4, OfSession
    <3> QED
      BY <2>1, <2>5, <3>1 DEF Session
  <2>7. /\ y.pc = "look" /\ y.key = nextKey /\ y.at = NextFigure(x.submission, 0)
        /\ y.submission = x.submission /\ y.mine = x.mine /\ y.locked = x.locked
    BY <2>1 DEF Session
  <2>8. x.pc = "batch" /\ \A t \in Typists \ {s} :
           Holds(session[t]) => Identity(session[t]) # Identity(x)
    BY SessionReads DEF CreateBatch
  <2>9. \A r \in figures : r.key < nextKey /\ r.key \in Nat
    BY OfSession DEF TableIsSound, Row
  <2> HIDE DEF y, x
  <2>10. OneSession(x, figures, nextKey, submitted)
         /\ \A t \in Typists \ {s} : OneSession(session[t], figures, nextKey, submitted)
    BY OfSession DEF x
  <2>11. /\ OneSession(y, figures, nextKey + 1, submitted)
         /\ \A z : /\ Holds(z) => Identity(z) # Identity(x)
                   /\ OneSession(z, figures, nextKey, submitted)
                   => Apart(y, z) /\ Apart(z, y)
    BY <1>2, <2>1, <2>4, <2>7, <2>8, <2>9, <2>10, Created
  <2>12. \A t \in Typists \ {s} : Apart(y, session[t]) /\ Apart(session[t], y)
    BY <2>8, <2>10, <2>11
  <2> QED
    BY <2>2, <2>3, <2>4, <2>6, <2>11, <2>12, OneMoves
<1> QED
  BY <1>1, <1>2

LEMMA LookStep ==
  ASSUME AudienceInvariant, NEW s \in Typists, LookForCurrent(s)
  PROVE  AudienceInvariant'
<1> DEFINE x == session[s]
           k == CurrentKey(ThisMetric(s), ThisDate(s))
           y == [x EXCEPT !.pc = "lock", !.seen = k]
<1>1. x \in Session /\ session \in [Typists -> Session]
  BY OfSession
<1>2. k \in 0..MaxRows
  BY OfSession, CurrentKeyIs
<1>3. session' = [session EXCEPT ![s].pc = "lock", ![s].seen = k]
      /\ nextKey' = nextKey /\ Still /\ x.pc = "look"
  BY DEF LookForCurrent, TypistAt, Still, smailyVars
<1> HIDE DEF k
<1>4. session' = [session EXCEPT ![s] = y]
  BY <1>1, <1>3
<1>5. y \in Session
  BY <1>1, <1>2 DEF Session
<1>6. /\ y.pc = "lock" /\ y.key = x.key /\ y.at = x.at
      /\ y.submission = x.submission /\ y.mine = x.mine /\ y.locked = x.locked
  BY <1>1 DEF Session
<1> HIDE DEF y
<1>7. /\ OneSession(x, figures, nextKey, submitted)
      /\ \A t \in Typists \ {s} : Apart(x, session[t]) /\ Apart(session[t], x)
      /\ nextKey' \in 1..(MaxRows + 1) /\ nextKey <= nextKey'
  BY <1>3, OfSession
<1> HIDE DEF x
<1>8. /\ OneSession(y, figures, nextKey', submitted)
      /\ \A t \in Typists \ {s} : Apart(y, session[t]) /\ Apart(session[t], y)
  BY <1>3, <1>6, <1>7, Looked
<1> QED
  BY <1>3, <1>4, <1>5, <1>7, <1>8, OneMoves

LEMMA LockStep ==
  ASSUME AudienceInvariant, NEW s \in Typists, LockCurrent(s)
  PROVE  AudienceInvariant'
<1> DEFINE x == session[s]
           k == StillCurrent(s)
           row == SeenRow(s)
           y == [x EXCEPT !.pc = "insert", !.previous = k, !.locked = x.locked \cup row]
<1>1. x \in Session /\ session \in [Typists -> Session]
  BY OfSession
<1>2. k = RowHeld(x, figures) /\ row = RowSeen(x)
  BY SessionReads, KeyOfIsCurrentKey DEF StillCurrent, SeenRow, RowHeld, RowSeen
<1>3. session' = [session EXCEPT ![s].pc = "insert", ![s].previous = k, ![s].locked = @ \cup row]
      /\ nextKey' = nextKey /\ Still /\ x.pc = "lock"
      /\ \A t \in Typists \ {s} : row \cap session[t].locked = {}
  BY DEF LockCurrent, TypistAt, Still, smailyVars
<1>4. x.seen \in 0..MaxRows /\ x.locked \subseteq SocialMetric \X (1..MaxRows)
  BY <1>1, SessionFields
<1>5. k \in 0..MaxRows
  BY <1>2, <1>4, AudienceAssumption DEF RowHeld, NoRow
<1>6. row \subseteq SocialMetric \X (1..MaxRows)
  <2>1. Holds(x)
    BY <1>3 DEF Holds
  <2>2. x.at \in DOMAIN Social
    BY <2>1, OfSession DEF OneSession, KeyIsOwn
  <2>3. MetricOf(x) \in SocialMetric
    BY <2>2, Places DEF MetricOf
  <2>4. x.seen # NoRow => x.seen \in 1..MaxRows
    BY <1>4, AudienceAssumption DEF NoRow
  <2> QED
    BY <1>2, <2>3, <2>4 DEF RowSeen
<1> HIDE DEF k, row
<1>7. session' = [session EXCEPT ![s] = y]
  BY <1>1, <1>3
<1>8. y \in Session
  BY <1>1, <1>4, <1>5, <1>6 DEF Session
<1>9. /\ y.pc = "insert" /\ y.key = x.key /\ y.at = x.at /\ y.previous = k
      /\ y.submission = x.submission /\ y.mine = x.mine /\ y.locked = x.locked \cup row
  BY <1>1 DEF Session
<1> HIDE DEF y
<1>10. /\ OneSession(x, figures, nextKey, submitted)
       /\ \A t \in Typists \ {s} : Apart(x, session[t]) /\ Apart(session[t], x)
       /\ nextKey' \in 1..(MaxRows + 1) /\ nextKey <= nextKey'
  BY <1>3, OfSession
<1> HIDE DEF x
<1>11. /\ OneSession(y, figures, nextKey, submitted)
       /\ \A z : Apart(x, z) /\ Apart(z, x) /\ row \cap z.locked = {}
                  => Apart(y, z) /\ Apart(z, y)
  <2>1. x.pc = "lock" /\ OneSession(x, figures, nextKey, submitted)
    BY <1>3, <1>10
  <2> QED
    BY <1>2, <1>9, <2>1, Locked
<1>12. /\ OneSession(y, figures, nextKey', submitted)
       /\ \A t \in Typists \ {s} : Apart(y, session[t]) /\ Apart(session[t], y)
  BY <1>3, <1>10, <1>11
<1> QED
  BY <1>3, <1>7, <1>8, <1>10, <1>12, OneMoves

\* What lets a transaction write.
LEMMA WriteIsAllowed ==
  ASSUME AudienceInvariant, NEW s \in Typists, MayWrite(s)
  PROVE  /\ session[s].pc = "insert"
         /\ KeyOf(figures, MetricOf(session[s]), session[s].submission.date)
               \in {NoRow, session[s].previous}
         /\ \A t \in Typists \ {s} : \A q \in session[t].mine :
               ~(q.metric = MetricOf(session[s]) /\ q.date = session[s].submission.date)
  BY SessionReads DEF MayWrite, SlotTakenBy

LEMMA WriteStep ==
  ASSUME AudienceInvariant, NEW s \in Typists, WriteFigure(s)
  PROVE  AudienceInvariant'
<1> DEFINE x == session[s]
           k == NextFigure(x.submission, x.at)
           y == [x EXCEPT !.pc = "look", !.at = k, !.mine = x.mine \cup {RowOf(x)},
                          !.seen = NoRow, !.previous = NoRow]
<1>1. x \in Session /\ session \in [Typists -> Session]
  BY OfSession
<1>2. session' = [session EXCEPT ![s].pc = "look", ![s].at = k,
                                 ![s].mine = @ \cup {RowOf(x)},
                                 ![s].seen = NoRow, ![s].previous = NoRow]
      /\ nextKey' = nextKey /\ Still /\ k # 0
  BY SessionReads DEF WriteFigure, Still, smailyVars
<1>3. /\ x.pc = "insert"
      /\ KeyOf(figures, MetricOf(x), x.submission.date) \in {NoRow, x.previous}
      /\ \A t \in Typists \ {s} : \A q \in session[t].mine :
            ~(q.metric = MetricOf(x) /\ q.date = x.submission.date)
  BY WriteIsAllowed DEF WriteFigure
<1>4. /\ OneSession(x, figures, nextKey, submitted) /\ nextKey \in 1..(MaxRows + 1)
      /\ \A t \in Typists \ {s} : Apart(x, session[t]) /\ Apart(session[t], x)
      /\ nextKey' \in 1..(MaxRows + 1) /\ nextKey <= nextKey'
  BY <1>2, OfSession
<1>5. x.at \in 0..Len(Social) /\ x.mine \subseteq Row
  BY <1>1, SessionFields
<1>6. k \in 0..Len(Social)
  BY <1>5, NextFigureIs
<1>7. RowOf(x) \in Row
  <2> HIDE DEF x
  <2> QED
    BY <1>1, <1>3, <1>4, RowIsSound
<1>8. NoRow \in 0..MaxRows
  BY AudienceAssumption DEF NoRow
<1>9. session' = [session EXCEPT ![s] = y]
  <2> HIDE DEF k
  <2> QED
    BY <1>1, <1>2
<1>10. y \in Session
  <2> HIDE DEF k
  <2> QED
    BY <1>1, <1>5, <1>6, <1>7, <1>8 DEF Session
<1>11. /\ y.pc = "look" /\ y.key = x.key /\ y.at = k /\ y.mine = x.mine \cup {RowOf(x)}
       /\ y.submission = x.submission /\ y.locked = x.locked
  BY <1>1 DEF Session
<1> HIDE DEF y, x
<1>12. k = NextFigure(x.submission, x.at)
  OBVIOUS
<1> HIDE DEF k
<1>13. /\ OneSession(y, figures, nextKey, submitted)
       /\ \A z : /\ Apart(x, z) /\ Apart(z, x)
                 /\ \A q \in z.mine : ~(q.metric = MetricOf(x) /\ q.date = x.submission.date)
                 => Apart(y, z) /\ Apart(z, y)
  BY <1>1, <1>2, <1>3, <1>4, <1>11, <1>12, Written
<1>14. /\ OneSession(y, figures, nextKey', submitted)
       /\ \A t \in Typists \ {s} : Apart(y, session[t]) /\ Apart(session[t], y)
  BY <1>2, <1>3, <1>4, <1>13
<1> QED
  BY <1>2, <1>4, <1>9, <1>10, <1>14, OneMoves

\* A publication of typed figures leaves the newsletters as they are.
LEMMA NewslettersStand ==
  ASSUME AudienceInvariant, NEW new, NEW k \in 1..MaxRows, Published(new, k),
         nextKey' \in Nat, nextKey <= nextKey', k < nextKey',
         \A r \in new : r.metric \in SocialMetric, revisions' = revisions
  PROVE  FiguresMatchReading'
<1>1. FiguresMatchReading
  BY DEF AudienceInvariant, Transactions
<1>2. \A m, d : ~Filled(new, m, d) => CurrentRows(figures', m, d) = CurrentRows(figures, m, d)
  BY PublicationIsSound, AudienceAssumption
     DEF AudienceInvariant, Transactions, AudienceTypeOK
<1>3. \A m \in DOMAIN Newsletters, d \in Day : ~Filled(new, m, d)
  BY AudienceAssumption DEF Filled
<1> QED
  BY <1>1, <1>2, <1>3 DEF FiguresMatchReading, Shown, HasFigure

LEMMA CommitStep ==
  ASSUME AudienceInvariant, NEW s \in Typists, WriteLastFigure(s)
  PROVE  AudienceInvariant'
<1> DEFINE x == session[s]
           new == x.mine \cup {RowOf(x)}
<1>1. x \in Session /\ session \in [Typists -> Session]
  BY OfSession
<1>2. /\ NextFigure(x.submission, x.at) = 0
      /\ figures' = PublishObservations(figures, x.mine \cup {RowOf(x)})
      /\ submitted' = submitted \cup {Identity(x)}
      /\ session' = [session EXCEPT ![s] = IdleSession]
      /\ nextKey' = nextKey
      /\ UNCHANGED <<today, lists, revisions, smaily, lookup>>
  BY SessionReads DEF WriteLastFigure, Identity, smailyVars
<1>3. /\ x.pc = "insert"
      /\ KeyOf(figures, MetricOf(x), x.submission.date) \in {NoRow, x.previous}
      /\ \A t \in Typists \ {s} : \A q \in session[t].mine :
            ~(q.metric = MetricOf(x) /\ q.date = x.submission.date)
  BY WriteIsAllowed DEF WriteLastFigure
<1>4. /\ OneSession(x, figures, nextKey, submitted) /\ nextKey \in 1..(MaxRows + 1)
      /\ nextKey \in Nat
      /\ figures \subseteq Row /\ TableIsSound /\ CorrectionsFormALine
  BY OfSession
<1>5. \A t \in Typists \ {s} : /\ Apart(x, session[t])
                               /\ OneSession(session[t], figures, nextKey, submitted)
  BY OfSession
<1>6. RowsAreRecorded /\ SubmittedOnce /\ Sessions /\ AudienceTypeOK
  BY DEF AudienceInvariant, Transactions
<1> HIDE DEF x
<1>7. /\ Published(new, x.key) /\ \A r \in new : r.metric \in SocialMetric
  BY <1>1, <1>2, <1>3, <1>4, CommitPublishes
<1>8. CarriedBy(figures', x.key, Identity(x))
  BY <1>1, <1>2, <1>3, <1>4, CommitCarries
<1>9. Holds(x)
  BY <1>3 DEF Holds
<1>10. x.key \in 1..MaxRows /\ x.key < nextKey /\ Identity(x) \notin submitted
       /\ x.submission \in Submissions
  BY <1>4, <1>9, AudienceAssumption DEF OneSession, KeyIsOwn, Asked, Holds
<1> HIDE DEF new
<1>11. figures' \subseteq Row /\ TableIsSound' /\ CorrectionsFormALine'
  <2>1. nextKey' \in Nat /\ nextKey <= nextKey' /\ x.key < nextKey'
    BY <1>2, <1>4, <1>10
  <2>2. x.key \in 1..MaxRows /\ Published(new, x.key)
    BY <1>7, <1>10
  <2> QED
    BY <1>4, <2>1, <2>2, PublicationIsSound
<1>12. RowsAreRecorded' /\ SubmittedOnce'
  <2>1. submitted' \subseteq {ContentIdentity(sub) : sub \in Submissions}
    BY <1>2, <1>6, <1>10 DEF RowsAreRecorded, Identity
  <2>2. Identity(x) \in submitted' \ submitted /\ submitted \subseteq submitted'
    BY <1>2, <1>10
  <2> QED
    BY <1>4, <1>6, <1>7, <1>8, <2>1, <2>2, PublicationIsRecorded
<1>13. \A t \in Typists \ {s} : OneSession(session[t], figures', nextKey', submitted')
  <2> SUFFICES ASSUME NEW t \in Typists \ {s}
               PROVE  OneSession(session[t], figures', nextKey', submitted')
    OBVIOUS
  <2>1. OneSession(session[t], figures', nextKey, submitted \cup {Identity(x)})
    BY <1>1, <1>2, <1>3, <1>4, <1>5, OthersStand
  <2> QED
    BY <1>2, <2>1
<1>14. Sessions'
  <2>1. session'[s] = IdleSession /\ \A t \in Typists \ {s} : session'[t] = session[t]
    BY <1>1, <1>2
  <2>2. \A t \in Typists : OneSession(session'[t], figures', nextKey', submitted')
    BY <1>13, <2>1, IdleIsQuiet
  <2>3. \A t, u \in Typists : t # u => Apart(session'[t], session'[u])
    BY <1>6, <2>1, IdleIsQuiet DEF Sessions
  <2> QED
    BY <2>2, <2>3 DEF Sessions
<1>15. FiguresMatchReading'
  BY <1>2, <1>4, <1>7, <1>10, NewslettersStand
<1>16. AudienceTypeOK'
  BY <1>1, <1>2, <1>4, <1>6, <1>11, SessionTyped DEF AudienceTypeOK
<1> QED
  BY <1>11, <1>12, <1>14, <1>15, <1>16 DEF AudienceInvariant, Transactions

LEMMA IdleLookupTyped ==
  IdleLookup \in [pc : {"idle", "request", "publish"}, day : Day, dry_run : BOOLEAN,
                  attempt : 0..MaxAttempts, got : Readings]
<1>1. 1 \in Day /\ 0 \in 0..MaxAttempts
  BY AudienceAssumption DEF Day
<1>2. (CHOOSE r \in Readings : TRUE) \in Readings
  BY AudienceAssumption
<1> QED
  BY <1>1, <1>2 DEF IdleLookup

\* The reading of a day is a publication, of metrics nobody types.
LEMMA ReadingStep ==
  ASSUME AudienceInvariant, PublishReading
  PROVE  AudienceInvariant'
<1> DEFINE d == lookup.day
           got == lookup.got
           moved == Moved(got, d)
           new == {NewsletterRow(got, m, d, nextKey) : m \in moved}
<1>1. /\ AudienceTypeOK /\ RowsAreRecorded /\ SubmittedOnce /\ Sessions /\ FiguresMatchReading
      /\ TableIsSound /\ CorrectionsFormALine /\ figures \subseteq Row
      /\ nextKey \in 1..(MaxRows + 1) /\ nextKey \in Nat
  BY AudienceAssumption DEF AudienceInvariant, Transactions, AudienceTypeOK
<1>2. d \in Day /\ got \in Readings
  BY <1>1 DEF AudienceTypeOK
<1>3. /\ nextKey <= MaxRows /\ nextKey' = nextKey + 1
      /\ figures' = PublishObservations(figures, new)
      /\ revisions' = [revisions EXCEPT ![d] = Append(@, got)]
      /\ smaily' = [last_result |-> "imported", last_period_end |-> d]
      /\ lookup' = IdleLookup
      /\ today' = today /\ lists' = lists /\ submitted' = submitted /\ session' = session
  BY DEF PublishReading, typedVars
<1>4. nextKey \in 1..MaxRows /\ nextKey' \in Nat /\ nextKey <= nextKey' /\ nextKey < nextKey'
      /\ nextKey' \in 1..(MaxRows + 1)
  BY <1>1, <1>3, AudienceAssumption
<1>5. moved = {m \in DOMAIN Newsletters : IsAvailable(got, m) /\ ~HasFigure(m, d, Total(got, m))}
  BY DEF Moved
<1>6. ASSUME NEW m
      PROVE  LET n == NewsletterRow(got, m, d, nextKey)
             IN  /\ n.key = nextKey /\ n.metric = m /\ n.date = d /\ n.value = Total(got, m)
                 /\ n.supersedes = CurrentKey(m, d) /\ n.current
  BY DEF NewsletterRow
<1> HIDE DEF moved
<1>7. \A n \in new : \E m \in moved :
         /\ n.key = nextKey /\ n.metric = m /\ n.date = d /\ n.value = Total(got, m)
         /\ n.supersedes = CurrentKey(m, d) /\ n.current
         /\ n = NewsletterRow(got, m, d, nextKey)
  BY <1>6
<1>8. \A m \in moved : \E n \in new :
         n.metric = m /\ n.date = d /\ n.value = Total(got, m) /\ n.current
  BY <1>6
<1>9. new \subseteq Row
  <2> SUFFICES ASSUME NEW m \in moved
               PROVE  NewsletterRow(got, m, d, nextKey) \in Row
    OBVIOUS
  <2>1. CurrentKey(m, d) \in 0..MaxRows
    BY <1>1, CurrentKeyIs
  <2>2. m \in Metric /\ Total(got, m) \in Value
    BY <1>2, <1>5 DEF Metric, Value
  <2> HIDE DEF d, got
  <2> QED
    BY <1>2, <1>4, <2>1, <2>2 DEF NewsletterRow, Row
<1> HIDE DEF new
<1>10. Published(new, nextKey)
  <2>1. \A n \in new : n.key = nextKey /\ n.current /\ n.supersedes = CurrentKey(n.metric, n.date)
    BY <1>7
  <2>2. \A n1, n2 \in new : n1.metric = n2.metric => n1 = n2
    BY <1>7
  <2>3. \A r \in figures : r.key # nextKey
    BY <1>1 DEF TableIsSound, Row
  <2> QED
    BY <1>3, <1>9, <2>1, <2>2, <2>3 DEF Published
<1>11. \A n \in new : n.metric \in DOMAIN Newsletters /\ n.metric \notin SocialMetric
  BY <1>5, <1>7, AudienceAssumption
<1>12. /\ figures' \subseteq Row /\ TableIsSound' /\ CorrectionsFormALine'
       /\ \A q \in new : q \in figures'
       /\ \A m, e : ~Filled(new, m, e) => CurrentRows(figures', m, e) = CurrentRows(figures, m, e)
  BY <1>1, <1>4, <1>10, PublicationIsSound, PublishedRows
<1>13. RowsAreRecorded' /\ SubmittedOnce'
  BY <1>1, <1>3, <1>10, <1>11, PublicationIsRecorded DEF RowsAreRecorded
<1>14. ASSUME NEW t \in Typists
       PROVE  OneSession(session[t], figures', nextKey', submitted')
  <2> DEFINE z == session[t]
  <2>1. OneSession(z, figures, nextKey, submitted) /\ z \in Session
    BY <1>1 DEF Sessions, AudienceTypeOK
  <2>2. Holds(z) => /\ z.key # nextKey /\ Identity(z) \notin submitted'
                    /\ MetricOf(z) \in SocialMetric
    BY <1>1, <1>3, <2>1, Places DEF OneSession, KeyIsOwn, MetricOf
  <2>3. \A r \in z.mine : r.metric \in SocialMetric
    <3>1. \A r \in z.mine : Holds(z) /\ r.metric \in Supplied(z.submission)
      BY <2>1 DEF OneSession, NothingHeld, WrittenSoFar
    <3>2. Holds(z) => Supplied(z.submission) \subseteq SocialMetric
      BY <2>1, AudienceAssumption DEF OneSession, Asked, Holds, Supplied
    <3> QED
      BY <3>1, <3>2
  <2> HIDE DEF z
  <2>4. \A r \in z.mine : ~Filled(new, r.metric, r.date)
    BY <1>11, <2>3 DEF Filled
  <2>5. z.pc = "insert" /\ z.previous # NoRow => ~Filled(new, MetricOf(z), z.submission.date)
    BY <1>11, <2>2 DEF Filled, Holds
  <2>6. OneSession(z, figures', nextKey', submitted')
    BY <1>1, <1>4, <1>10, <2>1, <2>2, <2>4, <2>5, Undisturbed
  <2> QED
    BY <2>6 DEF z
<1>15. Sessions'
  BY <1>1, <1>3, <1>14 DEF Sessions
<1>16. FiguresMatchReading'
  <2> SUFFICES ASSUME NEW e \in Day, NEW reading \in Shown(e)', NEW m \in DOMAIN Newsletters,
                      IsAvailable(reading, m)
               PROVE  \E r \in CurrentRows(figures', m, e) : r.value = Total(reading, m)
    BY DEF FiguresMatchReading, HasFigure
  <2>1. CASE Filled(new, m, e)
    <3>1. PICK n \in new : n.metric = m /\ n.date = e
      BY <2>1 DEF Filled
    <3>2. e = d /\ n.value = Total(got, m) /\ n.current
      BY <1>7, <3>1
    <3>3. reading = got
      <4>1. revisions'[d] = Append(revisions[d], got)
        BY <1>1, <1>2, <1>3 DEF AudienceTypeOK
      <4>2. revisions[d] \in Seq(Readings)
        BY <1>1, <1>2 DEF AudienceTypeOK
      <4>3. /\ Append(revisions[d], got) # <<>>
            /\ Append(revisions[d], got)[Len(Append(revisions[d], got))] = got
        BY <1>2, <4>2
      <4> QED
        BY <3>2, <4>1, <4>3 DEF Shown
    <3> QED
      BY <1>12, <3>1, <3>2, <3>3 DEF CurrentRows
  <2>2. CASE ~Filled(new, m, e) /\ e # d
    <3>1. revisions'[e] = revisions[e]
      BY <1>1, <1>3, <2>2 DEF AudienceTypeOK
    <3>2. reading \in Shown(e)
      BY <3>1 DEF Shown
    <3>3. HasFigure(m, e, Total(reading, m))
      BY <1>1, <3>2 DEF FiguresMatchReading
    <3> QED
      BY <1>12, <2>2, <3>3 DEF HasFigure
  <2>3. CASE ~Filled(new, m, e) /\ e = d
    <3>1. m \notin moved
      BY <1>8, <2>3 DEF Filled
    <3>2. reading = got
      <4>1. revisions'[d] = Append(revisions[d], got)
        BY <1>1, <1>2, <1>3 DEF AudienceTypeOK
      <4>2. revisions[d] \in Seq(Readings)
        BY <1>1, <1>2 DEF AudienceTypeOK
      <4>3. /\ Append(revisions[d], got) # <<>>
            /\ Append(revisions[d], got)[Len(Append(revisions[d], got))] = got
        BY <1>2, <4>2
      <4> QED
        BY <2>3, <4>1, <4>3 DEF Shown
    <3>3. HasFigure(m, d, Total(got, m))
      BY <1>5, <3>1, <3>2
    <3> QED
      BY <1>12, <2>3, <3>2, <3>3 DEF HasFigure
  <2> QED
    BY <2>1, <2>2, <2>3
<1>17. AudienceTypeOK'
  <2>1. revisions' \in [Day -> Seq(Readings)]
    <3>1. Append(revisions[d], got) \in Seq(Readings)
      BY <1>1, <1>2 DEF AudienceTypeOK
    <3> QED
      BY <1>1, <1>2, <1>3, <3>1 DEF AudienceTypeOK
  <2>2. smaily' \in [last_result : {"never_run", "imported", "unchanged", "failed"},
                     last_period_end : 0..LastDay]
    BY <1>2, <1>3 DEF Day
  <2>3. today' \in Day /\ lists' \in Readings /\ session' \in [Typists -> Session]
    BY <1>1, <1>3 DEF AudienceTypeOK
  <2>4. lookup' \in [pc : {"idle", "request", "publish"}, day : Day, dry_run : BOOLEAN,
                     attempt : 0..MaxAttempts, got : Readings]
    BY <1>3, IdleLookupTyped
  <2> QED
    BY <1>4, <1>12, <2>1, <2>2, <2>3, <2>4 DEF AudienceTypeOK
<1> QED
  BY <1>12, <1>13, <1>15, <1>16, <1>17 DEF AudienceInvariant, Transactions

\* The steps that publish nothing and belong to no typist.
LEMMA QuietStep ==
  ASSUME AudienceInvariant, AudienceTypeOK', UNCHANGED <<figures, nextKey, typedVars, revisions>>
  PROVE  AudienceInvariant'
<1>1. figures' = figures /\ nextKey' = nextKey /\ submitted' = submitted /\ session' = session
      /\ revisions' = revisions
  BY DEF typedVars
<1>2. nextKey' \in Nat /\ nextKey <= nextKey'
  BY <1>1, OfSession, AudienceAssumption DEF AudienceInvariant, AudienceTypeOK
<1>3. /\ TableIsSound' /\ RowsAreRecorded' /\ CorrectionsFormALine' /\ SubmittedOnce'
      /\ FiguresMatchReading'
  BY <1>1, <1>2, TableStands
<1>4. Sessions'
  BY <1>1 DEF AudienceInvariant, Transactions, Sessions
<1> QED
  BY <1>3, <1>4 DEF AudienceInvariant, Transactions

LEMMA DayStep ==
  ASSUME AudienceInvariant, DayEnds
  PROVE  AudienceInvariant'
<1>1. AudienceTypeOK
  BY DEF AudienceInvariant
<1>2. AudienceTypeOK'
  BY <1>1, AudienceAssumption DEF AudienceTypeOK, DayEnds, Day, typedVars, smailyVars
<1> QED
  BY <1>2, QuietStep DEF DayEnds, smailyVars

LEMMA ListsStep ==
  ASSUME AudienceInvariant, ListsNext
  PROVE  AudienceInvariant'
<1>1. AudienceTypeOK /\ lookup.day \in Day /\ lookup.day \in 0..LastDay
  BY AudienceAssumption DEF AudienceInvariant, AudienceTypeOK, Day
<1>2. ASSUME NEW reading \in Readings, ListsChange(reading)
      PROVE  AudienceInvariant'
  <2>1. AudienceTypeOK'
    BY <1>1, <1>2 DEF AudienceTypeOK, ListsChange, typedVars, smailyVars
  <2> QED
    BY <1>2, <2>1, QuietStep DEF ListsChange, smailyVars
<1>3. ASSUME NEW dryRun \in BOOLEAN, BeginSync(dryRun)
      PROVE  AudienceInvariant'
  <2>1. [IdleLookup EXCEPT !.pc = "request", !.day = today, !.dry_run = dryRun] \in
           [pc : {"idle", "request", "publish"}, day : Day, dry_run : BOOLEAN,
            attempt : 0..MaxAttempts, got : Readings]
    BY <1>1, IdleLookupTyped DEF AudienceTypeOK
  <2>2. AudienceTypeOK'
    BY <1>1, <1>3, <2>1 DEF AudienceTypeOK, BeginSync, typedVars
  <2> QED
    BY <1>3, <2>2, QuietStep DEF BeginSync
<1>4. CASE RetryRequest
  <2>1. lookup.attempt + 1 \in 0..MaxAttempts
    BY <1>1, <1>4, AudienceAssumption DEF AudienceTypeOK, RetryRequest
  <2>2. AudienceTypeOK'
    BY <1>1, <1>4, <2>1 DEF AudienceTypeOK, RetryRequest, typedVars
  <2> QED
    BY <1>4, <2>2, QuietStep DEF RetryRequest
<1>5. CASE RequestFails
  <2>1. AudienceTypeOK'
    BY <1>1, <1>5, IdleLookupTyped DEF AudienceTypeOK, RequestFails, Failed, typedVars
  <2> QED
    BY <1>5, <2>1, QuietStep DEF RequestFails
<1>6. CASE CollectSegments
  <2>1. AudienceTypeOK'
    BY <1>1, <1>6 DEF AudienceTypeOK, CollectSegments, typedVars
  <2> QED
    BY <1>6, <2>1, QuietStep DEF CollectSegments
<1>7. CASE FinishUnchanged
  <2>1. AudienceTypeOK'
    BY <1>1, <1>7, IdleLookupTyped DEF AudienceTypeOK, FinishUnchanged, typedVars
  <2> QED
    BY <1>7, <2>1, QuietStep DEF FinishUnchanged
<1>8. CASE FinishDryRun
  <2>1. AudienceTypeOK'
    BY <1>1, <1>8, IdleLookupTyped DEF AudienceTypeOK, FinishDryRun, typedVars
  <2> QED
    BY <1>8, <2>1, QuietStep DEF FinishDryRun
<1>9. CASE PublishReading
  BY <1>9, ReadingStep
<1>10. CASE PublishFails
  <2>1. AudienceTypeOK'
    BY <1>1, <1>10, IdleLookupTyped DEF AudienceTypeOK, PublishFails, Failed, typedVars
  <2> QED
    BY <1>10, <2>1, QuietStep DEF PublishFails
<1>11. CASE CrashSync
  <2>1. AudienceTypeOK'
    BY <1>1, <1>11, IdleLookupTyped DEF AudienceTypeOK, CrashSync, typedVars
  <2> QED
    BY <1>11, <2>1, QuietStep DEF CrashSync
<1> QED
  BY <1>2, <1>3, <1>4, <1>5, <1>6, <1>7, <1>8, <1>9, <1>10, <1>11 DEF ListsNext

LEMMA RollBackStep ==
  ASSUME AudienceInvariant, NEW s \in Typists, RollBack(s)
  PROVE  AudienceInvariant'
<1>1. session' = [session EXCEPT ![s] = IdleSession] /\ nextKey' = nextKey /\ Still
  BY DEF RollBack, Still, smailyVars
<1> QED
  BY <1>1, EndsQuietly

LEMMA TypedStep ==
  ASSUME AudienceInvariant, TypedNext
  PROVE  AudienceInvariant'
<1>1. PICK s \in Typists :
         \/ \E submission \in Submissions : ConfirmFigures(s, submission)
         \/ CreateBatch(s) \/ LookForCurrent(s) \/ LockCurrent(s)
         \/ WriteFigure(s) \/ WriteLastFigure(s) \/ RollBack(s)
  BY DEF TypedNext
<1>2. ASSUME NEW submission \in Submissions, ConfirmFigures(s, submission)
      PROVE  AudienceInvariant'
  BY <1>2, ConfirmStep
<1>3. CASE CreateBatch(s)
  BY <1>3, CreateStep
<1>4. CASE LookForCurrent(s)
  BY <1>4, LookStep
<1>5. CASE LockCurrent(s)
  BY <1>5, LockStep
<1>6. CASE WriteFigure(s)
  BY <1>6, WriteStep
<1>7. CASE WriteLastFigure(s)
  BY <1>7, CommitStep
<1>8. CASE RollBack(s)
  BY <1>8, RollBackStep
<1> QED
  BY <1>1, <1>2, <1>3, <1>4, <1>5, <1>6, <1>7, <1>8

LEMMA InvariantInitially ==
  AudienceInit => AudienceInvariant
<1> SUFFICES ASSUME AudienceInit
             PROVE  AudienceInvariant
  OBVIOUS
<1>1. figures = {} /\ submitted = {} /\ nextKey = 1 /\ session = [s \in Typists |-> IdleSession]
      /\ revisions = [d \in Day |-> <<>>] /\ lookup = IdleLookup
  BY DEF AudienceInit
<1>2. AudienceTypeOK
  <2>1. 1 \in Day /\ 1 \in 1..(MaxRows + 1) /\ 0 \in 0..LastDay
    BY AudienceAssumption DEF Day
  <2>2. revisions \in [Day -> Seq(Readings)]
    BY <1>1
  <2> QED
    BY <1>1, <2>1, <2>2, SessionTyped, IdleLookupTyped DEF AudienceInit, AudienceTypeOK
<1>3. TableIsSound /\ RowsAreRecorded
  BY <1>1 DEF TableIsSound, RowsAreRecorded
<1>4. Sessions
  BY <1>1, IdleIsQuiet DEF Sessions
<1>5. CorrectionsFormALine /\ SubmittedOnce
  BY <1>1 DEF CorrectionsFormALine, SubmittedOnce
<1>6. FiguresMatchReading
  BY <1>1 DEF FiguresMatchReading, Shown
<1> QED
  BY <1>2, <1>3, <1>4, <1>5, <1>6 DEF AudienceInvariant, Transactions

-----------------------------------------------------------------------------
(* No circle of waiting requests. *)

\* How far a transaction has come: the batch, then each figure's look, lock and
\* insert.
Rank(x) ==
    IF x.pc = "look" THEN 3 * x.at
    ELSE IF x.pc = "lock" THEN 3 * x.at + 1
    ELSE IF x.pc = "insert" THEN 3 * x.at + 2 ELSE 0

LEMMA RankIsBounded ==
  ASSUME NEW x \in Session
  PROVE  Rank(x) \in Nat /\ 3 * Len(Social) + 2 - Rank(x) \in Nat
<1>1. x.at \in 0..Len(Social) /\ Len(Social) \in Nat
  BY SessionFields, Places
<1>2. 3 * x.at \in Nat /\ 3 * x.at <= 3 * Len(Social)
  BY <1>1
<1> DEFINE a == 3 * x.at
           l == 3 * Len(Social)
<1>3. a \in Nat /\ l \in Nat /\ a <= l
  BY <1>1, <1>2
<1>4. Rank(x) = a \/ Rank(x) = a + 1 \/ Rank(x) = a + 2 \/ Rank(x) = 0
  BY DEF Rank
<1> HIDE DEF a, l
<1>5. Rank(x) \in Nat /\ l + 2 - Rank(x) \in Nat
  BY <1>3, <1>4
<1> QED
  BY <1>5 DEF l

\* Whoever is waited for has come further.
LEMMA WaitsForTheFurther ==
  ASSUME AudienceInvariant, NEW s \in Typists, NEW t \in Typists, Waits(s, t)
  PROVE  Rank(session[s]) < Rank(session[t])
<1> DEFINE x == session[s]
           y == session[t]
<1> SUFFICES Rank(x) < Rank(y)
  OBVIOUS
<1>1. /\ OneSession(x, figures, nextKey, submitted) /\ OneSession(y, figures, nextKey, submitted)
      /\ x \in Session /\ y \in Session
  BY OfSession
<1>2. /\ TypistAt(s, "batch") <=> x.pc = "batch"
      /\ TypistAt(s, "lock") <=> x.pc = "lock"
      /\ TypistAt(s, "insert") <=> x.pc = "insert"
      /\ HoldsIdentity(t) <=> Holds(y)
      /\ SeenRow(s) = RowSeen(x)
      /\ SlotTakenBy(t, ThisMetric(s), ThisDate(s))
            => \E r \in y.mine : r.metric = MetricOf(x)
  BY SessionReads DEF SeenRow, RowSeen, SlotTakenBy
<1>3. \/ x.pc = "batch" /\ Holds(y)
      \/ x.pc = "lock" /\ RowSeen(x) \cap y.locked # {}
      \/ x.pc = "insert" /\ \E r \in y.mine : r.metric = MetricOf(x)
  BY <1>2 DEF Waits
<1>4. /\ x.at \in 0..Len(Social) /\ y.at \in 0..Len(Social) /\ Len(Social) \in Nat
      /\ x.pc \in {"idle", "batch", "look", "lock", "insert"}
      /\ y.pc \in {"idle", "batch", "look", "lock", "insert"}
  BY <1>1, SessionFields, Places
<1> HIDE DEF x, y
<1>5. Holds(y)
  <2>1. y.mine # {} \/ y.locked # {} => Holds(y)
    BY <1>1 DEF OneSession, NothingHeld
  <2> QED
    BY <1>3, <2>1
<1>6. /\ x.at \in Nat /\ y.at \in Nat /\ y.at >= 1 /\ Rank(y) \in Nat /\ Rank(y) >= 3 * y.at
      /\ (y.pc = "insert" => Rank(y) = 3 * y.at + 2)
  <2>1. y.at \in 1..Len(Social)
    BY <1>1, <1>5, Places DEF OneSession, KeyIsOwn
  <2>2. x.at \in Nat /\ y.at \in Nat /\ y.at >= 1
    BY <1>4, <2>1
  <2>3. \/ Rank(y) = 3 * y.at
        \/ Rank(y) = 3 * y.at + 1
        \/ Rank(y) = 3 * y.at + 2
    BY <1>5 DEF Holds, Rank
  <2>4. y.pc = "insert" => Rank(y) = 3 * y.at + 2
    BY DEF Rank
  <2> QED
    BY <2>2, <2>3, <2>4
<1>7. CASE x.pc = "batch"
  <2>1. Rank(x) = 0
    BY <1>7 DEF Rank
  <2> QED
    BY <1>6, <2>1
<1>8. CASE x.pc = "lock"
  <2>1. Rank(x) = 3 * x.at + 1 /\ Holds(x)
    BY <1>8 DEF Rank, Holds
  <2>2. x.at \in DOMAIN Social
    BY <1>1, <2>1 DEF OneSession, KeyIsOwn
  <2>3. PICK l \in y.locked : l[1] = Social[x.at]
    BY <1>3, <1>8 DEF RowSeen, MetricOf
  <2>4. PICK i \in DOMAIN Social : l[1] = Social[i] /\ (i < y.at \/ (i = y.at /\ y.pc = "insert"))
    BY <1>1, <2>3 DEF OneSession, LocksInOrder
  <2>5. i = x.at
    BY <2>2, <2>3, <2>4, AudienceAssumption
  <2>6. x.at < y.at \/ (x.at = y.at /\ y.pc = "insert")
    BY <2>4, <2>5
  <2> QED
    BY <1>6, <2>1, <2>6
<1>9. CASE x.pc = "insert"
  <2>1. Rank(x) = 3 * x.at + 2 /\ Holds(x)
    BY <1>9 DEF Rank, Holds
  <2>2. x.at \in DOMAIN Social
    BY <1>1, <2>1 DEF OneSession, KeyIsOwn
  <2>3. PICK r \in y.mine : r.metric = Social[x.at]
    BY <1>3, <1>9 DEF MetricOf
  <2>4. Social[x.at] \in Supplied(y.submission)
    BY <1>1, <1>5, <2>3 DEF OneSession, WrittenSoFar
  <2>5. x.at < y.at
    BY <1>1, <1>5, <2>2, <2>3, <2>4 DEF OneSession, WrittenSoFar
  <2> QED
    BY <1>6, <2>1, <2>5
<1>10. x.pc = "batch" \/ x.pc = "lock" \/ x.pc = "insert"
  BY <1>3
<1> QED
  BY <1>7, <1>8, <1>9, <1>10

LEMMA NobodyWaitsInACircle ==
  AudienceInvariant => NoCircularWait
<1> SUFFICES ASSUME AudienceInvariant, NEW S \in SUBSET Typists, S # {},
                    \A s \in S : \E t \in S \ {s} : Waits(s, t)
             PROVE  FALSE
  BY DEF NoCircularWait
<1> DEFINE Left(s) == 3 * Len(Social) + 2 - Rank(session[s])
           L == {Left(s) : s \in S}
<1>1. \A s \in S : Left(s) \in Nat /\ Rank(session[s]) \in Nat
  BY OfSession, RankIsBounded
<1>2. L \subseteq Nat /\ L # {}
  BY <1>1
<1>3. PICK least \in L : \A n \in L : least <= n
  <2> HIDE DEF L
  <2> QED
    BY <1>2, NatHasLeast
<1>4. PICK s \in S : least = Left(s)
  BY <1>3
<1>5. PICK t \in S : Waits(s, t)
  OBVIOUS
<1>6. Rank(session[s]) < Rank(session[t])
  BY <1>5, WaitsForTheFurther
<1>7. Left(s) <= Left(t)
  BY <1>3, <1>4
<1>8. /\ 3 * Len(Social) + 2 \in Nat
      /\ Rank(session[s]) \in Nat /\ Rank(session[t]) \in Nat
  <2>1. Len(Social) \in Nat
    BY Places
  <2> QED
    BY <1>1, <2>1
<1>9. \A c, p, q \in Nat : ~(p < q /\ c - p <= c - q)
  OBVIOUS
<1> QED
  BY <1>6, <1>7, <1>8, <1>9

-----------------------------------------------------------------------------
(* The theorems. *)

\* The table and the transactions stay as described above, whatever the
\* sessions, the synchronisation and the calendar do.
THEOREM TransactionsInvariant ==
  AudienceSpec => []AudienceInvariant
<1>1. AudienceInvariant /\ [AudienceNext]_audienceVars => AudienceInvariant'
  <2> SUFFICES ASSUME AudienceInvariant, [AudienceNext]_audienceVars
               PROVE  AudienceInvariant'
    OBVIOUS
  <2>1. CASE DayEnds
    BY <2>1, DayStep
  <2>2. CASE TypedNext
    BY <2>2, TypedStep
  <2>3. CASE ListsNext
    BY <2>3, ListsStep
  <2>4. CASE UNCHANGED audienceVars
    <3>1. UNCHANGED <<figures, nextKey, typedVars, revisions>>
      BY <2>4 DEF audienceVars, typedVars
    <3>2. AudienceTypeOK'
      BY <2>4 DEF audienceVars, AudienceInvariant, AudienceTypeOK
    <3> QED
      BY <3>1, <3>2, QuietStep
  <2> QED
    BY <2>1, <2>2, <2>3, <2>4 DEF AudienceNext
<1> QED
  BY InvariantInitially, <1>1, PTL DEF AudienceSpec

\* Corrections form one line, a submission counts once, requests never wait for
\* each other in a circle, and a newsletter shows the figure of the day's reading.
THEOREM FiguresAlwaysStand ==
  AudienceSpec => []FiguresStand
<1>1. AudienceInvariant => FiguresStand
  BY NobodyWaitsInACircle DEF AudienceInvariant, Transactions, FiguresStand
<1> QED
  BY <1>1, TransactionsInvariant, PTL

=============================================================================
