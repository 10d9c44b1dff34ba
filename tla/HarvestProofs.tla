---------------------------- MODULE HarvestProofs -----------------------------
(***************************************************************************)
(* Proofs about what is harvested from other systems.                      *)
(*                                                                         *)
(* Ga4Sync, for any window, any chunks and any number of days and faults:  *)
(* no day falls between two chunks of a run that reports success, and no   *)
(* revision loses rows its predecessor had.                                *)
(*                                                                         *)
(* SmailyCampaigns, beside the days in MCHarvest's composition: no         *)
(* campaign is ever recognised as anything but what its first row says.    *)
(*                                                                         *)
(* NewsCatalogue, for any pages, any limit and any number of failing       *)
(* fetches: the feed's date outranks the page's, and no row and no date is *)
(* ever lost, whatever order the three writers come in.                    *)
(*                                                                         *)
(* EventPages, for any sitemap, cap and recheck interval: a run recorded   *)
(* as complete has left no event page without its row.                     *)
(*                                                                         *)
(* ArchiveCatalogue, for any listing, page size, limits and shortlists:    *)
(* unless the listing moved under the walk in a way no cursor can follow,  *)
(* nothing the site still lists is forgotten, and a backfill reported as   *)
(* complete is one.                                                        *)
(***************************************************************************)
EXTENDS MCHarvest, FiniteSetTheorems, WellFoundedInduction, TLAPS

-----------------------------------------------------------------------------
(* The reporting days: the inductive invariant. *)

\* How far the run has come: every day before the cursor has a revision or is
\* still to be published.
Behind == sync.first..(sync.cursor - 1)

Progress ==
    sync.pc \in {"collect", "publish", "finish"} =>
        /\ sync.first <= sync.cursor /\ sync.cursor <= sync.end + 1
        /\ DOMAIN sync.got \subseteq Behind
        /\ ~sync.dry_run => \A d \in Behind \ DOMAIN sync.got : HasRevision(d)

\* A chunk is collected only when the one before it is done, and the run ends
\* only behind its last day.
ChunksInTurn ==
    /\ sync.pc = "collect" => DOMAIN sync.got = {} /\ sync.cursor <= sync.end
    /\ sync.pc = "publish" => DOMAIN sync.got # {}
    /\ sync.pc = "finish" => DOMAIN sync.got = {} /\ sync.cursor > sync.end

DaysInv == Progress /\ ChunksInTurn

-----------------------------------------------------------------------------
(* The least and the greatest of a set of days. *)

\* A set of numbers has a least one.
LEMMA NatHasLeast ==
  ASSUME NEW S, S \subseteq Nat, S # {}
  PROVE  \E x \in S : \A y \in S : x <= y
<1>1. IsWellFoundedOn(OpToRel(<, Nat), Nat)
  BY NatLessThanWellFounded, Zenon
<1>2. \E x \in S : \A y \in S : ~(<<y, x>> \in OpToRel(<, Nat))
  BY <1>1, WFMin, Zenon
<1>3. PICK x \in S : \A y \in S : ~(<<y, x>> \in OpToRel(<, Nat))
  BY <1>2
<1>4. \A y \in S : ~(y < x)
  BY <1>3, Zenon DEF OpToRel
<1> QED BY <1>4

LEMMA LeastIsMember ==
  ASSUME NEW S, S \subseteq Nat, S # {}
  PROVE  Min(S) \in S
<1>1. PICK x \in S : \A y \in S : x <= y
  BY NatHasLeast
<1> QED BY <1>1 DEF Min

LEMMA LesserOfTwo ==
  ASSUME NEW a \in Int, NEW b \in Int
  PROVE  Min({a, b}) = IF a <= b THEN a ELSE b
<1> DEFINE m == IF a <= b THEN a ELSE b
<1>1. m \in {a, b} /\ \A y \in {a, b} : m <= y
  OBVIOUS
<1>2. \A x \in {a, b} : (\A y \in {a, b} : x <= y) => x = m
  OBVIOUS
<1> QED BY <1>1, <1>2 DEF Min

LEMMA GreaterOfTwo ==
  ASSUME NEW a \in Int, NEW b \in Int
  PROVE  Max({a, b}) = IF a >= b THEN a ELSE b
<1> DEFINE m == IF a >= b THEN a ELSE b
<1>1. m \in {a, b} /\ \A y \in {a, b} : m >= y
  OBVIOUS
<1>2. \A x \in {a, b} : (\A y \in {a, b} : x >= y) => x = m
  OBVIOUS
<1> QED BY <1>1, <1>2 DEF Max

LEMMA ChunkOf ==
  ASSUME NEW g
  PROVE  g \in Chunk <=> g \in [DOMAIN g -> Reading] /\ DOMAIN g \subseteq Day
  BY DEF Chunk

LEMMA NothingToPublish == <<>> \in Chunk /\ DOMAIN <<>> = {}
<1>1. <<>> \in [{} -> Reading]
  OBVIOUS
<1> QED BY <1>1 DEF Chunk

LEMMA ThisDayIsLeft ==
  ASSUME BoundAssumption, TypeOK, ChunksInTurn, sync.pc = "publish"
  PROVE  ThisDay \in DOMAIN sync.got /\ ThisDay \in Day /\ ThisReading \in Reading
<1>1. sync.got \in Chunk
  BY DEF TypeOK, SyncState
<1>2. DOMAIN sync.got \subseteq Day /\ sync.got \in [DOMAIN sync.got -> Reading]
  BY <1>1, ChunkOf
<1>3. DOMAIN sync.got \subseteq Nat /\ DOMAIN sync.got # {}
  BY <1>2 DEF Day, ChunksInTurn
<1> QED BY <1>2, <1>3, LeastIsMember DEF ThisDay, ThisReading

\* The chunk that is read next begins at the cursor and ends within the run.
LEMMA ChunkIsWithin ==
  ASSUME BoundAssumption, TypeOK, DaysInv, sync.pc = "collect"
  PROVE  ChunkEnd \in Day /\ sync.cursor <= ChunkEnd /\ ChunkEnd <= sync.end
<1>1. sync.cursor \in 1..LastDay + 1 /\ sync.end \in 0..LastDay /\ sync.cursor <= sync.end
  BY DEF TypeOK, SyncState, DaysInv, ChunksInTurn
<1>2. ChunkDays \in Nat \ {0} /\ LastDay \in Nat
  BY DEF BoundAssumption
<1>3. ChunkEnd = IF sync.cursor + ChunkDays - 1 <= sync.end
                 THEN sync.cursor + ChunkDays - 1 ELSE sync.end
  BY <1>1, <1>2, LesserOfTwo DEF ChunkEnd
<1> QED BY <1>1, <1>2, <1>3 DEF Day

-----------------------------------------------------------------------------
(* Types. *)

LEMMA IdleType == ASSUME BoundAssumption PROVE IdleSync \in SyncState
<1>1. <<>> \in Chunk
  BY NothingToPublish
<1> QED BY <1>1 DEF IdleSync, SyncState, BoundAssumption

\* A run begins before the first of its days.
LEMMA BeginType ==
  ASSUME BoundAssumption, NEW first \in Day, NEW end \in Day, NEW detail \in SUBSET Details,
         NEW dryRun \in BOOLEAN, Begin(first, end, detail, dryRun)
  PROVE  sync' \in SyncState /\ DaysInv'
<1>1. <<>> \in Chunk /\ DOMAIN <<>> = {}
  BY NothingToPublish
<1>2. sync' = [IdleSync EXCEPT !.pc = "collect", !.first = first, !.end = end,
                                !.cursor = first, !.detail = detail, !.dry_run = dryRun]
  BY DEF Begin
<1>3. /\ sync'.pc = "collect" /\ sync'.first = first /\ sync'.end = end /\ sync'.cursor = first
      /\ sync'.got = <<>>
  BY <1>2 DEF IdleSync
<1>4. sync' \in SyncState
  <2>1. first \in 1..LastDay + 1 /\ end \in 0..LastDay
    BY DEF Day, BoundAssumption
  <2> QED BY <1>1, <1>2, <2>1 DEF IdleSync, SyncState
<1>5. first <= end /\ first..(first - 1) = {}
  BY DEF Begin, Day, BoundAssumption
<1>6. Behind' = {}
  BY <1>3, <1>5 DEF Behind
<1>7. Progress'
  BY <1>1, <1>3, <1>5, <1>6 DEF Progress, Day, BoundAssumption
<1> QED BY <1>1, <1>3, <1>4, <1>5, <1>7 DEF DaysInv, ChunksInTurn

\* After a day the run is a day further.
LEMMA DayDoneKeeps ==
  ASSUME BoundAssumption, TypeOK, DaysInv, sync.pc = "publish", NEW changed \in BOOLEAN, DayDone(changed),
         ~sync.dry_run => revisions'[ThisDay] # <<>>,
         \A d \in Day : revisions[d] # <<>> => revisions'[d] # <<>>
  PROVE  sync' \in SyncState /\ DaysInv'
<1> DEFINE rest == DOMAIN sync.got \ {ThisDay}
           pc   == IF rest # {} THEN "publish"
                   ELSE IF sync.cursor <= sync.end THEN "collect" ELSE "finish"
           got  == [d \in rest |-> sync.got[d]]
<1>1. sync' = [sync EXCEPT !.pc = pc, !.got = got, !.changed = @ \/ changed]
  BY DEF DayDone
<1>2. ThisDay \in DOMAIN sync.got /\ ThisDay \in Day
  BY ThisDayIsLeft DEF DaysInv
<1>3. sync.got \in [DOMAIN sync.got -> Reading] /\ DOMAIN sync.got \subseteq Day
  BY ChunkOf DEF TypeOK, SyncState
<1>4. got \in [rest -> Reading] /\ rest \in SUBSET Day /\ DOMAIN got = rest
  BY <1>3
<1>5. got \in Chunk
  BY <1>4 DEF Chunk
<1>6. pc \in {"publish", "collect", "finish"}
  OBVIOUS
<1>7. pc = "publish" => rest # {}
  OBVIOUS
<1>8. pc = "collect" => rest = {} /\ sync.cursor <= sync.end
  OBVIOUS
<1>9. pc = "finish" => rest = {} /\ ~(sync.cursor <= sync.end)
  OBVIOUS
<1>10. /\ rest \subseteq DOMAIN sync.got
       /\ \A d \in DOMAIN sync.got : d \notin rest => d = ThisDay
  OBVIOUS
<1> HIDE DEF rest, pc, got
<1>11. sync' \in SyncState
  BY <1>1, <1>5, <1>6 DEF TypeOK, SyncState
<1>12. /\ sync'.pc = pc /\ sync'.got = got /\ sync'.first = sync.first /\ sync'.end = sync.end
       /\ sync'.cursor = sync.cursor /\ sync'.dry_run = sync.dry_run
  BY <1>1 DEF TypeOK, SyncState
<1>13. ChunksInTurn'
  <2>1. sync.cursor \in Int /\ sync.end \in Int
    BY DEF TypeOK, SyncState
  <2>2. ~(sync.cursor <= sync.end) => sync.cursor > sync.end
    BY <2>1
  <2>3. DOMAIN sync'.got = rest /\ sync'.pc = pc
    BY <1>4, <1>12
  <2>4. sync'.pc = "collect" => DOMAIN sync'.got = {} /\ sync'.cursor <= sync'.end
    BY <1>8, <1>12, <2>3
  <2>5. sync'.pc = "publish" => DOMAIN sync'.got # {}
    BY <1>7, <2>3
  <2>6. sync'.pc = "finish" => DOMAIN sync'.got = {} /\ sync'.cursor > sync'.end
    BY <1>9, <1>12, <2>2, <2>3
  <2> QED BY <2>4, <2>5, <2>6 DEF ChunksInTurn
<1>14. Behind' = Behind /\ Behind \subseteq Day
  BY <1>12 DEF Behind, TypeOK, SyncState, Day, BoundAssumption
<1>15. /\ sync.first <= sync.cursor /\ sync.cursor <= sync.end + 1
       /\ DOMAIN sync.got \subseteq Behind
       /\ ~sync.dry_run => \A d \in Behind \ DOMAIN sync.got : revisions[d] # <<>>
  BY DEF DaysInv, Progress, HasRevision
<1>16. ASSUME ~sync.dry_run, NEW d \in Behind \ rest PROVE revisions'[d] # <<>>
  BY <1>10, <1>14, <1>15, <1>16
<1>17. Progress'
  BY <1>4, <1>10, <1>12, <1>14, <1>15, <1>16 DEF Progress, HasRevision
<1> QED BY <1>11, <1>13, <1>17 DEF DaysInv

\* What the invariant says depends on the run and on the days that have a
\* revision.
LEMMA Frame ==
  ASSUME TypeOK, DaysInv, UNCHANGED <<sync, revisions>>
  PROVE  DaysInv'
  BY DEF DaysInv, Progress, ChunksInTurn, Behind, HasRevision

LEMMA Inactive ==
  ASSUME sync' = IdleSync \/ sync' = [sync EXCEPT !.pc = "fail"], TypeOK
  PROVE  DaysInv'
<1>1. sync'.pc \in {"idle", "fail"}
  BY DEF IdleSync, TypeOK, SyncState
<1> QED BY <1>1 DEF DaysInv, Progress, ChunksInTurn

\* A published day is a day with a revision, whatever its readings were.
LEMMA PublishedHasRevision ==
  ASSUME BoundAssumption, TypeOK, DaysInv, PublishDay
  PROVE  /\ revisions' \in [Day -> Seq(Reading)]
         /\ revisions'[ThisDay] = Append(revisions[ThisDay], ThisReading)
         /\ revisions'[ThisDay] # <<>>
         /\ \A d \in Day \ {ThisDay} : revisions'[d] = revisions[d]
<1>1. ThisDay \in Day /\ ThisReading \in Reading
  BY ThisDayIsLeft DEF PublishDay, DayIsNew, At, DaysInv
<1> DEFINE day == ThisDay
           new == ThisReading
<1>2. revisions' = [revisions EXCEPT ![day] = Append(@, new)]
  BY DEF PublishDay
<1>3. day \in Day /\ new \in Reading
  BY <1>1
<1> HIDE DEF day, new
<1>4. revisions[day] \in Seq(Reading) /\ revisions \in [Day -> Seq(Reading)]
  BY <1>3 DEF TypeOK
<1>5. Append(revisions[day], new) \in Seq(Reading) /\ Append(revisions[day], new) # <<>>
  BY <1>3, <1>4
<1>6. /\ revisions' \in [Day -> Seq(Reading)]
      /\ revisions'[day] = Append(revisions[day], new)
      /\ \A d \in Day \ {day} : revisions'[d] = revisions[d]
  BY <1>2, <1>3, <1>4, <1>5
<1> QED BY <1>5, <1>6 DEF day, new

-----------------------------------------------------------------------------
LEMMA InvStep ==
  ASSUME BoundAssumption, TypeOK, DaysInv, [Next]_vars
  PROVE  TypeOK' /\ DaysInv'
<1>1. CASE DayEnds
  <2>1. TypeOK'
    BY <1>1 DEF DayEnds, TypeOK, boundVars, BoundAssumption
  <2> QED BY <1>1, <2>1, Frame DEF DayEnds
<1>2. ASSUME NEW d \in Day, NEW v \in Figures, Restate(d, v) PROVE TypeOK' /\ DaysInv'
  <2>1. stated[d] \in Seq(Figures)
    BY DEF TypeOK
  <2>2. Append(stated[d], v) \in Seq(Figures)
    BY <2>1
  <2>3. stated' \in [Day -> Seq(Figures)] /\ remote' \in [Day -> Figures]
    BY <1>2, <2>2 DEF Restate, TypeOK
  <2>4. TypeOK'
    BY <1>2, <2>3 DEF Restate, TypeOK, boundVars
  <2> QED BY <1>2, <2>4, Frame DEF Restate
<1>3. CASE BeginNightly
  <2>1. yesterday \in 0..LastDay /\ LastDay \in Nat /\ WindowDays \in Nat \ {0}
    BY DEF TypeOK, BoundAssumption
  <2>2. WindowStart = IF 1 >= yesterday - WindowDays + 1 THEN 1 ELSE yesterday - WindowDays + 1
    BY <2>1, GreaterOfTwo DEF WindowStart
  <2>3. Begin(WindowStart, yesterday, Details, FALSE) /\ WindowStart <= yesterday
    BY <1>3 DEF BeginNightly, Begin
  <2>4. WindowStart \in Day /\ yesterday \in Day
    BY <2>1, <2>2, <2>3 DEF Day
  <2>5. sync' \in SyncState /\ DaysInv'
    BY <2>3, <2>4, BeginType
  <2> QED BY <1>3, <2>5 DEF BeginNightly, Begin, TypeOK
<1>4. ASSUME NEW first \in Day, NEW end \in Day, NEW detail \in SUBSET Details, NEW dryRun \in BOOLEAN,
             BeginRange(first, end, detail, dryRun)
      PROVE  TypeOK' /\ DaysInv'
  <2>1. sync' \in SyncState /\ DaysInv'
    BY <1>4, BeginType DEF BeginRange
  <2> QED BY <1>4, <2>1 DEF BeginRange, Begin, TypeOK, BoundAssumption
<1>5. CASE CollectChunk
  <2> DEFINE days == sync.cursor..ChunkEnd
             got  == [d \in days |-> [figures |-> remote[d], detail |-> sync.detail]]
  <2>1. /\ sync.pc = "collect" /\ UNCHANGED <<yesterday, remote, stated, revisions, feed, boundVars>>
        /\ sync' = [sync EXCEPT !.pc = "publish", !.got = got, !.cursor = ChunkEnd + 1]
    BY <1>5 DEF CollectChunk, At
  <2>2. ChunkEnd \in Day /\ sync.cursor <= ChunkEnd /\ ChunkEnd <= sync.end
    BY <2>1, ChunkIsWithin
  <2>3. /\ sync.cursor \in 1..LastDay + 1 /\ sync.first \in 1..LastDay + 1 /\ sync.end \in 0..LastDay
        /\ LastDay \in Nat /\ sync.detail \in SUBSET Details /\ remote \in [Day -> Figures]
    BY DEF TypeOK, SyncState, BoundAssumption
  <2>4. days \in SUBSET Day /\ days # {}
    <3>1. sync.cursor \in days
      BY <2>2, <2>3 DEF Day
    <3> QED BY <2>2, <2>3, <3>1 DEF Day
  <2>5. got \in [days -> Reading] /\ DOMAIN got = days
    BY <2>3, <2>4 DEF Reading
  <2>6. got \in Chunk
    BY <2>4, <2>5 DEF Chunk
  <2>7. /\ DOMAIN sync.got = {} /\ sync.first <= sync.cursor
        /\ ~sync.dry_run => \A d \in Behind : revisions[d] # <<>>
    BY <2>1 DEF DaysInv, ChunksInTurn, Progress, HasRevision
  <2> DEFINE last == ChunkEnd
  <2>8. /\ sync' = [sync EXCEPT !.pc = "publish", !.got = got, !.cursor = last + 1]
        /\ last \in Day /\ sync.cursor <= last /\ last <= sync.end
        /\ \A d \in sync.first..last : d \in Behind \/ d \in days
        /\ days \subseteq sync.first..last
    BY <2>1, <2>2, <2>3, <2>7 DEF Behind, Day
  <2> HIDE DEF got, days, last
  <2>9. sync' \in SyncState
    <3>1. last + 1 \in 1..LastDay + 1
      BY <2>3, <2>8 DEF Day
    <3>2. sync \in SyncState
      BY DEF TypeOK
    <3> QED BY <2>6, <2>8, <3>1, <3>2 DEF SyncState
  <2>10. /\ sync'.pc = "publish" /\ sync'.got = got /\ sync'.cursor = last + 1
         /\ sync'.first = sync.first /\ sync'.end = sync.end /\ sync'.dry_run = sync.dry_run
    BY <2>8 DEF TypeOK, SyncState
  <2>11. Behind' = sync.first..last
    BY <2>3, <2>8, <2>10 DEF Behind, Day
  <2>12. ASSUME ~sync.dry_run, NEW d \in Behind' \ days PROVE revisions'[d] # <<>>
    BY <2>1, <2>7, <2>8, <2>11, <2>12
  <2>13. sync'.first <= sync'.cursor /\ sync'.cursor <= sync'.end + 1
    BY <2>3, <2>7, <2>8, <2>10 DEF Day
  <2>14. Progress'
    BY <2>5, <2>8, <2>10, <2>11, <2>12, <2>13 DEF Progress, HasRevision
  <2>15. ChunksInTurn'
    BY <2>4, <2>5, <2>10 DEF ChunksInTurn
  <2> QED BY <2>1, <2>9, <2>14, <2>15 DEF TypeOK, DaysInv, boundVars
<1>6. CASE SkipDay
  <2>1. /\ sync.pc = "publish" /\ DayDone(FALSE) /\ revisions[ThisDay] # <<>>
        /\ UNCHANGED <<yesterday, remote, stated, revisions, feed, boundVars>>
    BY <1>6 DEF SkipDay, At, DayIsUnchanged, WouldLoseDetail, HasRevision
  <2>2. revisions'[ThisDay] # <<>>
    BY <2>1
  <2>3. sync' \in SyncState /\ DaysInv'
    BY <2>1, <2>2, DayDoneKeeps
  <2> QED BY <2>1, <2>3 DEF TypeOK, boundVars
<1>7. CASE PreviewDay
  <2>1. /\ sync.pc = "publish" /\ DayDone(TRUE) /\ sync.dry_run
        /\ UNCHANGED <<yesterday, remote, stated, revisions, feed, boundVars>>
    BY <1>7 DEF PreviewDay, DayIsNew, At
  <2>2. sync' \in SyncState /\ DaysInv'
    BY <2>1, DayDoneKeeps
  <2> QED BY <2>1, <2>2 DEF TypeOK, boundVars
<1>8. CASE PublishDay
  <2>1. /\ sync.pc = "publish" /\ DayDone(TRUE)
        /\ UNCHANGED <<yesterday, remote, stated, feed, boundVars>>
    BY <1>8 DEF PublishDay, DayIsNew, At
  <2>2. revisions' \in [Day -> Seq(Reading)] /\ revisions'[ThisDay] # <<>>
    BY <1>8, PublishedHasRevision
  <2>3. \A d \in Day : revisions[d] # <<>> => revisions'[d] # <<>>
    BY <1>8, PublishedHasRevision
  <2>4. sync' \in SyncState /\ DaysInv'
    BY <2>1, <2>2, <2>3, DayDoneKeeps
  <2> QED BY <2>1, <2>2, <2>4 DEF TypeOK, boundVars
<1>9. CASE CollectFails \/ PublishRefused \/ PublishFails
  <2>1. sync' = [sync EXCEPT !.pc = "fail"]
    BY <1>9 DEF CollectFails, PublishRefused, PublishFails
  <2>2. TypeOK'
    <3>1. sync' \in SyncState
      BY <2>1 DEF TypeOK, SyncState
    <3>2. faults' \in 0..MaxFaults
      BY <1>9 DEF CollectFails, PublishRefused, PublishFails, Fault, TypeOK, boundVars, BoundAssumption
    <3>3. UNCHANGED <<yesterday, remote, stated, revisions, feed, backfills>>
      BY <1>9 DEF CollectFails, PublishRefused, PublishFails, boundVars
    <3> QED BY <3>1, <3>2, <3>3 DEF TypeOK
  <2> QED BY <2>1, <2>2, Inactive
<1>10. CASE Finish \/ Fail \/ Crash
  <2>1. sync' = IdleSync
    BY <1>10 DEF Finish, Fail, Crash
  <2>2. feed' \in [last_result : FeedResult, period_end : 0..LastDay]
    BY <1>10 DEF Finish, Fail, Crash, TypeOK, SyncState, FeedResult
  <2>3. faults' \in 0..MaxFaults
    BY <1>10 DEF Finish, Fail, Crash, Fault, TypeOK, boundVars, BoundAssumption
  <2>4. TypeOK'
    BY <1>10, <2>1, <2>2, <2>3, IdleType DEF Finish, Fail, Crash, TypeOK, boundVars
  <2> QED BY <2>1, <2>4, Inactive
<1>11. CASE UNCHANGED vars
  BY <1>11, Frame DEF vars, TypeOK
<1> QED
  BY <1>1, <1>2, <1>3, <1>4, <1>5, <1>6, <1>7, <1>8, <1>9, <1>10, <1>11 DEF Next, Step

-----------------------------------------------------------------------------
(* The theorems. *)

LEMMA DaysBegin ==
  ASSUME BoundAssumption, Init
  PROVE  TypeOK /\ DaysInv
<1>1. stated \in [Day -> Seq(Figures)] /\ revisions \in [Day -> Seq(Reading)]
  BY DEF Init
<1>2. TypeOK
  BY <1>1, IdleType DEF Init, TypeOK, FeedResult, BoundAssumption
<1>3. sync.pc = "idle"
  BY DEF Init, IdleSync
<1> QED BY <1>2, <1>3 DEF DaysInv, Progress, ChunksInTurn

LEMMA Invariant ==
  ASSUME BoundAssumption
  PROVE  Spec => [](TypeOK /\ DaysInv)
<1>1. Init => TypeOK /\ DaysInv
  BY DaysBegin
<1>2. TypeOK /\ DaysInv /\ [Next]_vars => (TypeOK /\ DaysInv)'
  BY InvStep
<1> QED BY <1>1, <1>2, PTL DEF Spec

\* Every variable of the run keeps its type.
THEOREM TypeCorrect ==
  ASSUME BoundAssumption
  PROVE  Spec => []TypeOK
  BY Invariant, PTL

\* A run that reports success has a revision for every day it was asked about,
\* whatever the window and the chunks, restatements, skipped days and faults of
\* earlier runs included (synchronize_ga4).
THEOREM EveryDayIsPublished ==
  ASSUME BoundAssumption
  PROVE  Spec => []NoDayLeftOut
<1>1. TypeOK /\ DaysInv => NoDayLeftOut
  <2> SUFFICES ASSUME TypeOK, DaysInv, sync.pc = "finish", ~sync.dry_run, NEW d \in sync.first..sync.end
               PROVE  HasRevision(d)
    BY DEF NoDayLeftOut, At
  <2>1. DOMAIN sync.got = {} /\ sync.cursor > sync.end
    BY DEF DaysInv, ChunksInTurn
  <2>2. sync.cursor \in Int /\ sync.first \in Int /\ sync.end \in Int
    BY DEF TypeOK, SyncState
  <2>3. d \in Behind
    BY <2>1, <2>2 DEF Behind
  <2> QED BY <2>1, <2>3 DEF DaysInv, Progress
<1> QED BY <1>1, Invariant, PTL

\* A published reading has every kind of row its predecessor had; no other step
\* touches a day's revisions.
LEMMA DetailIsHeld ==
  ASSUME BoundAssumption, TypeOK, DaysInv, [Next]_vars
  PROVE  DetailStep
<1>1. CASE UNCHANGED revisions
  BY <1>1 DEF DetailStep
<1>2. CASE PublishDay
  <2>1. ASSUME NEW d \in Day, HasRevision(d)
        PROVE  Last(revisions[d]).detail \subseteq Last(revisions'[d]).detail
    <3>1. CASE d # ThisDay
      BY <1>2, <3>1, PublishedHasRevision
    <3>2. CASE d = ThisDay
      <4>1. revisions'[d] = Append(revisions[d], ThisReading)
        BY <1>2, <3>2, PublishedHasRevision
      <4>2. revisions[d] \in Seq(Reading)
        BY DEF TypeOK
      <4>3. Last(revisions'[d]) = ThisReading
        BY <4>1, <4>2 DEF Last
      <4>4. Last(revisions[d]).detail \subseteq ThisReading.detail
        BY <1>2, <2>1, <3>2 DEF PublishDay, DayIsNew, WouldLoseDetail
      <4> QED BY <4>3, <4>4
    <3> QED BY <3>1, <3>2
  <2> QED BY <2>1 DEF DetailStep
<1>3. CASE \/ DayEnds \/ BeginNightly \/ CollectChunk \/ SkipDay \/ PreviewDay \/ PublishRefused
           \/ Finish \/ Fail \/ CollectFails \/ PublishFails \/ Crash \/ UNCHANGED vars
  BY <1>1, <1>3 DEF DayEnds, BeginNightly, Begin, CollectChunk, SkipDay, PreviewDay, PublishRefused,
                    Finish, Fail, CollectFails, PublishFails, Crash, vars
<1>4. CASE \E d \in Day, v \in Figures : Restate(d, v)
  BY <1>1, <1>4 DEF Restate
<1>5. CASE \E first, end \in Day, detail \in SUBSET Details, dryRun \in BOOLEAN :
              BeginRange(first, end, detail, dryRun)
  BY <1>1, <1>5 DEF BeginRange, Begin
<1> QED BY <1>2, <1>3, <1>4, <1>5 DEF Next, Step

\* A later, narrower collection never takes the page or channel rows of a day
\* away (_would_lose_detail).
THEOREM DetailStays ==
  ASSUME BoundAssumption
  PROVE  Spec => DetailIsKept
<1>1. TypeOK /\ DaysInv /\ [Next]_vars => [DetailStep]_vars
  BY DetailIsHeld
<1> QED BY <1>1, Invariant, PTL DEF Spec, DetailIsKept

-----------------------------------------------------------------------------
(* The campaigns, and what the nightly collectors keep between them. *)

\* Every row of the catalogue says what its campaign was recognised as.
RowsAreClassified == \A c \in DOMAIN catalogue : "newsletter" \in DOMAIN catalogue[c]

\* _catalogue rewrites the template and the preview of a known campaign, and
\* adds rows that are classified.
LEMMA CatalogueKeeps ==
  ASSUME RowsAreClassified, C!Catalogue
  PROVE  RowsAreClassified' /\ C!ClassificationStep
<1> DEFINE D == DOMAIN catalogue \cup DOMAIN reading.listed
           EntryOf(c) == IF c \in DOMAIN reading.listed
                     THEN C!CatalogueEntry(c, reading.listed[c]) ELSE catalogue[c]
<1>1. catalogue' = [c \in D |-> EntryOf(c)]
  BY DEF C!Catalogue
<1>2. ASSUME NEW c \in DOMAIN catalogue
      PROVE  "newsletter" \in DOMAIN EntryOf(c) /\ EntryOf(c).newsletter = catalogue[c].newsletter
  BY <1>2 DEF C!CatalogueEntry, RowsAreClassified
<1>3. ASSUME NEW c \in D, c \notin DOMAIN catalogue
      PROVE  "newsletter" \in DOMAIN EntryOf(c)
  BY <1>3 DEF C!CatalogueEntry
<1> HIDE DEF D, EntryOf
<1>4. DOMAIN catalogue' = D /\ \A c \in D : catalogue'[c] = EntryOf(c)
  BY <1>1
<1>5. DOMAIN catalogue \subseteq D
  BY DEF D
<1> QED BY <1>2, <1>3, <1>4, <1>5 DEF RowsAreClassified, C!ClassificationStep

\* The campaigns count their faults with the reporting days, and no step but
\* _catalogue touches a row.
LEMMA CampaignsKeep ==
  ASSUME BoundAssumption, faults \in 0..MaxFaults, RowsAreClassified, C!Next
  PROVE  /\ faults' \in 0..MaxFaults
         /\ RowsAreClassified' /\ C!ClassificationStep
<1>1. faults' \in 0..MaxFaults
  <2>1. faults' = faults \/ C!Fault
    BY DEF C!Next, C!Step, C!DayEnds, C!Send, C!Accrue, C!Retemplate, C!BeginRun,
           C!ListCampaigns, C!Catalogue, C!SelectCampaigns, C!ReadStatistics,
           C!StatisticsUnread, C!EndOfReading, C!PublishStatistics, C!RunFails
  <2> QED BY <2>1 DEF C!Fault, BoundAssumption
<1>2. C!Catalogue \/ UNCHANGED catalogue
  BY DEF C!Next, C!Step, C!DayEnds, C!Send, C!Accrue, C!Retemplate, C!BeginRun,
         C!ListCampaigns, C!SelectCampaigns, C!ReadStatistics,
         C!StatisticsUnread, C!EndOfReading, C!PublishStatistics, C!RunFails
<1>3. CASE C!Catalogue
  BY <1>1, <1>3, CatalogueKeeps
<1>4. CASE UNCHANGED catalogue
  BY <1>1, <1>4 DEF RowsAreClassified, C!ClassificationStep
<1> QED BY <1>2, <1>3, <1>4

\* Whichever collector takes the next step, the reporting days and the campaigns
\* are left or go on as each does by itself.
LEMMA CollectorsKeep ==
  ASSUME TypeOK, DaysInv, RowsAreClassified, [HarvestNext]_harvestVars
  PROVE  /\ TypeOK' /\ DaysInv' /\ RowsAreClassified'
         /\ DetailStep /\ C!ClassificationStep
<1>1. BoundAssumption
  BY HarvestAssumption
<1>2. \/ [Next]_vars /\ UNCHANGED catalogue
      \/ C!Next /\ UNCHANGED ga4Vars
  BY DEF HarvestNext, Walking, Pages, News, Ga4, Campaigns, harvestVars, ga4Vars,
         campaignVars, vars
<1>3. CASE [Next]_vars /\ UNCHANGED catalogue
  <2>1. RowsAreClassified' /\ C!ClassificationStep
    BY <1>3 DEF RowsAreClassified, C!ClassificationStep
  <2> QED BY <1>1, <1>3, <2>1, InvStep, DetailIsHeld
<1>4. CASE C!Next /\ UNCHANGED ga4Vars
  <2>1. faults' \in 0..MaxFaults /\ RowsAreClassified' /\ C!ClassificationStep
    BY <1>1, <1>4, CampaignsKeep DEF TypeOK
  <2>2. TypeOK'
    BY <1>4, <2>1 DEF TypeOK, ga4Vars
  <2>3. DaysInv'
    BY <1>4, Frame DEF ga4Vars
  <2>4. DetailStep
    BY <1>4 DEF DetailStep, ga4Vars
  <2> QED BY <2>1, <2>2, <2>3, <2>4
<1> QED BY <1>2, <1>3, <1>4

\* Of all that the nightly collectors gather, no revision of a day loses its page
\* or channel rows (_would_lose_detail), and no campaign is ever recognised as
\* anything else (_catalogue), crashes and failed requests included.
THEOREM NothingIsEverLost == HarvestSpec => NothingIsLost
<1>1. HarvestInit => TypeOK /\ DaysInv /\ RowsAreClassified
  <2> SUFFICES ASSUME HarvestInit PROVE TypeOK /\ DaysInv /\ RowsAreClassified
    OBVIOUS
  <2>1. TypeOK /\ DaysInv
    BY DaysBegin, HarvestAssumption DEF HarvestInit
  <2>2. RowsAreClassified
    BY DEF HarvestInit, C!Init, RowsAreClassified
  <2> QED BY <2>1, <2>2
<1>2. TypeOK /\ DaysInv /\ RowsAreClassified /\ [HarvestNext]_harvestVars
         => /\ (TypeOK /\ DaysInv /\ RowsAreClassified)'
            /\ [DetailStep /\ C!ClassificationStep]_harvestVars
  BY CollectorsKeep
<1> QED BY <1>1, <1>2, PTL DEF HarvestSpec, NothingIsLost

-----------------------------------------------------------------------------
(* The news catalogue: the inductive invariant. *)

\* A row of the catalogue, and what it may say of its date.
WholeRow(r) ==
    /\ DOMAIN r = {"first", "origin", "date", "overtaken"}
    /\ r.date \in {"none", "feed", "page"}
    /\ r.overtaken \in BOOLEAN
    /\ r.overtaken => r.date = "page"

RowsAreWhole ==
    /\ rows = [p \in DOMAIN rows |-> rows[p]]
    /\ \A p \in DOMAIN rows : WholeRow(rows[p])

\* The rows the feed's transaction has read are still there when it writes.
ExistingStands == recording.pc = "write" => recording.existing \subseteq DOMAIN rows

\* Between the dater's SELECT and its UPDATE only the feed can have dated the row.
SelectedStands ==
    /\ DOMAIN dater = {"pc", "paths", "saw"}
    /\ dater.pc = "save" =>
          /\ dater.saw = "none"
          /\ Head(dater.paths) \in DOMAIN rows
          /\ rows[Head(dater.paths)].date \in {"none", "feed"}

NewsInv == RowsAreWhole /\ ExistingStands /\ SelectedStands /\ FeedIsAuthoritative

\* "One bad fetch must never blank a date": no step takes a row out of the
\* catalogue or the date out of a row (backfill_news_dates, record_feed_items).
RowsStay ==
    \A p \in DOMAIN rows : p \in DOMAIN rows' /\ (rows[p].date # "none" => rows'[p].date # "none")

NoDateIsLost == [][RowsStay]_newsVars

-----------------------------------------------------------------------------
(* What the steps of the passes and the writers leave behind. *)

\* A pass that moves on is at its next page or at its end.
LEMMA MovedIsElsewhere ==
  ASSUME NEW pass
  PROVE  DOMAIN Moved(pass) = {"pc", "paths", "saw"} /\ Moved(pass).pc \in {"idle", "fetch"}
BY DEF Moved, Idle

\* The row the feed writes is whole and has the feed's date.
LEMMA FeedRowIsWhole ==
  ASSUME NewsInv, recording.pc = "write", NEW p
  PROVE  /\ WholeRow(FeedRow(p))
         /\ FeedRow(p).date = "feed"
         /\ FeedRow(p).overtaken = FALSE
<1>1. CASE p \in recording.existing
  <2>1. DOMAIN rows[p] = {"first", "origin", "date", "overtaken"}
    BY <1>1 DEF NewsInv, ExistingStands, RowsAreWhole, WholeRow
  <2>2. FeedRow(p) = [rows[p] EXCEPT !.origin = "feed", !.date = "feed", !.overtaken = FALSE]
    BY <1>1 DEF FeedRow
  <2> QED BY <2>1, <2>2 DEF WholeRow
<1>2. CASE p \notin recording.existing
  <2>1. FeedRow(p) = NewRow("feed", "feed")
    BY <1>2 DEF FeedRow
  <2> QED BY <2>1 DEF NewRow, WholeRow
<1> QED BY <1>1, <1>2

-----------------------------------------------------------------------------
(* The invariant. *)

LEMMA InitHolds == NewsInit => NewsInv
<1> SUFFICES ASSUME NewsInit PROVE NewsInv
  OBVIOUS
<1>1. RowsAreWhole
  BY DEF NewsInit, RowsAreWhole, WholeRow
<1>2. ExistingStands /\ SelectedStands
  BY DEF NewsInit, ExistingStands, SelectedStands, IdleRecording, Idle
<1>3. FeedIsAuthoritative
  BY DEF NewsInit, FeedIsAuthoritative
<1> QED BY <1>1, <1>2, <1>3 DEF NewsInv

\* A step that leaves the rows as they are, and selects at most an undated one.
LEMMA RowsUntouched ==
  ASSUME NewsInv, rows' = rows, ExistingStands', SelectedStands'
  PROVE  NewsInv' /\ RowsStay
<1>1. RowsAreWhole' /\ FeedIsAuthoritative'
  BY DEF NewsInv, RowsAreWhole, FeedIsAuthoritative
<1> QED BY <1>1 DEF NewsInv, RowsStay

LEMMA FeedReads ==
  ASSUME NewsInv, ReadExisting \/ WriteRefused \/ \E p \in Path : Announce(p)
  PROVE  NewsInv' /\ RowsStay
<1>1. rows' = rows /\ dater' = dater
  BY DEF ReadExisting, WriteRefused, Announce
<1>2. ExistingStands'
  <2>1. CASE ReadExisting
    BY <2>1, <1>1 DEF ReadExisting, ExistingStands
  <2>2. CASE WriteRefused
    BY <2>2 DEF WriteRefused, IdleRecording, ExistingStands
  <2>3. CASE \E p \in Path : Announce(p)
    BY <2>3, <1>1 DEF Announce, NewsInv, ExistingStands
  <2> QED BY <2>1, <2>2, <2>3
<1>3. SelectedStands'
  BY <1>1 DEF NewsInv, SelectedStands
<1> QED BY <1>1, <1>2, <1>3, RowsUntouched

\* The passes' own steps do not touch the rows; the dater selects an undated one.
LEMMA PassesRead ==
  ASSUME NewsInv,
         BeginNaming \/ FetchForName \/ SkipName \/ BeginDating \/ FetchForDate
            \/ SelectUndated \/ SkipDate \/ FetchFails
  PROVE  NewsInv' /\ RowsStay
<1>1. rows' = rows /\ recording' = recording
  BY DEF BeginNaming, FetchForName, SkipName, BeginDating, FetchForDate, SelectUndated,
         SkipDate, FetchFails
<1>2. ExistingStands'
  BY <1>1 DEF NewsInv, ExistingStands
<1>3. DOMAIN dater = {"pc", "paths", "saw"}
  BY DEF NewsInv, SelectedStands
<1>4. CASE dater' = dater
  <2>1. SelectedStands'
    BY <1>1, <1>4 DEF NewsInv, SelectedStands
  <2> QED BY <1>1, <1>2, <2>1, RowsUntouched
<1>5. CASE dater' = Moved(dater)
  <2>1. SelectedStands'
    BY <1>5, MovedIsElsewhere DEF SelectedStands
  <2> QED BY <1>1, <1>2, <2>1, RowsUntouched
<1>6. CASE BeginDating
  <2>1. SelectedStands'
    BY <1>6 DEF BeginDating, Idle, SelectedStands
  <2> QED BY <1>1, <1>2, <2>1, RowsUntouched
<1>7. CASE FetchForDate /\ dater' # Moved(dater)
  <2>1. dater' = [dater EXCEPT !.pc = "select"]
    BY <1>7 DEF FetchForDate
  <2>2. SelectedStands'
    BY <1>3, <2>1 DEF SelectedStands
  <2> QED BY <1>1, <1>2, <2>2, RowsUntouched
<1>8. CASE SelectUndated /\ dater' # Moved(dater)
  <2>1. dater' = Selected /\ Head(dater.paths) \in UndatedRows
    BY <1>8 DEF SelectUndated
  <2>2. /\ DOMAIN dater' = {"pc", "paths", "saw"}
        /\ dater'.paths = dater.paths
        /\ dater'.saw = rows[Head(dater.paths)].date
    BY <1>3, <2>1 DEF Selected
  <2>3. SelectedStands'
    BY <1>1, <2>1, <2>2 DEF SelectedStands, UndatedRows
  <2> QED BY <1>1, <1>2, <2>3, RowsUntouched
<1>9. QED
  BY <1>4, <1>5, <1>6, <1>7, <1>8
     DEF BeginNaming, FetchForName, SkipName, SkipDate, FetchFails

\* The feed's date replaces any other, also in the row the dater has selected.
LEMMA FeedWrites ==
  ASSUME NewsInv, WriteFeedItems
  PROVE  NewsInv' /\ RowsStay
<1>1. /\ recording.pc = "write"
      /\ rows' = [p \in DOMAIN rows \cup recording.items |->
                     IF p \in recording.items THEN FeedRow(p) ELSE rows[p]]
      /\ recording'.pc = "idle"
      /\ dater' = dater
  BY DEF WriteFeedItems, IdleRecording
<1>2. \A p : /\ WholeRow(FeedRow(p))
             /\ FeedRow(p).date = "feed"
             /\ FeedRow(p).overtaken = FALSE
  BY <1>1, FeedRowIsWhole
<1>3. /\ DOMAIN rows' = DOMAIN rows \cup recording.items
      /\ \A p \in DOMAIN rows' : rows'[p] = IF p \in recording.items THEN FeedRow(p) ELSE rows[p]
  BY <1>1
<1>4. RowsAreWhole'
  <2>1. rows' = [p \in DOMAIN rows' |-> rows'[p]]
    BY <1>1
  <2> QED BY <2>1, <1>2, <1>3 DEF NewsInv, RowsAreWhole
<1>5. ExistingStands'
  BY <1>1 DEF ExistingStands
<1>6. SelectedStands'
  BY <1>1, <1>2, <1>3 DEF NewsInv, SelectedStands
<1>7. FeedIsAuthoritative'
  BY <1>2, <1>3 DEF NewsInv, FeedIsAuthoritative
<1>8. RowsStay
  BY <1>2, <1>3 DEF RowsStay
<1> QED BY <1>4, <1>5, <1>6, <1>7, <1>8 DEF NewsInv

\* The namer only adds rows, and never the one the dater has selected.
LEMMA NamerCreates ==
  ASSUME NewsInv, CreateNamed
  PROVE  NewsInv' /\ RowsStay
<1> DEFINE p == Head(namer.paths)
           new == NewRow("page", IF p \in Datable THEN "page" ELSE "none")
<1>1. recording' = recording /\ dater' = dater
  BY DEF CreateNamed
<1>2. CASE p \in DOMAIN rows
  <2>1. rows' = rows
    BY <1>2 DEF CreateNamed
  <2>2. ExistingStands' /\ SelectedStands'
    BY <1>1, <2>1 DEF NewsInv, ExistingStands, SelectedStands
  <2> QED BY <2>1, <2>2, RowsUntouched
<1>3. CASE p \notin DOMAIN rows
  <2>1. rows' = [q \in DOMAIN rows \cup {p} |-> IF q = p THEN new ELSE rows[q]]
    BY <1>3 DEF CreateNamed
  <2>2. WholeRow(new) /\ new.origin = "page"
    BY DEF NewRow, WholeRow
  <2> HIDE DEF p, new
  <2>3. /\ DOMAIN rows' = DOMAIN rows \cup {p}
        /\ \A q \in DOMAIN rows' : rows'[q] = IF q = p THEN new ELSE rows[q]
    BY <2>1
  <2>4. RowsAreWhole'
    <3>1. rows' = [q \in DOMAIN rows' |-> rows'[q]]
      BY <2>1
    <3> QED BY <3>1, <2>2, <2>3 DEF NewsInv, RowsAreWhole
  <2>5. ExistingStands' /\ SelectedStands'
    BY <1>1, <1>3, <2>3 DEF NewsInv, ExistingStands, SelectedStands
  <2>6. FeedIsAuthoritative'
    BY <2>2, <2>3 DEF NewsInv, FeedIsAuthoritative
  <2>7. RowsStay
    BY <1>3, <2>3 DEF RowsStay
  <2> QED BY <2>4, <2>5, <2>6, <2>7 DEF NewsInv
<1> QED BY <1>2, <1>3

\* The dater's UPDATE marks the row whose feed date it has overtaken.
LEMMA DaterSaves ==
  ASSUME NewsInv, SaveDate
  PROVE  NewsInv' /\ RowsStay
<1> DEFINE p == Head(dater.paths)
           mark == dater.saw = "none" /\ rows[p].date = "feed"
<1>1. /\ dater.saw = "none" /\ p \in DOMAIN rows /\ rows[p].date \in {"none", "feed"}
      /\ recording' = recording /\ dater' = Moved(dater)
  BY DEF SaveDate, NewsInv, SelectedStands
<1>2. rows' = [rows EXCEPT ![p].date = "page", ![p].overtaken = mark]
  BY DEF SaveDate
<1>3. mark = (rows[p].date = "feed")
  BY <1>1
<1>4. DOMAIN rows[p] = {"first", "origin", "date", "overtaken"}
  BY <1>1 DEF NewsInv, RowsAreWhole, WholeRow
<1> HIDE DEF p, mark
<1>5. /\ DOMAIN rows' = DOMAIN rows
      /\ \A q \in DOMAIN rows : q # p => rows'[q] = rows[q]
      /\ DOMAIN rows'[p] = {"first", "origin", "date", "overtaken"}
      /\ rows'[p].origin = rows[p].origin
      /\ rows'[p].date = "page"
      /\ rows'[p].overtaken = mark
  BY <1>1, <1>2, <1>4
<1>6. RowsAreWhole'
  <2>1. rows' = [q \in DOMAIN rows' |-> rows'[q]]
    BY <1>2
  <2>2. WholeRow(rows'[p])
    BY <1>3, <1>5 DEF WholeRow
  <2> QED BY <2>1, <2>2, <1>5 DEF NewsInv, RowsAreWhole
<1>7. ExistingStands' /\ SelectedStands'
  BY <1>1, <1>5, MovedIsElsewhere DEF NewsInv, ExistingStands, SelectedStands
<1>8. FeedIsAuthoritative'
  <2>1. rows[p].overtaken = FALSE
    BY <1>1 DEF NewsInv, RowsAreWhole, WholeRow
  <2> QED BY <2>1, <1>1, <1>3, <1>5 DEF NewsInv, FeedIsAuthoritative
<1>9. RowsStay
  BY <1>1, <1>5 DEF RowsStay
<1> QED BY <1>6, <1>7, <1>8, <1>9 DEF NewsInv

LEMMA StepHolds == NewsInv /\ [NewsNext]_newsVars => NewsInv' /\ (RowsStay \/ UNCHANGED newsVars)
<1> SUFFICES ASSUME NewsInv, [NewsNext]_newsVars PROVE NewsInv' /\ (RowsStay \/ UNCHANGED newsVars)
  OBVIOUS
<1>1. CASE NewsNext
  BY <1>1, FeedReads, PassesRead, FeedWrites, NamerCreates, DaterSaves
     DEF NewsNext, Naming, Dating
<1>2. CASE UNCHANGED newsVars
  <2>1. rows' = rows /\ recording' = recording /\ dater' = dater
    BY <1>2 DEF newsVars
  <2>2. ExistingStands' /\ SelectedStands'
    BY <2>1 DEF NewsInv, ExistingStands, SelectedStands
  <2> QED BY <1>2, <2>1, <2>2, RowsUntouched
<1> QED BY <1>1, <1>2

\* "A date the Chamber published outranks one read off the page", for any
\* interleaving of the feed, the namer and the dater (catalogue.py,
\* discovery.py): an article the feed has named has the feed's date, except
\* where the feed's commit fell between the dater's SELECT and its UPDATE.
THEOREM FeedOutranks == NewsSpec => []FeedIsAuthoritative
<1>1. NewsInv /\ [NewsNext]_newsVars => NewsInv'
  BY StepHolds
<1>2. NewsInv => FeedIsAuthoritative
  BY DEF NewsInv
<1> QED BY <1>1, <1>2, InitHolds, PTL DEF NewsSpec

\* A row of the catalogue stays and keeps a date, whichever writer comes last.
THEOREM DatesStay == NewsSpec => NoDateIsLost
<1>1. NewsInv /\ [NewsNext]_newsVars => NewsInv'
  BY StepHolds
<1>2. NewsInv /\ [NewsNext]_newsVars => [RowsStay]_newsVars
  BY StepHolds
<1> QED BY <1>1, <1>2, InitHolds, PTL DEF NewsSpec, NoDateIsLost

-----------------------------------------------------------------------------
(* The event pages: the inductive invariant. *)

\* A run that still calls itself complete has lost nothing on the way: the
\* children it has passed are read, then every event page is listed, then every
\* one has its row, is still to be read, or is one of those it counts as errors.
Owed == Events \ (DOMAIN resource \cup run.wanted)

NothingLost ==
    run.is_complete =>
        /\ run.pc = "sitemap" => \A c \in 1..(run.child - 1) : c <= Len(Sitemap)
                                   => ToSet(Sitemap[c]) \subseteq ToSet(run.listed)
        /\ run.pc = "select" => Events \subseteq ToSet(run.listed)
        /\ run.pc = "read" => IsFiniteSet(Owed) /\ Cardinality(Owed) <= run.errors

\* What the record says it lacks, with the set itself finite.
RecordOwns ==
    record.is_complete =>
        /\ IsFiniteSet(Events \ DOMAIN resource)
        /\ Cardinality(Events \ DOMAIN resource) <= record.errors

PagesInv == NothingLost /\ RecordOwns

-----------------------------------------------------------------------------
(* ... and its lemmas. *)

\* What two sequences mention together.
LEMMA MentionsOfBoth ==
  ASSUME NEW S, NEW s \in Seq(S), NEW t \in Seq(S)
  PROVE  /\ s \o t \in Seq(S)
         /\ ToSet(s \o t) = ToSet(s) \cup ToSet(t)
<1>1. s \o t \in Seq(S)
  OBVIOUS
<1>2. ASSUME NEW u \in ToSet(s \o t) PROVE u \in ToSet(s) \cup ToSet(t)
  <2>1. PICK i \in DOMAIN (s \o t) : (s \o t)[i] = u
    BY <1>2 DEF ToSet
  <2>2. i \in 1..(Len(s) + Len(t))
    BY <2>1
  <2>3. CASE i <= Len(s)
    BY <2>1, <2>2, <2>3 DEF ToSet
  <2>4. CASE ~(i <= Len(s))
    <3>1. i - Len(s) \in 1..Len(t) /\ (s \o t)[i] = t[i - Len(s)]
      BY <2>2, <2>4
    <3> QED BY <3>1, <2>1 DEF ToSet
  <2> QED BY <2>3, <2>4
<1>3. ASSUME NEW u \in ToSet(s) PROVE u \in ToSet(s \o t)
  <2>1. PICK i \in 1..Len(s) : s[i] = u
    BY <1>3 DEF ToSet
  <2>2. i \in 1..Len(s \o t) /\ (s \o t)[i] = u
    BY <2>1
  <2> QED BY <2>2, <1>1 DEF ToSet
<1>4. ASSUME NEW u \in ToSet(t) PROVE u \in ToSet(s \o t)
  <2>1. PICK i \in 1..Len(t) : t[i] = u
    BY <1>4 DEF ToSet
  <2>2. Len(s) + i \in 1..Len(s \o t) /\ (s \o t)[Len(s) + i] = u
    BY <2>1
  <2> QED BY <2>2, <1>1 DEF ToSet
<1> QED BY <1>1, <1>2, <1>3, <1>4

\* What a sequence mentions is finite.
LEMMA MentionsAreOf ==
  ASSUME NEW S, NEW s \in Seq(S)
  PROVE  ToSet(s) \subseteq S /\ IsFiniteSet(ToSet(s))
<1>1. s \in [1..Len(s) -> ToSet(s)] /\ Len(s) \in Nat /\ ToSet(s) \subseteq S
  BY DEF ToSet
<1>2. s \in Surjection(1..Len(s), ToSet(s))
  BY <1>1 DEF Surjection, ToSet
<1>3. IsFiniteSet(1..Len(s))
  BY <1>1, FS_Interval
<1> QED BY <1>1, <1>2, <1>3, FS_Surjection

\* Where the wanted pages are not more than the cap, the cap leaves none out.
LEMMA TheCapLeavesNone ==
  ASSUME PagesAssumption, PagesTypeOK, Cardinality(Wanted) <= DetailCap, NEW u \in Wanted
  PROVE  Cardinality({v \in Wanted : IsBefore(v, u)}) < DetailCap
<1> DEFINE before == {v \in Wanted : IsBefore(v, u)}
<1>1. IsFiniteSet(Wanted)
  <2>1. run.listed \in Seq(Url)
    BY DEF PagesTypeOK, Run
  <2>2. IsFiniteSet(ToSet(run.listed))
    BY <2>1, MentionsAreOf
  <2>3. Wanted \subseteq ToSet(run.listed)
    BY DEF Wanted
  <2> QED BY <2>2, <2>3, FS_Subset
<1>2. ~IsBefore(u, u)
  <2>1. run.listed \in Seq(Url)
    BY DEF PagesTypeOK, Run
  <2>2. ASSUME NEW i \in DOMAIN run.listed PROVE i \in 1..i
    BY <2>1
  <2> QED BY <2>2 DEF IsBefore
<1>3. before \subseteq Wanted /\ before # Wanted
  BY <1>2
<1>4. /\ IsFiniteSet(before) /\ Cardinality(before) <= Cardinality(Wanted)
      /\ Cardinality(before) # Cardinality(Wanted)
  BY <1>1, <1>3, FS_Subset
<1>5. Cardinality(before) \in Nat /\ Cardinality(Wanted) \in Nat /\ DetailCap \in Nat
  BY <1>1, <1>4, FS_CardinalityType DEF PagesAssumption
<1> HIDE DEF before
<1>6. Cardinality(before) < DetailCap
  BY <1>4, <1>5
<1> QED BY <1>6 DEF before

-----------------------------------------------------------------------------
(* ... and its steps. *)

\* Nothing but the site, the clock and the faults moved.
LEMMA SiteMoves ==
  ASSUME PagesInv, UNCHANGED <<resource, record, run>>
  PROVE  PagesInv'
BY DEF PagesInv, NothingLost, Owed, RecordOwns

\* A step that leaves rows, record and clock alone keeps their types.
LEMMA RowsRest ==
  ASSUME PagesTypeOK, UNCHANGED <<today, edited, gone, resource, record>>,
         run' \in Run, run'.pc # "idle" => run'.now \in 1..today,
         crawlFaults' \in 0..MaxCrawlFaults
  PROVE  PagesTypeOK'
BY DEF PagesTypeOK, Run, Mode

\* One page less to read and one error more.
LEMMA AnErrorMore ==
  ASSUME run \in Run, NEW u,
         \/ run' = [run EXCEPT !.wanted = @ \ {u}, !.errors = @ + 1]
         \/ run' = [run EXCEPT !.wanted = @ \ {u}, !.is_complete = FALSE, !.errors = @ + 1]
  PROVE  /\ run' \in Run /\ run'.now = run.now /\ run'.pc = run.pc
         /\ run'.wanted = run.wanted \ {u} /\ run'.errors = run.errors + 1
         /\ run.errors \in Nat
<1> DEFINE rest == run.wanted \ {u}
           more == run.errors + 1
<1>1. rest \in SUBSET Url /\ more \in Nat /\ run.errors \in Nat
  BY DEF Run
<1>2. \/ run' = [run EXCEPT !.wanted = rest, !.errors = more]
      \/ run' = [run EXCEPT !.wanted = rest, !.is_complete = FALSE, !.errors = more]
  BY DEF Run
<1> HIDE DEF rest, more
<1>3. run' \in Run /\ run'.now = run.now /\ run'.pc = run.pc /\ run'.wanted = rest /\ run'.errors = more
  BY <1>1, <1>2 DEF Run
<1> QED BY <1>1, <1>3 DEF rest, more

\* A page read or refused leaves fewer than one page more owed.
LEMMA OwedAfterOne ==
  ASSUME NEW u, IsFiniteSet(Owed), DOMAIN resource \subseteq DOMAIN resource',
         run'.wanted = run.wanted \ {u}
  PROVE  /\ IsFiniteSet(Owed') /\ Cardinality(Owed) \in Nat /\ Cardinality(Owed') \in Nat
         /\ Cardinality(Owed') <= Cardinality(Owed) + 1
         /\ u \in DOMAIN resource' \/ u \notin Events => Cardinality(Owed') <= Cardinality(Owed)
<1>1. Owed' \subseteq Owed \cup {u}
  BY DEF Owed
<1>2. /\ IsFiniteSet(Owed \cup {u}) /\ Cardinality(Owed) \in Nat
      /\ Cardinality(Owed \cup {u}) <= Cardinality(Owed) + 1
  BY FS_AddElement, FS_CardinalityType
<1>3. /\ IsFiniteSet(Owed') /\ Cardinality(Owed') <= Cardinality(Owed \cup {u})
      /\ Cardinality(Owed \cup {u}) \in Nat /\ Cardinality(Owed') \in Nat
  BY <1>1, <1>2, FS_Subset, FS_CardinalityType
<1>4. ASSUME u \in DOMAIN resource' \/ u \notin Events PROVE Cardinality(Owed') <= Cardinality(Owed)
  <2>1. Owed' \subseteq Owed
    BY <1>4 DEF Owed
  <2> QED BY <2>1, FS_Subset
<1> QED BY <1>2, <1>3, <1>4

\* A row more does not make a record lack more.
LEMMA RecordStands ==
  ASSUME RecordOwns, record' = record, DOMAIN resource \subseteq DOMAIN resource', record.errors \in Nat
  PROVE  RecordOwns'
<1> SUFFICES ASSUME record.is_complete
             PROVE  /\ IsFiniteSet(Events \ DOMAIN resource')
                    /\ Cardinality(Events \ DOMAIN resource') <= record.errors
  BY DEF RecordOwns
<1>1. Events \ DOMAIN resource' \subseteq Events \ DOMAIN resource
  OBVIOUS
<1>2. /\ IsFiniteSet(Events \ DOMAIN resource)
      /\ Cardinality(Events \ DOMAIN resource) <= record.errors
  BY DEF RecordOwns
<1>3. /\ IsFiniteSet(Events \ DOMAIN resource')
      /\ Cardinality(Events \ DOMAIN resource') <= Cardinality(Events \ DOMAIN resource)
  BY <1>1, <1>2, FS_Subset
<1>4. Cardinality(Events \ DOMAIN resource) \in Nat /\ Cardinality(Events \ DOMAIN resource') \in Nat
  BY <1>2, <1>3, FS_CardinalityType
<1> QED BY <1>2, <1>3, <1>4

LEMMA CrawlTypes ==
  ASSUME PagesAssumption, PagesTypeOK, [PagesNext]_pagesVars
  PROVE  PagesTypeOK'
<1>0. /\ LastCrawlDay \in Nat /\ MaxCrawlFaults \in Nat /\ Sitemap \in Seq(Seq(Url)) /\ Events \subseteq Url
      /\ today \in 1..LastCrawlDay /\ crawlFaults \in 0..MaxCrawlFaults
      /\ run \in Run /\ (run.pc # "idle" => run.now \in 1..today)
  BY DEF PagesAssumption, PagesTypeOK
<1>1. CASE DayPasses
  BY <1>0, <1>1 DEF PagesTypeOK, DayPasses, Run, Mode
<1>2. ASSUME NEW u \in Url, EditPage(u) \/ TakeDown(u) PROVE PagesTypeOK'
  BY <1>2 DEF PagesTypeOK, EditPage, TakeDown, Run, Mode
<1>3. ASSUME NEW mode \in {"full", "incremental"}, BeginCrawl(mode) PROVE PagesTypeOK'
  <2>1. run' = [pc |-> "sitemap", mode |-> mode, child |-> 1, listed |-> <<>>, wanted |-> {},
               now |-> today, is_complete |-> TRUE, errors |-> 0]
    BY <1>3 DEF BeginCrawl, IdleRun
  <2>2. <<>> \in Seq(Url) /\ today \in 0..LastCrawlDay
    BY <1>0
  <2>3. run' \in Run /\ run'.now \in 1..today
    BY <1>0, <2>1, <2>2 DEF Run, Mode
  <2> QED BY <1>0, <1>3, <2>3, RowsRest DEF BeginCrawl
<1>4. CASE ChildUnreadable
  <2>0. run.child + 1 \in Nat \ {0} /\ run.errors + 1 \in Nat
    BY <1>0 DEF Run
  <2> DEFINE next == run.child + 1
             more == run.errors + 1
  <2>3. run' = [run EXCEPT !.child = next, !.is_complete = FALSE, !.errors = more] /\ run.pc # "idle"
    BY <1>0, <1>4 DEF ChildUnreadable, CrawlAt, Run
  <2>4. next \in Nat \ {0} /\ more \in Nat
    BY <2>0
  <2> HIDE DEF next, more
  <2>1. run' \in Run /\ run'.now = run.now /\ run.pc # "idle"
    BY <1>0, <2>3, <2>4 DEF Run
  <2>2. crawlFaults' \in 0..MaxCrawlFaults
    BY <1>0, <1>4 DEF ChildUnreadable, CrawlFault
  <2> QED BY <1>0, <1>4, <2>1, <2>2, RowsRest DEF ChildUnreadable
<1>5. CASE ReadChild
  <2>1. run.child \in 1..Len(Sitemap) /\ run.listed \in Seq(Url)
    BY <1>0, <1>5 DEF ReadChild, Run
  <2>2. Sitemap[run.child] \in Seq(Url)
    BY <1>0, <2>1
  <2>3. run.listed \o Sitemap[run.child] \in Seq(Url)
    BY <2>1, <2>2
  <2>5. run.child + 1 \in Nat \ {0} /\ run.pc # "idle"
    BY <1>0, <1>5 DEF ReadChild, CrawlAt, Run
  <2>6. run' = [run EXCEPT !.child = run.child + 1, !.listed = run.listed \o Sitemap[run.child]]
    BY <1>0, <1>5 DEF ReadChild, Run
  <2>4. run' \in Run /\ run'.now = run.now /\ run.pc # "idle"
    BY <1>0, <2>3, <2>5, <2>6 DEF Run
  <2> QED BY <1>0, <1>5, <2>4, RowsRest DEF ReadChild
<1>6. CASE EndOfSitemap
  <2>1. run' \in Run /\ run'.now = run.now /\ run.pc # "idle"
    BY <1>0, <1>6 DEF EndOfSitemap, CrawlAt, Run, Mode
  <2> QED BY <1>0, <1>6, <2>1, RowsRest DEF EndOfSitemap
<1>7. CASE Select
  <2> DEFINE first == {u \in Wanted : Cardinality({v \in Wanted : IsBefore(v, u)}) < DetailCap}
             whole == run.is_complete /\ Cardinality(Wanted) <= DetailCap
  <2>1. ToSet(run.listed) \subseteq Url
    BY <1>0, MentionsAreOf DEF Run
  <2>2. first \in SUBSET Url /\ whole \in BOOLEAN
    BY <2>1 DEF Wanted
  <2>3. run' = [run EXCEPT !.pc = "read", !.wanted = first, !.is_complete = whole]
    BY <1>0, <1>7 DEF Select, Run
  <2> HIDE DEF first, whole
  <2>4. run' \in Run /\ run'.now = run.now
    BY <1>0, <2>2, <2>3 DEF Run
  <2> QED BY <1>0, <1>7, <2>4, RowsRest DEF Select, CrawlAt
<1>8. CASE RecordRun
  <2>1. ToSet(run.listed) \subseteq Url
    BY <1>0, MentionsAreOf DEF Run
  <2>2. record' \in [is_complete : BOOLEAN, mode : Mode, listed : SUBSET Url, errors : Nat]
    BY <1>0, <1>8, <2>1 DEF RecordRun, Run
  <2>3. run' \in Run /\ run'.pc = "idle"
    BY <1>0, <1>8 DEF RecordRun, IdleRun, Run, Mode
  <2> QED BY <1>0, <1>8, <2>2, <2>3 DEF PagesTypeOK, RecordRun
<1>9. ASSUME NEW u \in Url, ReadPage(u) PROVE PagesTypeOK'
  <2>1. run' \in Run /\ run'.now = run.now /\ run.pc # "idle"
    BY <1>0, <1>9 DEF ReadPage, CrawlAt, Run, Mode
  <2>2. run.now \in 1..today
    BY <1>0, <2>1
  <2>3. ASSUME NEW v \in DOMAIN resource'
        PROVE  /\ resource'[v].edited \in BOOLEAN
               /\ {resource'[v].seen, resource'[v].changed} \subseteq 1..today
    <3>1. CASE u \notin Events \/ v # u
      <4>1. v \in DOMAIN resource /\ resource'[v] = resource[v]
        BY <1>9, <3>1, <2>3 DEF ReadPage, Observed
      <4> QED BY <4>1 DEF PagesTypeOK
    <3>2. CASE u \in Events /\ v = u
      <4>1. resource'[v] = [edited |-> u \in edited, seen |-> run.now, changed |-> ChangedAt(u)]
        BY <1>9, <3>2 DEF ReadPage, Observed
      <4>2. /\ resource'[v].edited = (u \in edited) /\ resource'[v].seen = run.now
            /\ resource'[v].changed = ChangedAt(u)
        BY <4>1
      <4>3. ChangedAt(u) \in 1..today
        BY <2>2 DEF ChangedAt, PagesTypeOK
      <4>4. (u \in edited) \in BOOLEAN
        OBVIOUS
      <4> QED BY <2>2, <4>2, <4>3, <4>4
    <3> QED BY <3>1, <3>2
  <2>4. DOMAIN resource' \subseteq Events
    BY <1>9 DEF ReadPage, Observed, PagesTypeOK
  <2> QED BY <1>0, <1>9, <2>1, <2>2, <2>3, <2>4 DEF PagesTypeOK, ReadPage
<1>10. ASSUME NEW u \in Url, PageIsGone(u) \/ PageRefused(u) PROVE PagesTypeOK'
  <2>1. run' \in Run /\ run'.now = run.now /\ run.pc # "idle"
    BY <1>0, <1>10, AnErrorMore DEF PageIsGone, PageRefused, PageUnreadable, CrawlAt
  <2> QED BY <1>0, <1>10, <2>1, RowsRest DEF PageIsGone, PageRefused, PageUnreadable
<1>11. ASSUME NEW u \in Url, PageFails(u) PROVE PagesTypeOK'
  <2>1. run' \in Run /\ run'.now = run.now /\ run.pc # "idle"
    BY <1>0, <1>11, AnErrorMore DEF PageFails, PageUnreadable, CrawlAt
  <2>2. crawlFaults' \in 0..MaxCrawlFaults
    BY <1>0, <1>11 DEF PageFails, CrawlFault
  <2> QED BY <1>0, <1>11, <2>1, <2>2, RowsRest DEF PageFails, PageUnreadable
<1>12. CASE CrawlDies
  <2>1. run' \in Run /\ run'.pc = "idle"
    BY <1>0, <1>12 DEF CrawlDies, IdleRun, Run, Mode
  <2>2. crawlFaults' \in 0..MaxCrawlFaults
    BY <1>0, <1>12 DEF CrawlDies, CrawlFault
  <2> QED BY <1>12, <2>1, <2>2, RowsRest DEF CrawlDies
<1>13. CASE UNCHANGED pagesVars
  BY <1>0, <1>13, RowsRest DEF pagesVars
<1> QED BY <1>1, <1>2, <1>3, <1>4, <1>5, <1>6, <1>7, <1>8, <1>9, <1>10, <1>11, <1>12, <1>13
        DEF PagesNext, CrawlStep

LEMMA CrawlKeepsCount ==
  ASSUME PagesAssumption, PagesTypeOK, PagesInv, [PagesNext]_pagesVars
  PROVE  PagesInv'
<1>0. /\ run.listed \in Seq(Url) /\ run.child \in Nat \ {0}
      /\ Sitemap \in Seq(Seq(Url)) /\ Len(Sitemap) \in Nat /\ Events \subseteq Url
  BY DEF PagesAssumption, PagesTypeOK, Run
<1>1. CASE DayPasses \/ UNCHANGED pagesVars \/ \E u \in Url : EditPage(u) \/ TakeDown(u)
  BY <1>1, SiteMoves DEF DayPasses, EditPage, TakeDown, pagesVars
<1>2. ASSUME NEW mode \in {"full", "incremental"}, BeginCrawl(mode) PROVE PagesInv'
  <2>1. run'.pc = "sitemap" /\ run'.child = 1 /\ UNCHANGED <<resource, record>>
    BY <1>2 DEF BeginCrawl, IdleRun
  <2>2. 1..(run'.child - 1) = {}
    BY <2>1
  <2> QED BY <2>1, <2>2 DEF PagesInv, NothingLost, Owed, RecordOwns
<1>3. CASE ChildUnreadable
  <2> DEFINE next == run.child + 1
             more == run.errors + 1
  <2>2. /\ run' = [run EXCEPT !.child = next, !.is_complete = FALSE, !.errors = more]
        /\ run \in Run /\ UNCHANGED <<resource, record>>
    BY <1>3 DEF ChildUnreadable, PagesTypeOK, Run
  <2>3. next \in Nat \ {0} /\ more \in Nat
    BY <1>0, <2>2 DEF Run
  <2> HIDE DEF next, more
  <2>1. run' \in Run /\ run'.is_complete = FALSE
    BY <2>2, <2>3 DEF Run
  <2> QED BY <2>1, <2>2 DEF PagesInv, NothingLost, RecordOwns
<1>4. CASE ReadChild
  <2>1. /\ run.pc = "sitemap" /\ run'.pc = "sitemap" /\ run.child \in 1..Len(Sitemap)
        /\ run'.child = run.child + 1 /\ run'.is_complete = run.is_complete
        /\ run'.listed = run.listed \o Sitemap[run.child] /\ UNCHANGED <<resource, record>>
    <3> DEFINE next == run.child + 1
               longer == run.listed \o Sitemap[run.child]
    <3>1. /\ run' = [run EXCEPT !.child = next, !.listed = longer] /\ run \in Run
          /\ run.pc = "sitemap" /\ run.child <= Len(Sitemap) /\ UNCHANGED <<resource, record>>
      BY <1>4 DEF ReadChild, CrawlAt, PagesTypeOK, Run
    <3> HIDE DEF next, longer
    <3>2. /\ run'.pc = run.pc /\ run'.child = next /\ run'.is_complete = run.is_complete
          /\ run'.listed = longer
      BY <3>1 DEF Run
    <3>3. run.child \in 1..Len(Sitemap)
      BY <1>0, <3>1
    <3> QED BY <3>1, <3>2, <3>3, Zenon DEF next, longer
  <2>2. ToSet(run'.listed) = ToSet(run.listed) \cup ToSet(Sitemap[run.child])
    <3>1. Sitemap[run.child] \in Seq(Url)
      BY <1>0, <2>1
    <3> QED BY <1>0, <2>1, <3>1, MentionsOfBoth
  <2>3. ASSUME run'.is_complete, NEW c \in 1..(run'.child - 1), c <= Len(Sitemap)
        PROVE  ToSet(Sitemap[c]) \subseteq ToSet(run'.listed)
    <3>1. c \in 1..(run.child - 1) \/ c = run.child
      BY <1>0, <2>1, <2>3
    <3> QED BY <2>1, <2>2, <2>3, <3>1 DEF PagesInv, NothingLost
  <2> QED BY <2>1, <2>3 DEF PagesInv, NothingLost, Owed, RecordOwns
<1>5. CASE EndOfSitemap
  <2>1. /\ run.pc = "sitemap" /\ run'.pc = "select" /\ run.child > Len(Sitemap)
        /\ run'.is_complete = run.is_complete
        /\ run'.listed = run.listed /\ UNCHANGED <<resource, record>>
    BY <1>5 DEF EndOfSitemap, CrawlAt, PagesTypeOK, Run
  <2>2. ASSUME run'.is_complete PROVE Events \subseteq ToSet(run'.listed)
    <3>1. \A c \in 1..Len(Sitemap) : ToSet(Sitemap[c]) \subseteq ToSet(run.listed)
      BY <1>0, <2>1, <2>2 DEF PagesInv, NothingLost
    <3>2. \A c \in DOMAIN Sitemap : ToSet(Sitemap[c]) \subseteq ToSet(run.listed)
      <4>1. DOMAIN Sitemap = 1..Len(Sitemap)
        BY <1>0
      <4> QED BY <3>1, <4>1
    <3>3. Url \subseteq ToSet(run.listed)
      BY <3>2 DEF Url
    <3> QED BY <1>0, <2>1, <3>3
  <2> QED BY <2>1, <2>2 DEF PagesInv, NothingLost, Owed, RecordOwns
<1>6. CASE Select
  <2>1. /\ run.pc = "select" /\ run'.pc = "read" /\ UNCHANGED <<resource, record>>
        /\ run'.is_complete = (run.is_complete /\ Cardinality(Wanted) <= DetailCap)
        /\ run'.wanted = {u \in Wanted : Cardinality({v \in Wanted : IsBefore(v, u)}) < DetailCap}
    BY <1>6 DEF Select, CrawlAt, PagesTypeOK, Run
  <2>2. ASSUME run'.is_complete PROVE Owed' = {}
    <3>1. Wanted \subseteq run'.wanted
      BY <2>1, <2>2, TheCapLeavesNone
    <3>2. Events \subseteq ToSet(run.listed)
      BY <2>1, <2>2 DEF PagesInv, NothingLost
    <3>3. Events \subseteq DOMAIN resource \cup Wanted
      BY <3>2 DEF Wanted
    <3> QED BY <2>1, <3>1, <3>3 DEF Owed
  <2>3. /\ IsFiniteSet({}) /\ Cardinality({}) = 0
        /\ run'.errors = run.errors /\ run.errors \in Nat
    BY <1>6, FS_EmptySet DEF Select, PagesTypeOK, Run
  <2>4. NothingLost'
    <3>1. run'.pc # "sitemap" /\ run'.pc # "select"
      BY <2>1
    <3>2. ASSUME run'.is_complete
          PROVE  IsFiniteSet(Owed') /\ Cardinality(Owed') <= run'.errors
      <4> DEFINE left == Owed'
      <4>1. left = {}
        BY <2>2, <3>2
      <4> HIDE DEF left
      <4>2. IsFiniteSet(left) /\ Cardinality(left) <= run'.errors
        BY <2>3, <4>1
      <4> QED BY <4>2 DEF left
    <3> QED BY <3>1, <3>2 DEF NothingLost
  <2> QED BY <2>1, <2>4 DEF PagesInv, RecordOwns
<1>7. ASSUME NEW u \in Url, ReadPage(u) PROVE PagesInv'
  <2>1. /\ run.pc = "read" /\ run'.pc = "read" /\ UNCHANGED record
        /\ run'.is_complete = run.is_complete /\ run'.wanted = run.wanted \ {u}
        /\ run'.errors = run.errors /\ run.errors \in Nat /\ resource' = Observed(u)
    BY <1>7 DEF ReadPage, CrawlAt, PagesTypeOK, Run
  <2>2. DOMAIN resource \subseteq DOMAIN resource' /\ (u \in Events => u \in DOMAIN resource')
    BY <2>1 DEF Observed
  <2>3. ASSUME run'.is_complete PROVE IsFiniteSet(Owed') /\ Cardinality(Owed') <= run'.errors
    <3>1. IsFiniteSet(Owed) /\ Cardinality(Owed) <= run.errors
      BY <2>1, <2>3 DEF PagesInv, NothingLost
    <3> QED BY <2>1, <2>2, <3>1, OwedAfterOne
  <2>4. RecordOwns'
    BY <2>1, <2>2, RecordStands DEF PagesInv, PagesTypeOK
  <2> QED BY <2>1, <2>3, <2>4 DEF PagesInv, NothingLost
<1>8. ASSUME NEW u \in Url, PageIsGone(u) \/ PageFails(u) PROVE PagesInv'
  BY <1>8 DEF PageIsGone, PageFails, PageUnreadable, PagesInv, NothingLost, RecordOwns,
     PagesTypeOK, Run
<1>11. ASSUME NEW u \in Url, PageRefused(u) PROVE PagesInv'
  <2>1. /\ run.pc = "read" /\ run'.pc = "read" /\ UNCHANGED <<record, resource>>
        /\ run'.wanted = run.wanted \ {u}
        /\ run'.errors = run.errors + 1 /\ run.errors \in Nat
    BY <1>11, AnErrorMore DEF PageRefused, CrawlAt, PagesTypeOK
  <2>2. run'.is_complete = run.is_complete
    BY <1>11 DEF PageRefused, PagesTypeOK, Run
  <2>3. ASSUME run'.is_complete PROVE IsFiniteSet(Owed') /\ Cardinality(Owed') <= run'.errors
    <3>1. IsFiniteSet(Owed) /\ Cardinality(Owed) <= run.errors
      BY <2>1, <2>2, <2>3 DEF PagesInv, NothingLost
    <3>2. /\ IsFiniteSet(Owed') /\ Cardinality(Owed) \in Nat /\ Cardinality(Owed') \in Nat
          /\ Cardinality(Owed') <= Cardinality(Owed) + 1
      BY <2>1, <3>1, OwedAfterOne
    <3> QED BY <2>1, <3>1, <3>2
  <2> QED BY <2>1, <2>3 DEF PagesInv, NothingLost, RecordOwns
<1>9. CASE RecordRun
  <2>1. /\ run.pc = "read" /\ run.wanted = {} /\ run' = IdleRun /\ UNCHANGED resource
        /\ record'.is_complete = run.is_complete /\ record'.errors = run.errors
    BY <1>9 DEF RecordRun, CrawlAt
  <2>2. Owed = Events \ DOMAIN resource
    BY <2>1 DEF Owed
  <2> QED BY <2>1, <2>2 DEF IdleRun, PagesInv, NothingLost, RecordOwns
<1>10. CASE CrawlDies
  BY <1>10 DEF CrawlDies, IdleRun, PagesInv, NothingLost, Owed, RecordOwns
<1> QED BY <1>1, <1>2, <1>3, <1>4, <1>5, <1>6, <1>7, <1>8, <1>9, <1>10, <1>11
        DEF PagesNext, CrawlStep

LEMMA CrawlBegins ==
  ASSUME PagesAssumption
  PROVE  PagesInit => PagesTypeOK /\ PagesInv
<1>1. LastCrawlDay \in Nat \ {0} /\ MaxCrawlFaults \in Nat
  BY DEF PagesAssumption
<1>2. <<>> \in Seq(Url) /\ DOMAIN <<>> = {}
  OBVIOUS
<1> QED BY <1>1, <1>2 DEF PagesInit, PagesTypeOK, PagesInv, NothingLost, Owed, RecordOwns,
           IdleRun, NoRecord, Run, Mode

LEMMA CrawlInvariant ==
  ASSUME PagesAssumption
  PROVE  PagesSpec => [](PagesTypeOK /\ PagesInv)
<1>1. PagesTypeOK /\ PagesInv /\ [PagesNext]_pagesVars => (PagesTypeOK /\ PagesInv)'
  BY CrawlTypes, CrawlKeepsCount
<1> QED BY CrawlBegins, <1>1, PTL DEF PagesSpec

\* Every variable of the discovery keeps its type, for any sitemap, cap, recheck
\* interval and bounds.
THEOREM PagesTypeCorrect ==
  ASSUME PagesAssumption
  PROVE  PagesSpec => []PagesTypeOK
BY CrawlInvariant, PTL

\* A record that says complete lacks at most as many event pages as it counts
\* errors: for any sitemap, cap and recheck interval, and whatever is edited, taken
\* down, unreadable or refused.
THEOREM CompleteRunsLackOnlyErrors ==
  ASSUME PagesAssumption
  PROVE  PagesSpec => []ErrorsCoverTheLack
<1>1. PagesInv => ErrorsCoverTheLack
  BY DEF PagesInv, RecordOwns, ErrorsCoverTheLack
<1> QED BY CrawlInvariant, <1>1, PTL

-----------------------------------------------------------------------------
(* The archive: what the merge keeps, and in which order. *)

\* Counting from the least, every member of a finite set of numbers has a rank of
\* its own, and every rank is taken.
LEMMA RankIsBijective ==
  ASSUME NEW K, K \subseteq Int, IsFiniteSet(K),
         NEW rank, rank = [i \in K |-> Cardinality({j \in K : j <= i})]
  PROVE  /\ Cardinality(K) \in Nat
         /\ \A i \in K : rank[i] \in 1..Cardinality(K)
         /\ \A i, j \in K : i < j => rank[i] < rank[j]
         /\ \A k \in 1..Cardinality(K) : \E i \in K : rank[i] = k
<1> DEFINE n == Cardinality(K)
           Below(i) == {j \in K : j <= i}
<1>1. n \in Nat
  BY FS_CardinalityType
<1>2. ASSUME NEW i \in K
      PROVE  IsFiniteSet(Below(i)) /\ Cardinality(Below(i)) \in 1..n
  <2>1. Below(i) \in SUBSET K /\ i \in Below(i)
    OBVIOUS
  <2>2. IsFiniteSet(Below(i)) /\ Cardinality(Below(i)) <= n
    BY <2>1, FS_Subset
  <2>3. Cardinality(Below(i)) \in Nat /\ Cardinality(Below(i)) # 0
    BY <2>1, <2>2, FS_CardinalityType, FS_EmptySet
  <2> HIDE DEF Below, n
  <2> QED BY <1>1, <2>2, <2>3
<1>3. ASSUME NEW i \in K, NEW j \in K, i < j
      PROVE  rank[i] < rank[j]
  <2>1. Below(i) \in SUBSET Below(j) /\ j \in Below(j) /\ j \notin Below(i)
    <3>1. i \in Int /\ j \in Int /\ i < j
      BY <1>3
    <3>2. \A x \in Below(i) : x \in Below(j)
      BY <3>1
    <3>3. j \in Below(j) /\ j \notin Below(i)
      BY <3>1
    <3> HIDE DEF Below
    <3> QED BY <3>2, <3>3
  <2>2. Cardinality(Below(i)) <= Cardinality(Below(j))
    BY <1>2, <2>1, FS_Subset
  <2>3. Cardinality(Below(i)) # Cardinality(Below(j))
    BY <1>2, <2>1, FS_Subset
  <2>4. rank[i] = Cardinality(Below(i)) /\ rank[j] = Cardinality(Below(j))
    OBVIOUS
  <2>5. Cardinality(Below(i)) \in Int /\ Cardinality(Below(j)) \in Int
    BY <1>1, <1>2
  <2> HIDE DEF Below, n
  <2> QED BY <2>2, <2>3, <2>4, <2>5
<1>4. rank \in [K -> 1..n]
  BY <1>2
<1>5. rank \in Injection(K, 1..n)
  <2>1. ASSUME NEW i \in K, NEW j \in K, rank[i] = rank[j]
        PROVE  i = j
    <3>1. rank[i] \in Int /\ rank[j] \in Int
      BY <1>1, <1>4
    <3>2. ~(i < j) /\ ~(j < i)
      BY <1>3, <2>1, <3>1
    <3> QED BY <3>2
  <2> HIDE DEF n
  <2> QED BY <1>4, <2>1 DEF Injection, IsInjective
<1>6. rank \in Surjection(K, 1..n)
  <2>1. IsFiniteSet(1..n) /\ Cardinality(1..n) = n
    BY <1>1, FS_Interval
  <2> QED BY <1>5, <2>1, FS_Injection
<1>7. \A k \in 1..n : \E i \in K : rank[i] = k
  BY <1>6 DEF Surjection
<1> QED BY <1>1, <1>3, <1>4, <1>7

\* The other entries stand in the order they had, and all of them stand.
OthersStand(s, T, o) ==
    /\ o \in Seq(Entry)
    /\ \A k \in 1..Len(o) : o[k].topic \notin T
    /\ \A k, l \in 1..Len(o) : k < l =>
          \E i, j \in 1..Len(s) : i < j /\ o[k] = s[i] /\ o[l] = s[j]
    /\ Topics(o) = Topics(s) \ T

LEMMA OthersKeepTheirOrder ==
  ASSUME NEW s \in Seq(Entry), NEW T
  PROVE  OthersStand(s, T, Others(s, T))
<1> DEFINE K == {i \in DOMAIN s : s[i].topic \notin T}
           n == Cardinality(K)
           rank == [i \in K |-> Cardinality({j \in K : j <= i})]
           at(k) == CHOOSE i \in K : Cardinality({j \in K : j <= i}) = k
           o == [k \in 1..n |-> s[at(k)]]
<1>1. Others(s, T) = o
  BY Zenon DEF Others
<1>2. K \subseteq Int /\ IsFiniteSet(K) /\ K \subseteq 1..Len(s)
  <2>1. DOMAIN s = 1..Len(s) /\ Len(s) \in Nat
    OBVIOUS
  <2>2. K \in SUBSET (1..Len(s))
    BY <2>1
  <2>3. IsFiniteSet(1..Len(s))
    BY <2>1, FS_Interval
  <2> QED BY <2>2, <2>3, FS_Subset
<1>3. /\ n \in Nat
      /\ \A i \in K : rank[i] \in 1..n
      /\ \A i, j \in K : i < j => rank[i] < rank[j]
      /\ \A k \in 1..n : \E i \in K : rank[i] = k
  <2> HIDE DEF K
  <2> QED BY <1>2, RankIsBijective, Zenon
<1>4. \A i \in K : rank[i] = Cardinality({j \in K : j <= i})
  OBVIOUS
<1>5. \A k \in 1..n : at(k) \in K /\ rank[at(k)] = k
  <2>1. \A k \in 1..n : \E i \in K : Cardinality({j \in K : j <= i}) = k
    BY <1>3, <1>4
  <2> HIDE DEF K, n, rank
  <2>2. \A k \in 1..n : at(k) \in K /\ Cardinality({j \in K : j <= at(k)}) = k
    BY <2>1
  <2> QED BY <1>4, <2>2
<1> HIDE DEF rank, at, n
<1>6. \A k \in 1..n : s[at(k)] \in Entry /\ s[at(k)].topic \notin T
  BY <1>2, <1>5
<1>7. o \in Seq(Entry) /\ Len(o) = n /\ \A k \in 1..n : o[k] = s[at(k)]
  BY <1>3, <1>6
<1>8. \A k, l \in 1..n : k < l => at(k) < at(l)
  <2>1. ASSUME NEW k \in 1..n, NEW l \in 1..n, k < l
        PROVE  at(k) < at(l)
    <3>1. at(k) \in K /\ at(l) \in K /\ rank[at(k)] = k /\ rank[at(l)] = l
      BY <1>5
    <3>2. ~(at(l) < at(k)) /\ at(l) # at(k)
      BY <1>3, <2>1, <3>1
    <3> QED BY <1>2, <3>1, <3>2
  <2> QED BY <2>1
<1>9. \A i \in K : at(rank[i]) = i
  <2>1. ASSUME NEW i \in K
        PROVE  at(rank[i]) = i
    <3>1. rank[i] \in 1..n /\ at(rank[i]) \in K /\ rank[at(rank[i])] = rank[i]
      BY <1>3, <1>5
    <3>2. ~(at(rank[i]) < i) /\ ~(i < at(rank[i]))
      BY <1>3, <3>1
    <3> QED BY <1>2, <3>1, <3>2
  <2> QED BY <2>1
<1>10. Topics(o) = Topics(s) \ T
  <2>1. Topics(o) \subseteq Topics(s) \ T
    BY <1>2, <1>5, <1>6, <1>7 DEF Topics, ToSet
  <2>2. ASSUME NEW t \in Topics(s) \ T
        PROVE  t \in Topics(o)
    <3>1. PICK i \in DOMAIN s : s[i].topic = t
      BY DEF Topics, ToSet
    <3>2. i \in K
      BY <3>1
    <3>3. rank[i] \in 1..n /\ o[rank[i]] = s[i]
      BY <1>3, <1>7, <1>9, <3>2
    <3>4. rank[i] \in DOMAIN o /\ o[rank[i]].topic = t
      BY <1>7, <3>1, <3>3
    <3> HIDE DEF o
    <3>5. o[rank[i]] \in ToSet(o)
      BY <3>4, Zenon DEF ToSet
    <3>6. \E e \in ToSet(o) : t = e.topic
      BY <3>4, <3>5
    <3> QED BY <3>6, Zenon DEF Topics
  <2> QED BY <2>1, <2>2
<1>11. \A k \in 1..Len(o) : o[k].topic \notin T
  BY <1>6, <1>7
<1>12. \A k, l \in 1..Len(o) : k < l =>
          \E i, j \in 1..Len(s) : i < j /\ o[k] = s[i] /\ o[l] = s[j]
  BY <1>2, <1>5, <1>7, <1>8
<1> HIDE DEF o
<1>13. OthersStand(s, T, o)
  BY <1>7, <1>10, <1>11, <1>12 DEF OthersStand
<1> QED BY <1>1, <1>13

-----------------------------------------------------------------------------
(* The archive: the inductive invariant. *)

Archived == ToSet(listing) \cup withdrawn

\* The listing shows the later topics first.
ListingDescends ==
    /\ listing \in Seq(Topic) /\ withdrawn \subseteq Topic
    /\ \A i, j \in DOMAIN listing : i < j => listing[i] > listing[j]

\* What a run and a snapshot consist of.  What the passes spend and read is not
\* said: nothing below depends on it.
RunsAreTyped ==
    /\ walk \in [pc : {"idle", "list", "priority", "window", "publish"}, full : BOOLEAN,
                page : Nat, last : Int, known : {walk.known}, entries : Seq(Entry),
                reached_end : {walk.reached_end}, since : SUBSET Topic, torn : BOOLEAN,
                priority : {walk.priority}, left : {walk.left},
                hydrated : {walk.hydrated}, failed : {walk.failed}]
    /\ snap.entries \in Seq(Entry) /\ snap.torn \in BOOLEAN

\* Runs and snapshots know of nothing that was not archived.
NothingInvented ==
    /\ Topics(snap.entries) \cup snap.since \subseteq Archived
    /\ Topics(walk.entries) \cup walk.since \subseteq Archived

\* A walk under which the listing did not move unseen: what it has read is still
\* listed in one piece, behind the k topics that came after its first page.
WalkIsOnePiece ==
    walk.pc = "list" /\ ~walk.torn =>
        /\ ~PassesUnseen(listing)
        /\ Len(walk.entries) = walk.page * PageSize
        /\ \E k \in Nat :
              /\ k + Len(walk.entries) <= Len(listing)
              /\ \A i \in 1..k : listing[i] \notin walk.since
              /\ \A i \in 1..Len(walk.entries) : walk.entries[i].topic = listing[k + i]
              /\ walk.page = 0 => k = 0
              /\ walk.page > 0 => walk.last = (Len(listing) - k - 1) \div PageSize

WillBeTorn == walk.torn \/ (~walk.full /\ snap.torn)

\* A listed topic that the walk did not see came after it, or stands behind all
\* that it saw and is in the snapshot.
Covered(u) ==
    \/ /\ u \notin walk.since \cup Topics(snap.entries)
       /\ \A t \in Topics(walk.entries) : t < u
    \/ /\ ~walk.full /\ u \in Topics(snap.entries)
       /\ \A t \in Topics(walk.entries) : u < t

WalkCovers ==
    walk.pc = "priority" /\ ~WillBeTorn =>
        /\ \A i, j \in 1..Len(walk.entries) :
              i < j => walk.entries[i].topic > walk.entries[j].topic
        /\ \A u \in ToSet(listing) \ Topics(walk.entries) : Covered(u)

\* A catalogue with no gaps: whatever is listed and older than an entry is an
\* entry, and so is what was listed at the beginning; no recent entry that is
\* still listed stands behind an old one.
Sound(s, listed) ==
    /\ \A t \in Topics(s.entries), u \in listed : u < t => u \in Topics(s.entries)
    /\ s.since \cap listed \subseteq Topics(s.entries)
    /\ \A i, j \in 1..Len(s.entries) :
          i < j /\ s.entries[j].topic \in listed /\ IsOlder(s.entries[i].topic)
              => IsOlder(s.entries[j].topic)

RunIsSound ==
    walk.pc \in {"window", "publish"} /\ ~WillBeTorn => Sound(walk, ToSet(listing))

SnapshotIsSound ==
    ~snap.torn => Sound(snap, ToSet(listing)) /\ BackfillIsHonest

ArchiveInv ==
    /\ ListingDescends /\ RunsAreTyped /\ NothingInvented
    /\ WalkIsOnePiece /\ WalkCovers /\ RunIsSound /\ SnapshotIsSound

-----------------------------------------------------------------------------
(* The archive: the site moves. *)

\* Of the topics listed next, those not listed before are newer than all.
OnlyNewer(listed, next) ==
    \A u \in next : u \in listed \/ (u \notin Archived /\ \A t \in Archived : t < u)

LEMMA SoundStays ==
  ASSUME NEW s, s.entries \in Seq(Entry), Topics(s.entries) \cup s.since \subseteq Archived,
         Archived \subseteq Topic,
         NEW listed, NEW next, next \subseteq Topic, OnlyNewer(listed, next), Sound(s, listed)
  PROVE  Sound(s, next)
<1>1. Topic \subseteq Nat
  BY ArchiveAssumption DEF Topic, ArchiveAssumption
<1>2. \A i \in 1..Len(s.entries) : s.entries[i].topic \in Topics(s.entries)
  BY DEF Topics, ToSet
<1>3. \A u \in next \ listed : u \notin Archived /\ \A t \in Archived : t < u
  BY DEF OnlyNewer
<1>4. ASSUME NEW t \in Topics(s.entries), NEW u \in next, u < t
      PROVE  u \in Topics(s.entries)
  <2>1. t \in Archived /\ t \in Int /\ u \in Int
    <3>1. t \in Archived
      OBVIOUS
    <3>2. t \in Topic /\ u \in Topic
      BY <3>1
    <3> QED BY <1>1, <3>1, <3>2
  <2>2. CASE u \in listed
    BY <1>4, <2>2 DEF Sound
  <2>3. CASE u \notin listed
    <3>1. t < u
      BY <1>3, <2>1, <2>3
    <3> QED BY <1>4, <2>1, <3>1
  <2> QED BY <2>2, <2>3
<1>5. s.since \cap next \subseteq Topics(s.entries)
  BY <1>3 DEF Sound
<1>6. ASSUME NEW i \in 1..Len(s.entries), NEW j \in 1..Len(s.entries), i < j,
             s.entries[j].topic \in next, IsOlder(s.entries[i].topic)
      PROVE  IsOlder(s.entries[j].topic)
  <2>1. s.entries[j].topic \in listed
    BY <1>2, <1>3, <1>6
  <2> QED BY <1>6, <2>1 DEF Sound
<1> QED BY <1>4, <1>5, <1>6 DEF Sound

\* What the site does to the listing: at most one topic comes, and it is newer
\* than all that ever were.
LEMMA ArrivalIsNewer ==
  ASSUME ListingDescends, NEW t \in Topic, Archive(t)
  PROVE  /\ ListingDescends'
         /\ Archived' = Archived \cup {t}
         /\ OnlyNewer(ToSet(listing), ToSet(listing'))
         /\ Len(listing') = Len(listing) + 1 /\ listing'[1] = t
         /\ \A i \in 1..Len(listing) : listing'[i + 1] = listing[i]
         /\ t \notin Archived /\ \A u \in Archived : u < t
<1>1. Topic \subseteq Nat
  BY ArchiveAssumption DEF Topic, ArchiveAssumption
<1>2. listing \in Seq(Topic) /\ listing' = <<t>> \o listing /\ withdrawn' = withdrawn
  BY DEF ListingDescends, Archive
<1>3. /\ listing' \in Seq(Topic) /\ Len(listing') = Len(listing) + 1 /\ listing'[1] = t
      /\ \A i \in 1..Len(listing) : listing'[i + 1] = listing[i]
  BY <1>2
<1>4. \A u \in Topic : u \in Archived <=> u < t
  BY DEF Archive, Archived
<1>5. Archived \subseteq Topic
  BY <1>2 DEF Archived, ToSet, ListingDescends
<1>6. t \notin Archived /\ \A u \in Archived : u < t
  BY <1>1, <1>4, <1>5
<1>7. \A i \in 1..Len(listing) : listing[i] \in Archived
  BY <1>2 DEF Archived, ToSet
<1>8. \A i \in 1..Len(listing') : i = 1 \/ (i - 1 \in 1..Len(listing) /\ listing'[i] = listing[i - 1])
  <2>1. ASSUME NEW i \in 1..Len(listing'), i # 1
        PROVE  i - 1 \in 1..Len(listing) /\ listing'[i] = listing[i - 1]
    <3>1. i - 1 \in 1..Len(listing)
      BY <1>2, <1>3, <2>1
    <3>2. listing'[(i - 1) + 1] = listing[i - 1]
      BY <1>3, <3>1
    <3> QED BY <3>1, <3>2
  <2> QED BY <2>1
<1>9. ToSet(listing') = ToSet(listing) \cup {t}
  <2>1. DOMAIN listing = 1..Len(listing) /\ DOMAIN listing' = 1..Len(listing') /\ Len(listing) \in Nat
    BY <1>2, <1>3
  <2>2. ToSet(listing') \subseteq ToSet(listing) \cup {t}
    BY <1>3, <1>8, <2>1 DEF ToSet
  <2>3. t \in ToSet(listing')
    <3>1. 1 \in DOMAIN listing'
      BY <1>3, <2>1
    <3> QED BY <1>3, <3>1 DEF ToSet
  <2>4. \A i \in 1..Len(listing) : listing[i] \in ToSet(listing')
    <3>1. \A i \in 1..Len(listing) : i + 1 \in DOMAIN listing'
      BY <1>3, <2>1
    <3> QED BY <1>3, <3>1 DEF ToSet
  <2> QED BY <2>1, <2>2, <2>3, <2>4 DEF ToSet
<1>10. \A i, j \in DOMAIN listing' : i < j => listing'[i] > listing'[j]
  <2>1. ASSUME NEW i \in 1..Len(listing'), NEW j \in 1..Len(listing'), i < j
        PROVE  listing'[i] > listing'[j]
    <3>1. j # 1 /\ j - 1 \in 1..Len(listing) /\ listing'[j] = listing[j - 1]
      BY <1>8, <2>1
    <3>2. CASE i = 1
      BY <1>3, <1>6, <1>7, <3>1, <3>2
    <3>3. CASE i # 1
      <4>1. i - 1 \in 1..Len(listing) /\ listing'[i] = listing[i - 1] /\ i - 1 < j - 1
        BY <1>8, <2>1, <3>3
      <4> QED BY <1>2, <3>1, <4>1 DEF ListingDescends
    <3> QED BY <3>2, <3>3
  <2>2. DOMAIN listing' = 1..Len(listing')
    BY <1>3
  <2> QED BY <2>1, <2>2
<1>11. Archived' = Archived \cup {t}
  BY <1>2, <1>9 DEF Archived
<1>12. OnlyNewer(ToSet(listing), ToSet(listing'))
  BY <1>6, <1>9 DEF OnlyNewer
<1>13. ListingDescends'
  BY <1>2, <1>3, <1>10 DEF ListingDescends
<1> QED BY <1>3, <1>6, <1>11, <1>12, <1>13

LEMMA WithdrawalKeepsOrder ==
  ASSUME ListingDescends, NEW i \in DOMAIN listing, Withdraw(i)
  PROVE  /\ ListingDescends'
         /\ Archived' = Archived
         /\ ToSet(listing') \subseteq ToSet(listing)
<1> DEFINE n == Len(listing)
<1>1. /\ listing \in Seq(Topic) /\ n \in Nat /\ DOMAIN listing = 1..n /\ i \in 1..n
      /\ withdrawn' = withdrawn \cup {listing[i]} /\ withdrawn \subseteq Topic
  BY DEF ListingDescends, Withdraw
<1>2. listing' = SubSeq(listing, 1, i - 1) \o SubSeq(listing, i + 1, n)
  BY DEF Withdraw, RemoveAt
<1>3. /\ SubSeq(listing, 1, i - 1) \in Seq(Topic) /\ Len(SubSeq(listing, 1, i - 1)) = i - 1
      /\ \A j \in 1..(i - 1) : SubSeq(listing, 1, i - 1)[j] = listing[j]
  BY <1>1
<1>4. /\ SubSeq(listing, i + 1, n) \in Seq(Topic) /\ Len(SubSeq(listing, i + 1, n)) = n - i
      /\ \A j \in 1..(n - i) : SubSeq(listing, i + 1, n)[j] = listing[i + j]
  BY <1>1
<1>5. /\ listing' \in Seq(Topic) /\ Len(listing') = n - 1
      /\ \A j \in 1..(n - 1) : listing'[j] = IF j < i THEN listing[j] ELSE listing[j + 1]
  <2> DEFINE a == SubSeq(listing, 1, i - 1)
             b == SubSeq(listing, i + 1, n)
  <2>1. listing' = a \o b /\ a \in Seq(Topic) /\ b \in Seq(Topic)
    BY <1>2, <1>3, <1>4
  <2>2. Len(a) = i - 1 /\ Len(b) = n - i
    BY <1>3, <1>4
  <2>3. \A j \in 1..(i - 1) : a[j] = listing[j]
    BY <1>3
  <2>4. \A j \in 1..(n - i) : b[j] = listing[i + j]
    BY <1>4
  <2> HIDE DEF a, b
  <2>5. listing' \in Seq(Topic) /\ Len(listing') = n - 1
    <3>1. a \o b \in Seq(Topic) /\ Len(a \o b) = Len(a) + Len(b)
      BY <2>1
    <3>2. (i - 1) + (n - i) = n - 1
      BY <1>1
    <3> QED BY <2>1, <2>2, <3>1, <3>2
  <2>6. ASSUME NEW j \in 1..(n - 1), j < i
        PROVE  listing'[j] = listing[j]
    BY <1>1, <2>1, <2>2, <2>3, <2>6
  <2>7. ASSUME NEW j \in 1..(n - 1), ~(j < i)
        PROVE  listing'[j] = listing[j + 1]
    <3>1. listing'[j] = b[j - (i - 1)] /\ j - (i - 1) \in 1..(n - i)
      BY <1>1, <2>1, <2>2, <2>7
    <3>2. b[j - (i - 1)] = listing[i + (j - (i - 1))]
      BY <2>4, <3>1
    <3>3. i + (j - (i - 1)) = j + 1
      BY <1>1
    <3> QED BY <3>1, <3>2, <3>3
  <2> QED BY <2>5, <2>6, <2>7
<1> DEFINE old(j) == IF j < i THEN j ELSE j + 1
<1>6. \A j \in DOMAIN listing' : old(j) \in 1..n /\ old(j) # i /\ listing'[j] = listing[old(j)]
  BY <1>1, <1>5
<1>7. \A j, k \in DOMAIN listing' : j < k => old(j) < old(k)
  BY <1>1, <1>5
<1>8. \A j \in 1..n : j # i => \E k \in DOMAIN listing' : listing'[k] = listing[j]
  <2>1. ASSUME NEW j \in 1..n, j < i
        PROVE  j \in DOMAIN listing' /\ listing'[j] = listing[j]
    BY <1>1, <1>5, <2>1
  <2>2. ASSUME NEW j \in 1..n, i < j
        PROVE  j - 1 \in DOMAIN listing' /\ listing'[j - 1] = listing[j]
    BY <1>1, <1>5, <2>2
  <2> QED BY <1>1, <2>1, <2>2
<1> HIDE DEF old
<1>9. \A j, k \in DOMAIN listing' : j < k => listing'[j] > listing'[k]
  BY <1>1, <1>6, <1>7 DEF ListingDescends
<1>10. ToSet(listing') \subseteq ToSet(listing)
  BY <1>1, <1>6 DEF ToSet
<1>11. ToSet(listing) \subseteq ToSet(listing') \cup {listing[i]}
  BY <1>1, <1>8 DEF ToSet
<1>12. listing[i] \in ToSet(listing)
  BY <1>1 DEF ToSet
<1>13. Archived' = Archived
  BY <1>1, <1>10, <1>11, <1>12 DEF Archived
<1>14. ListingDescends'
  BY <1>1, <1>5, <1>9 DEF ListingDescends
<1> QED BY <1>10, <1>13, <1>14

-----------------------------------------------------------------------------
(* The archive: one page of the listing. *)

LEMMA NumbersOfTheArchive ==
  /\ Topic \subseteq Nat /\ OldUpTo \in Nat
  /\ PageSize \in Nat \ {0} /\ KnownPages \in Nat \ {0} /\ StopAfterOlder \in Nat \ {0}
  BY ArchiveAssumption DEF Topic, ArchiveAssumption

LEMMA TopicsOfEntries ==
  ASSUME NEW s \in Seq(Entry)
  PROVE  /\ Topics(s) \subseteq Topic
         /\ \A i \in 1..Len(s) : s[i].topic \in Topics(s)
         /\ \A t \in Topics(s) : \E i \in 1..Len(s) : s[i].topic = t
<1>1. DOMAIN s = 1..Len(s)
  OBVIOUS
<1>2. \A i \in 1..Len(s) : s[i] \in ToSet(s) /\ s[i].topic \in Topic
  <2>1. \A i \in 1..Len(s) : s[i] \in ToSet(s) /\ s[i] \in Entry
    BY <1>1 DEF ToSet
  <2>2. \A e \in Entry : e.topic \in Topic
    BY DEF Entry
  <2> QED BY <2>1, <2>2
<1>3. \A e \in ToSet(s) : \E i \in 1..Len(s) : s[i] = e
  BY <1>1 DEF ToSet
<1> QED BY <1>2, <1>3 DEF Topics

LEMMA JoinedEntries ==
  ASSUME NEW s \in Seq(Entry), NEW r \in Seq(Entry)
  PROVE  /\ s \o r \in Seq(Entry) /\ Len(s \o r) = Len(s) + Len(r)
         /\ \A i \in 1..Len(s \o r) :
               (s \o r)[i] = IF i <= Len(s) THEN s[i] ELSE r[i - Len(s)]
  OBVIOUS

LEMMA TopicsOfBoth ==
  ASSUME NEW s \in Seq(Entry), NEW r \in Seq(Entry)
  PROVE  Topics(s \o r) = Topics(s) \cup Topics(r)
<1> DEFINE b == s \o r
<1>1. /\ b \in Seq(Entry) /\ Len(b) = Len(s) + Len(r) /\ Len(s) \in Nat /\ Len(r) \in Nat
      /\ \A i \in 1..Len(b) : b[i] = IF i <= Len(s) THEN s[i] ELSE r[i - Len(s)]
  OBVIOUS
<1> HIDE DEF b
<1>2. ASSUME NEW t \in Topics(b)
      PROVE  t \in Topics(s) \cup Topics(r)
  <2>1. PICK i \in 1..Len(b) : b[i].topic = t
    BY <1>1, TopicsOfEntries
  <2>2. CASE i <= Len(s)
    <3>1. i \in 1..Len(s) /\ s[i].topic = t
      BY <1>1, <2>1, <2>2
    <3> QED BY <3>1, TopicsOfEntries
  <2>3. CASE ~(i <= Len(s))
    <3>1. i - Len(s) \in 1..Len(r) /\ r[i - Len(s)].topic = t
      BY <1>1, <2>1, <2>3
    <3> QED BY <3>1, TopicsOfEntries
  <2> QED BY <2>2, <2>3
<1>3. ASSUME NEW t \in Topics(s)
      PROVE  t \in Topics(b)
  <2>1. PICK i \in 1..Len(s) : s[i].topic = t
    BY TopicsOfEntries
  <2>2. i \in 1..Len(b) /\ b[i].topic = t
    BY <1>1, <2>1
  <2> QED BY <1>1, <2>2, TopicsOfEntries
<1>4. ASSUME NEW t \in Topics(r)
      PROVE  t \in Topics(b)
  <2>1. PICK i \in 1..Len(r) : r[i].topic = t
    BY TopicsOfEntries
  <2>2. Len(s) + i \in 1..Len(b) /\ b[Len(s) + i] = r[(Len(s) + i) - Len(s)] /\ (Len(s) + i) - Len(s) = i
    BY <1>1, <2>1
  <2> QED BY <1>1, <2>1, <2>2, TopicsOfEntries
<1>5. Topics(b) = Topics(s) \cup Topics(r)
  BY <1>2, <1>3, <1>4
<1> QED BY <1>5 DEF b

\* The cards of a page are the listing from its first place on, as far as the
\* page or the listing goes.
LEMMA CardsOfThePage ==
  ASSUME listing \in Seq(Topic), NEW page \in Nat
  PROVE  /\ page * PageSize \in Nat /\ (page + 1) * PageSize = page * PageSize + PageSize
         /\ ListingCards(page) \in Seq(Entry)
         /\ Len(ListingCards(page)) =
               IF Len(listing) <= page * PageSize THEN 0
               ELSE IF Len(listing) >= page * PageSize + PageSize THEN PageSize
               ELSE Len(listing) - page * PageSize
         /\ \A i \in 1..Len(ListingCards(page)) :
               /\ page * PageSize + i \in 1..Len(listing)
               /\ ListingCards(page)[i].topic = listing[page * PageSize + i]
<1> DEFINE b == page * PageSize
           hi == IF b + PageSize <= Len(listing) THEN b + PageSize ELSE Len(listing)
           shown == SubSeq(listing, b + 1, hi)
           c == IF Len(listing) <= b THEN 0
                ELSE IF Len(listing) >= b + PageSize THEN PageSize ELSE Len(listing) - b
<1>1. PageSize \in Nat /\ PageSize > 0 /\ Len(listing) \in Nat
  BY NumbersOfTheArchive
<1>2. b \in Nat /\ (page + 1) * PageSize = b + PageSize
  BY <1>1
<1> HIDE DEF b
<1>3. Min({(b + 1) + PageSize - 1, Len(listing)}) = hi
  <2>1. (b + 1) + PageSize - 1 = b + PageSize
    BY <1>1, <1>2
  <2> QED BY <1>1, <1>2, <2>1, LesserOfTwo
<1>4. ListingCards(page) = [i \in DOMAIN shown |-> [topic |-> shown[i], edited |-> shown[i] \in recarded]]
  BY <1>3 DEF ListingCards, b
<1>5. c \in Nat /\ \A i \in 1..c : b + i \in 1..Len(listing)
  BY <1>1, <1>2
<1>6. shown \in Seq(Topic) /\ Len(shown) = c /\ DOMAIN shown = 1..c
      /\ \A i \in 1..c : shown[i] = listing[b + i]
  <2>1. CASE Len(listing) <= b
    <3>1. hi = Len(listing) /\ c = 0 /\ ~(b + 1 <= hi)
      BY <1>1, <1>2, <2>1
    <3>2. shown = <<>>
      BY <1>1, <1>2, <3>1
    <3> HIDE DEF shown, c, hi
    <3> QED BY <3>1, <3>2
  <2>2. CASE Len(listing) > b
    <3>1. hi \in 1..Len(listing) /\ b + 1 \in 1..Len(listing) /\ b + 1 <= hi /\ hi - b = c
      BY <1>1, <1>2, <2>2
    <3> HIDE DEF hi
    <3>2. shown \in Seq(Topic) /\ Len(shown) = c
      <4>1. shown \in Seq(Topic) /\ Len(shown) = hi - (b + 1) + 1
        BY <1>1, <1>2, <3>1
      <4>2. hi - (b + 1) + 1 = hi - b
        BY <1>1, <1>2, <3>1
      <4> QED BY <3>1, <4>1, <4>2
    <3>3. \A i \in 1..c : shown[i] = listing[b + i]
      BY <1>1, <1>2, <1>5, <3>1
    <3> QED BY <3>2, <3>3
  <2> QED BY <1>1, <1>2, <2>1, <2>2
<1> HIDE DEF shown, c
<1>7. \A i \in 1..c : shown[i] \in Topic
  BY <1>6
<1>8. ListingCards(page) \in Seq(Entry) /\ Len(ListingCards(page)) = c
      /\ \A i \in 1..c : ListingCards(page)[i].topic = shown[i]
  BY <1>4, <1>5, <1>6, <1>7 DEF Entry
<1>9. Len(ListingCards(page)) =
               IF Len(listing) <= b THEN 0
               ELSE IF Len(listing) >= b + PageSize THEN PageSize
               ELSE Len(listing) - b
  BY <1>8 DEF c
<1> QED BY <1>2, <1>5, <1>6, <1>8, <1>9 DEF b

\* A listing that moved by k places, fewer than two pages, shows some place
\* twice: among the b places read before and on the page behind them.
LEMMA ShiftShowsTwice ==
  ASSUME NEW b \in Nat, NEW k \in Nat, NEW p \in Nat, NEW l \in Nat, NEW c \in Nat,
         p > 0, k > 0, b >= p, k < 2 * p, k + b <= l,
         c = IF l <= b THEN 0 ELSE IF l >= b + p THEN p ELSE l - b
  PROVE  \E m \in Nat : /\ m - b \in 1..c /\ b + (m - b) = m
                        /\ m - k \in 1..b /\ k + (m - k) = m
<1>1. CASE b >= k
  <2>1. b + 1 \in Nat /\ (b + 1) - b \in 1..c /\ (b + 1) - k \in 1..b
    BY <1>1
  <2> QED BY <2>1
<1>2. CASE ~(b >= k)
  <2>1. k + 1 \in Nat /\ (k + 1) - b \in 1..c /\ (k + 1) - k \in 1..b
    BY <1>2
  <2> QED BY <2>1
<1> QED BY <1>1, <1>2

\* A walk of one piece that reads a page without a repeat has the listing as it
\* is now: anything archived since its first page would have shown it a card
\* twice.
LEMMA WalkReadsOn ==
  ASSUME ListingDescends, RunsAreTyped, WalkIsOnePiece, walk.pc = "list", ~walk.torn,
         ~Repeats(ListingCards(walk.page)),
         NEW new, new = walk.entries \o ListingCards(walk.page)
  PROVE  /\ (walk.page + 1) * PageSize \in Nat
         /\ new \in Seq(Entry)
         /\ Len(new) = IF Len(listing) >= (walk.page + 1) * PageSize
                        THEN (walk.page + 1) * PageSize ELSE Len(listing)
         /\ \A i \in 1..Len(new) : new[i].topic = listing[i]
         /\ walk.page > 0 => walk.last = (Len(listing) - 1) \div PageSize
<1> DEFINE cards == ListingCards(walk.page)
           b == walk.page * PageSize
<1>1. /\ listing \in Seq(Topic) /\ Len(listing) \in Nat /\ walk.page \in Nat
      /\ walk.entries \in Seq(Entry) /\ PageSize \in Nat /\ PageSize > 0
  BY NumbersOfTheArchive DEF ListingDescends, RunsAreTyped
<1>2. /\ b \in Nat /\ (walk.page + 1) * PageSize = b + PageSize
      /\ cards \in Seq(Entry)
      /\ Len(cards) = IF Len(listing) <= b THEN 0
                      ELSE IF Len(listing) >= b + PageSize THEN PageSize ELSE Len(listing) - b
      /\ \A i \in 1..Len(cards) : b + i \in 1..Len(listing) /\ cards[i].topic = listing[b + i]
  BY <1>1, CardsOfThePage
<1> HIDE DEF cards, b
<1>3. Len(walk.entries) = b
  BY DEF WalkIsOnePiece, b
<1>4. PICK k \in Nat :
        /\ k + b <= Len(listing)
        /\ \A i \in 1..k : listing[i] \notin walk.since
        /\ \A i \in 1..b : walk.entries[i].topic = listing[k + i]
        /\ walk.page = 0 => k = 0
        /\ walk.page > 0 => walk.last = (Len(listing) - k - 1) \div PageSize
  BY <1>3 DEF WalkIsOnePiece
<1>5. k = 0
  <2>1. SUFFICES ASSUME k > 0 PROVE FALSE
    BY <1>4
  <2>2. b >= PageSize
    <3>1. walk.page # 0 /\ walk.page - 1 \in Nat
      BY <1>1, <1>4, <2>1
    <3>2. (walk.page - 1) * PageSize \in Nat
          /\ ((walk.page - 1) + 1) * PageSize = (walk.page - 1) * PageSize + PageSize
      BY <1>1, <3>1, CardsOfThePage
    <3>3. b = walk.page * PageSize /\ (walk.page - 1) + 1 = walk.page
      BY <1>1 DEF b
    <3> QED BY <1>1, <3>2, <3>3
  <2>3. k < 2 * PageSize
    <3>1. SUFFICES ASSUME k >= 2 * PageSize PROVE FALSE
      BY <1>1, <1>4
    <3>2. 2 * PageSize \in 1..k /\ Len(listing) >= 2 * PageSize
      BY <1>1, <1>2, <1>4, <3>1
    <3>3. listing[2 * PageSize] \notin walk.since
      BY <1>4, <3>2
    <3>4. PassesUnseen(listing)
      BY <3>2, <3>3 DEF PassesUnseen
    <3> QED BY <3>4 DEF WalkIsOnePiece
  <2>4. Len(cards) \in Nat /\ k + b <= Len(listing)
    BY <1>2, <1>4
  <2>5. PICK m \in Nat : m - b \in 1..Len(cards) /\ b + (m - b) = m
                         /\ m - k \in 1..b /\ k + (m - k) = m
    BY <1>1, <1>2, <2>1, <2>2, <2>3, <2>4, ShiftShowsTwice
  <2>7. cards[m - b].topic = listing[m] /\ walk.entries[m - k].topic = listing[m]
    BY <1>2, <1>4, <2>5
  <2>8. listing[m] \in Topics(cards)
    BY <1>2, <2>5, <2>7, TopicsOfEntries
  <2>9. listing[m] \in Topics(walk.entries)
    BY <1>1, <1>3, <2>5, <2>7, TopicsOfEntries
  <2> QED BY <2>8, <2>9 DEF Repeats, cards
<1>6. b <= Len(listing) /\ (walk.page > 0 => walk.last = (Len(listing) - 1) \div PageSize)
  <2>1. Len(listing) - k - 1 = Len(listing) - 1
    BY <1>1, <1>5
  <2>2. walk.page > 0 => walk.last = (Len(listing) - 1) \div PageSize
    BY <1>4, <2>1, Zenon
  <2>3. b \in Nat /\ k + b <= Len(listing)
    BY <1>2, <1>4
  <2> QED BY <1>1, <1>5, <2>2, <2>3
<1>7. new = walk.entries \o cards
  BY DEF cards
<1>8. /\ new \in Seq(Entry) /\ Len(new) = b + Len(cards)
      /\ \A i \in 1..Len(new) : new[i] = IF i <= b THEN walk.entries[i] ELSE cards[i - b]
  <2>1. walk.entries \in Seq(Entry) /\ cards \in Seq(Entry)
    BY <1>1, <1>2
  <2>2. /\ new \in Seq(Entry) /\ Len(new) = Len(walk.entries) + Len(cards)
        /\ \A i \in 1..Len(new) :
              new[i] = IF i <= Len(walk.entries) THEN walk.entries[i] ELSE cards[i - Len(walk.entries)]
    BY <1>7, <2>1, JoinedEntries
  <2> QED BY <1>3, <2>2
<1>9. Len(new) = IF Len(listing) >= b + PageSize THEN b + PageSize ELSE Len(listing)
  <2>1. b \in Nat /\ Len(new) = b + Len(cards)
    BY <1>2, <1>8
  <2>2. Len(cards) = IF Len(listing) <= b THEN 0
                     ELSE IF Len(listing) >= b + PageSize THEN PageSize ELSE Len(listing) - b
    BY <1>2
  <2>3. CASE Len(listing) <= b
    BY <1>1, <1>6, <2>1, <2>2, <2>3
  <2>4. CASE ~(Len(listing) <= b)
    BY <1>1, <1>6, <2>1, <2>2, <2>4
  <2> QED BY <2>3, <2>4
<1>10. ASSUME NEW i \in 1..Len(new)
       PROVE  new[i].topic = listing[i]
  <2>1. CASE i <= b
    <3>1. i \in 1..b /\ k + i = i
      BY <1>2, <1>5, <1>8, <2>1
    <3> QED BY <1>4, <1>8, <2>1, <3>1
  <2>2. CASE ~(i <= b)
    <3>1. i - b \in 1..Len(cards) /\ b + (i - b) = i
      BY <1>2, <1>8, <2>2
    <3> QED BY <1>2, <1>8, <2>2, <3>1
  <2> QED BY <2>1, <2>2
<1>11. (walk.page + 1) * PageSize = b + PageSize /\ b + PageSize \in Nat
  BY <1>1, <1>2
<1> QED BY <1>6, <1>8, <1>9, <1>10, <1>11

\* A listing of more than q pages has a last page no earlier than page q.
LEMMA LastPageIsBehind ==
  ASSUME NEW p \in Nat \ {0}, NEW n \in Nat, NEW q \in Nat, n >= q * p
  PROVE  n \div p >= q
<1> DEFINE d == n \div p
<1>1. d \in Int /\ p * d <= n /\ n < p * d + p
  BY SMT
<1>2. SUFFICES ASSUME d < q PROVE FALSE
  BY <1>1
<1>3. d + 1 <= q /\ q - (d + 1) \in Nat
  BY <1>1, <1>2
<1> HIDE DEF d
<1>4. (q - (d + 1)) * p \in Nat
  BY <1>3
<1>5. q * p = (q - (d + 1)) * p + p * d + p
  BY <1>1
<1>6. q * p \in Int /\ p * d \in Int
  BY <1>1
<1> QED BY <1>1, <1>4, <1>5, <1>6

LEMMA SnapshotStays ==
  ASSUME ArchiveInv, UNCHANGED <<listing, withdrawn, snap>>
  PROVE  /\ ListingDescends' /\ Archived' = Archived /\ SnapshotIsSound'
         /\ Topics(snap.entries)' \cup snap.since' \subseteq Archived'
         /\ snap'.entries \in Seq(Entry) /\ snap'.torn \in BOOLEAN
<1>1. listing' = listing /\ withdrawn' = withdrawn /\ snap' = snap
  OBVIOUS
<1>2. Archived' = Archived
  BY <1>1 DEF Archived
<1>3. ListingDescends'
  BY <1>1 DEF ArchiveInv, ListingDescends
<1>4. BackfillIsHonest' <=> BackfillIsHonest
  BY <1>1 DEF BackfillIsHonest
<1>5. SnapshotIsSound'
  BY <1>1, <1>4 DEF ArchiveInv, SnapshotIsSound
<1> QED BY <1>1, <1>2, <1>3, <1>5 DEF ArchiveInv, NothingInvented, RunsAreTyped

LEMMA ListingTopics ==
  ASSUME listing \in Seq(Topic)
  PROVE  /\ ToSet(listing) \subseteq Topic
         /\ \A i \in 1..Len(listing) : listing[i] \in ToSet(listing)
         /\ \A u \in ToSet(listing) : \E i \in 1..Len(listing) : listing[i] = u
<1>1. DOMAIN listing = 1..Len(listing)
  OBVIOUS
<1> QED BY <1>1 DEF ToSet

LEMMA ReadingIsTyped ==
  ASSUME ArchiveInv, ReadListing
  PROVE  /\ UNCHANGED <<listing, withdrawn, snap>>
         /\ RunsAreTyped' /\ NothingInvented'
         /\ walk'.entries = walk.entries \o ListingCards(walk.page)
         /\ walk'.page = walk.page + 1 /\ walk'.torn = walk.torn /\ walk'.full = walk.full
         /\ walk'.since = walk.since /\ walk'.pc \in {"list", "priority"}
<1> DEFINE cards == ListingCards(walk.page)
           last == IF walk.page = 0 THEN DiscoverLastPage ELSE walk.last
           atEnd == cards = <<>> \/ (last > 0 /\ walk.page >= last)
           known == IF \A i \in DOMAIN cards : KnownUnchanged(cards[i]) THEN walk.known + 1 ELSE 0
           early == ~walk.full /\ known >= KnownPages
           ended == atEnd \/ (~early /\ ~HasNextPage(walk.page))
           pc == IF ended \/ early THEN "priority" ELSE "list"
<1>1. /\ listing \in Seq(Topic) /\ walk.page \in Nat /\ walk.entries \in Seq(Entry)
      /\ cards \in Seq(Entry)
  BY CardsOfThePage DEF ArchiveInv, ListingDescends, RunsAreTyped
<1>2. UNCHANGED <<listing, withdrawn, snap>>
  BY DEF ReadListing, site
<1>3. last \in Int
  <2>1. Len(listing) - 1 \in Int /\ PageSize \in Nat \ {0}
    BY <1>1, NumbersOfTheArchive
  <2> QED BY <2>1, SMT DEF DiscoverLastPage, ArchiveInv, RunsAreTyped
<1>4. walk' = [walk EXCEPT !.entries = @ \o cards, !.last = last, !.known = known,
                            !.page = @ + 1, !.reached_end = ended, !.pc = pc]
  BY Zenon DEF ReadListing
<1>5. pc \in {"list", "priority"}
  OBVIOUS
<1> HIDE DEF cards, last, known, ended, pc
<1>6. walk.entries \o cards \in Seq(Entry)
  BY <1>1
<1>7. walk.page + 1 \in Nat
  BY <1>1
<1>8. /\ RunsAreTyped'
      /\ walk'.entries = walk.entries \o cards /\ walk'.page = walk.page + 1
      /\ walk'.torn = walk.torn /\ walk'.full = walk.full /\ walk'.since = walk.since
      /\ walk'.pc \in {"list", "priority"}
  BY <1>2, <1>3, <1>4, <1>5, <1>6, <1>7 DEF ArchiveInv, RunsAreTyped
<1>9. Topics(cards) \subseteq ToSet(listing)
  <2>1. ASSUME NEW t \in Topics(cards)
        PROVE  t \in ToSet(listing)
    <3>1. PICK i \in 1..Len(cards) : cards[i].topic = t
      BY <1>1, TopicsOfEntries
    <3>2. walk.page * PageSize + i \in 1..Len(listing) /\ t = listing[walk.page * PageSize + i]
      BY <1>1, <3>1, CardsOfThePage DEF cards
    <3> QED BY <1>1, <3>2, ListingTopics
  <2> QED BY <2>1
<1>10. Topics(walk'.entries) = Topics(walk.entries) \cup Topics(cards)
  BY <1>1, <1>8, TopicsOfBoth
<1>11. NothingInvented'
  <2>1. Archived' = Archived /\ Topics(snap.entries)' \cup snap.since' \subseteq Archived'
    BY <1>2, SnapshotStays
  <2>2. Topics(walk.entries) \cup walk.since \subseteq Archived
    BY DEF ArchiveInv, NothingInvented
  <2>3. Topics(walk'.entries) \cup walk'.since \subseteq Archived
    BY <1>8, <1>9, <1>10, <2>2 DEF Archived
  <2> QED BY <2>1, <2>3 DEF NothingInvented
<1> QED BY <1>2, <1>8, <1>11 DEF cards

\* Where a walk goes on, it goes on in one piece; where it ends, it has seen the
\* whole listing, or its last page was known and the snapshot stands for the rest.
LEMMA ReadingStandsFor ==
  ASSUME ArchiveInv, ReadListing
  PROVE  WalkIsOnePiece' /\ WalkCovers'
<1> DEFINE cards == ListingCards(walk.page)
           new == walk.entries \o cards
           n == (walk.page + 1) * PageSize
           last == IF walk.page = 0 THEN DiscoverLastPage ELSE walk.last
           known == IF \A i \in DOMAIN cards : KnownUnchanged(cards[i]) THEN walk.known + 1 ELSE 0
           early == ~walk.full /\ known >= KnownPages
           ended == (cards = <<>> \/ (last > 0 /\ walk.page >= last))
                       \/ (~early /\ ~HasNextPage(walk.page))
<1>1. /\ listing \in Seq(Topic) /\ walk.page \in Nat /\ walk.entries \in Seq(Entry)
      /\ cards \in Seq(Entry) /\ Len(listing) \in Nat /\ PageSize \in Nat \ {0}
      /\ ListingDescends /\ RunsAreTyped /\ WalkIsOnePiece /\ walk.pc = "list"
  BY CardsOfThePage, NumbersOfTheArchive DEF ArchiveInv, ListingDescends, RunsAreTyped, ReadListing, ArchiveAt
<1>2. /\ UNCHANGED <<listing, withdrawn, snap>>
      /\ walk'.entries = new /\ walk'.page = walk.page + 1
      /\ walk'.torn = walk.torn /\ walk'.full = walk.full /\ walk'.since = walk.since
  BY ReadingIsTyped
<1>3. walk'.last = last /\ walk'.pc = IF ended \/ early THEN "priority" ELSE "list"
  BY <1>1 DEF ReadListing, RunsAreTyped
<1>4. SUFFICES ASSUME ~walk.torn PROVE WalkIsOnePiece' /\ WalkCovers'
  BY <1>2 DEF WalkIsOnePiece, WalkCovers, WillBeTorn
<1>5. ~Repeats(cards)
  BY DEF ReadListing
<1> HIDE DEF cards, known
<1>6. /\ n \in Nat /\ new \in Seq(Entry)
      /\ Len(new) = IF Len(listing) >= n THEN n ELSE Len(listing)
      /\ \A i \in 1..Len(new) : new[i].topic = listing[i]
      /\ walk.page > 0 => walk.last = (Len(listing) - 1) \div PageSize
  BY <1>1, <1>4, <1>5, WalkReadsOn DEF cards
<1>7. last = (Len(listing) - 1) \div PageSize
  BY <1>1, <1>6 DEF DiscoverLastPage
<1>8. HasNextPage(walk.page) <=> Len(listing) > n
  BY DEF HasNextPage
<1> HIDE DEF n, new, last, early, ended
<1>9. WalkIsOnePiece'
  <2>1. SUFFICES ASSUME walk'.pc = "list" PROVE WalkIsOnePiece'
    BY DEF WalkIsOnePiece
  <2>2. Len(listing) > n
    BY <1>3, <1>8, <2>1 DEF ended
  <2>3. Len(new) = n
    BY <1>1, <1>6, <2>2
  <2>4. ~PassesUnseen(listing)' /\ walk'.page # 0 /\ walk'.page * PageSize = n
    BY <1>1, <1>2, <1>4 DEF WalkIsOnePiece, PassesUnseen, n
  <2>5. /\ 0 + Len(new) <= Len(listing)
        /\ \A i \in 1..0 : listing[i] \notin walk'.since
        /\ \A i \in 1..Len(new) : new[i].topic = listing[0 + i]
        /\ last = (Len(listing) - 0 - 1) \div PageSize
    <3>1. Len(listing) - 0 - 1 = Len(listing) - 1 /\ \A i \in 1..Len(new) : 0 + i = i
      BY <1>1
    <3>2. 0 + Len(new) <= Len(listing) /\ \A i \in 1..0 : FALSE
      BY <1>1, <1>6, <2>2, <2>3
    <3>3. \A i \in 1..Len(new) : new[i].topic = listing[0 + i]
      BY <1>6, <3>1
    <3>4. last = (Len(listing) - 0 - 1) \div PageSize
      BY <1>7, <3>1
    <3> QED BY <3>2, <3>3, <3>4
  <2> QED BY <1>2, <1>3, <2>3, <2>4, <2>5 DEF WalkIsOnePiece
<1>10. WalkCovers'
  <2>1. SUFFICES ASSUME walk'.pc = "priority", ~WillBeTorn' PROVE WalkCovers'
    BY DEF WalkCovers
  <2>2. \A i, j \in 1..Len(new) : i < j => new[i].topic > new[j].topic
    <3>1. \A i \in 1..Len(new) : i \in DOMAIN listing
      BY <1>1, <1>6
    <3> QED BY <1>1, <1>6, <3>1 DEF ListingDescends
  <2>3. ASSUME NEW u \in ToSet(listing) \ Topics(new)
        PROVE  /\ ~walk.full /\ u \in Topics(snap.entries)
               /\ \A t \in Topics(new) : u < t
    <3>1. PICK m \in 1..Len(listing) : listing[m] = u
      BY <1>1, ListingTopics
    <3>2. ~(m \in 1..Len(new))
      BY <1>6, <2>3, <3>1, TopicsOfEntries
    <3>3. Len(listing) > n /\ Len(new) = n /\ m > n
      BY <1>1, <1>6, <3>1, <3>2
    <3>4. \A i \in 1..n : i \in DOMAIN listing /\ listing[i] > u
      BY <1>1, <1>6, <3>1, <3>3 DEF ListingDescends
    <3>5. \A t \in Topics(new) : u < t
      <4>1. ASSUME NEW t \in Topics(new)
            PROVE  u < t
        <5>1. PICK i \in 1..Len(new) : new[i].topic = t
          BY <1>6, TopicsOfEntries
        <5>2. listing[i] = t /\ listing[i] > u
          BY <1>6, <3>3, <3>4, <5>1
        <5>3. u \in Int /\ t \in Int
          <6>1. listing[m] \in Topic /\ t \in Topic
            BY <1>1, <1>6, <3>1, TopicsOfEntries
          <6>2. u \in Nat /\ t \in Nat
            BY <3>1, <6>1, NumbersOfTheArchive
          <6> QED BY <6>2
        <5> QED BY <5>2, <5>3
      <4> QED BY <4>1
    <3>6. Len(cards) = PageSize
      <4>1. /\ walk.page * PageSize \in Nat /\ n = walk.page * PageSize + PageSize
            /\ Len(cards) = IF Len(listing) <= walk.page * PageSize THEN 0
                            ELSE IF Len(listing) >= walk.page * PageSize + PageSize THEN PageSize
                            ELSE Len(listing) - walk.page * PageSize
        BY <1>1, CardsOfThePage DEF cards, n
      <4> QED BY <1>1, <3>3, <4>1
    <3>7. ~(last > 0 /\ walk.page >= last)
      <4>1. Len(listing) - 1 \in Nat /\ walk.page + 1 \in Nat /\ Len(listing) - 1 >= (walk.page + 1) * PageSize
        <5>1. Len(listing) - 1 \in Nat /\ Len(listing) - 1 >= n
          BY <1>1, <1>6, <3>3
        <5>2. walk.page + 1 \in Nat
          BY <1>1
        <5> QED BY <5>1, <5>2 DEF n
      <4>2. last >= walk.page + 1
        BY <1>1, <1>7, <4>1, LastPageIsBehind
      <4>3. last \in Int
        BY <1>1, <1>7, <4>1, SMT
      <4> QED BY <1>1, <4>2, <4>3
    <3>8. early
      BY <1>1, <1>3, <1>8, <2>1, <3>3, <3>6, <3>7 DEF ended
    <3>9. ~walk.full /\ \A i \in 1..Len(cards) : cards[i] \in ToSet(snap.entries)
      <4>1. ~walk.full /\ known >= KnownPages
        BY <3>8 DEF early
      <4>2. \A i \in DOMAIN cards : KnownUnchanged(cards[i])
        <5>1. known # 0
          BY <4>1, NumbersOfTheArchive
        <5> QED BY <5>1 DEF known
      <4> QED BY <1>1, <4>1, <4>2 DEF KnownUnchanged
    <3>10. ~snap.torn
      BY <1>2, <2>1, <3>9 DEF WillBeTorn
    <3>11. listing[n] \in Topics(snap.entries)
      <4>1. /\ n = walk.page * PageSize + PageSize
            /\ cards[PageSize].topic = listing[walk.page * PageSize + PageSize]
        <5>1. PageSize \in 1..Len(cards)
          BY <1>1, <3>6
        <5>2. \A i \in 1..Len(cards) : cards[i].topic = listing[walk.page * PageSize + i]
          BY <1>1, CardsOfThePage DEF cards
        <5>3. n = walk.page * PageSize + PageSize
          BY <1>1, CardsOfThePage DEF n
        <5> QED BY <5>1, <5>2, <5>3
      <4>2. cards[PageSize] \in ToSet(snap.entries)
        BY <1>1, <3>6, <3>9
      <4> QED BY <4>1, <4>2 DEF Topics
    <3>12. u < listing[n]
      <4>1. n \in 1..n
        <5>1. walk.page * PageSize \in Nat /\ n = walk.page * PageSize + PageSize
          BY <1>1, CardsOfThePage DEF n
        <5> QED BY <1>1, <5>1
      <4>2. listing[n] > u /\ listing[n] \in Int /\ u \in Int
        <5>1. listing[n] > u /\ n \in DOMAIN listing
          BY <3>4, <4>1
        <5>2. listing[n] \in Topic /\ u \in Topic
          BY <1>1, <3>1, <5>1
        <5>3. \A x \in Topic : x \in Int
          BY NumbersOfTheArchive
        <5> QED BY <5>1, <5>2, <5>3
      <4> QED BY <4>2
    <3>13. u \in Topics(snap.entries)
      BY <3>10, <3>11, <3>12 DEF ArchiveInv, SnapshotIsSound, Sound
    <3> QED BY <3>5, <3>9, <3>13
  <2>4. \A u \in ToSet(listing) \ Topics(new) : Covered(u)'
    BY <1>2, <2>3 DEF Covered
  <2> QED BY <1>2, <2>2, <2>4 DEF WalkCovers
<1> QED BY <1>9, <1>10

-----------------------------------------------------------------------------
(* The archive: the merge with the previous snapshot. *)

\* Untorn, the merged catalogue has no gap, whichever walk it comes from.
LEMMA MergeIsSound ==
  ASSUME ArchiveInv, walk.pc = "priority",
         NEW merged, merged = MergeWithPrevious(walk.entries)
  PROVE  /\ merged \in Seq(Entry) /\ Topics(merged) \subseteq Archived
         /\ ~WillBeTorn => Sound([entries |-> merged, since |-> walk.since], ToSet(listing))
<1> DEFINE e == walk.entries
           s == snap.entries
           o == Others(s, Topics(e))
           listed == ToSet(listing)
           m == [entries |-> merged, since |-> walk.since]
<1>1. /\ e \in Seq(Entry) /\ s \in Seq(Entry) /\ listing \in Seq(Topic)
      /\ Topics(e) \subseteq Archived /\ Topics(s) \subseteq Archived
  BY DEF ArchiveInv, RunsAreTyped, ListingDescends, NothingInvented
<1>2. m.entries = merged /\ m.since = walk.since
  OBVIOUS
<1>3. /\ Topics(e) \subseteq Int /\ Topics(s) \subseteq Int /\ listed \subseteq Int
  <2>1. Topics(e) \subseteq Topic /\ Topics(s) \subseteq Topic /\ listed \subseteq Topic
    BY <1>1, TopicsOfEntries, ListingTopics
  <2>2. Topic \subseteq Int
    BY NumbersOfTheArchive
  <2> QED BY <2>1, <2>2
<1>4. \A i \in 1..Len(e) : e[i].topic \in Topics(e)
  BY <1>1, TopicsOfEntries
<1>5. ~WillBeTorn =>
        /\ \A i, j \in 1..Len(e) : i < j => e[i].topic > e[j].topic
        /\ \A u \in listed \ Topics(e) : Covered(u)
  BY DEF ArchiveInv, WalkCovers
<1>6. \A i, j \in 1..Len(e) : e[i].topic > e[j].topic /\ IsOlder(e[i].topic) => IsOlder(e[j].topic)
  BY <1>3, <1>4, NumbersOfTheArchive DEF IsOlder
<1>7. CASE walk.full
  <2>1. merged = e
    BY <1>7 DEF MergeWithPrevious
  <2>2. ASSUME ~WillBeTorn
        PROVE  Sound(m, listed)
    <3>1. \A t \in Topics(e), u \in listed : u < t => u \in Topics(e)
      BY <1>3, <1>5, <1>7, <2>2 DEF Covered
    <3>2. walk.since \cap listed \subseteq Topics(e)
      BY <1>5, <1>7, <2>2 DEF Covered
    <3>3. \A i, j \in 1..Len(e) : i < j /\ IsOlder(e[i].topic) => IsOlder(e[j].topic)
      BY <1>5, <1>6, <2>2
    <3> HIDE DEF m, e, listed
    <3> QED BY <1>2, <2>1, <3>1, <3>2, <3>3 DEF Sound
  <2> QED BY <1>1, <2>1, <2>2
<1>8. CASE ~walk.full
  <2>1. merged = e \o o
    BY <1>8 DEF MergeWithPrevious
  <2>2. OthersStand(s, Topics(e), o)
    BY <1>1, OthersKeepTheirOrder
  <2>3. o \in Seq(Entry) /\ Topics(o) = Topics(s) \ Topics(e)
    BY <2>2 DEF OthersStand
  <2> HIDE DEF o, e, s, listed
  <2>4. merged \in Seq(Entry) /\ Topics(merged) = Topics(e) \cup Topics(s)
    <3>1. Topics(e \o o) = Topics(e) \cup Topics(o) /\ e \o o \in Seq(Entry)
      BY <1>1, <2>3, TopicsOfBoth, JoinedEntries
    <3> QED BY <2>1, <2>3, <3>1
  <2>5. ASSUME ~WillBeTorn
        PROVE  Sound(m, listed)
    <3>1. Sound(snap, listed)
      BY <1>8, <2>5 DEF WillBeTorn, ArchiveInv, SnapshotIsSound, listed
    <3>2. \A u \in listed \ Topics(e) :
             \/ u \notin walk.since \cup Topics(s) /\ \A t \in Topics(e) : t < u
             \/ u \in Topics(s) /\ \A t \in Topics(e) : u < t
      BY <1>5, <2>5 DEF Covered, e, s
    <3>3. ASSUME NEW t \in Topics(merged), NEW u \in listed, u < t
          PROVE  u \in Topics(merged)
      <4>1. u \in Int /\ t \in Int
        BY <1>3, <2>4
      <4>2. CASE t \in Topics(e)
        <5>1. u \notin Topics(e) => u \in Topics(s)
          BY <3>2, <3>3, <4>1, <4>2
        <5> QED BY <2>4, <5>1
      <4>3. CASE t \in Topics(s)
        BY <2>4, <3>1, <3>3, <4>3 DEF Sound, s
      <4> QED BY <2>4, <4>2, <4>3
    <3>4. walk.since \cap listed \subseteq Topics(merged)
      BY <2>4, <3>2
    <3>5. /\ Len(merged) = Len(e) + Len(o) /\ Len(e) \in Nat /\ Len(o) \in Nat
          /\ \A i \in 1..Len(merged) : merged[i] = IF i <= Len(e) THEN e[i] ELSE o[i - Len(e)]
      BY <1>1, <2>1, <2>3, JoinedEntries
    <3>6. ASSUME NEW i \in 1..Len(merged), NEW j \in 1..Len(merged), i < j,
                 merged[j].topic \in listed, IsOlder(merged[i].topic)
          PROVE  IsOlder(merged[j].topic)
      <4>1. CASE j <= Len(e)
        <5>1. i \in 1..Len(e) /\ j \in 1..Len(e) /\ merged[i] = e[i] /\ merged[j] = e[j]
          BY <3>5, <3>6, <4>1
        <5> QED BY <1>5, <1>6, <2>5, <3>6, <5>1 DEF e
      <4>2. CASE i <= Len(e) /\ ~(j <= Len(e))
        <5>1. i \in 1..Len(e) /\ j - Len(e) \in 1..Len(o)
              /\ merged[i] = e[i] /\ merged[j] = o[j - Len(e)]
          BY <3>5, <3>6, <4>2
        <5> DEFINE a == e[i].topic
                   b == merged[j].topic
        <5>2. a \in Topics(e) /\ b \in Topics(o)
          BY <1>1, <2>3, <5>1, TopicsOfEntries
        <5>3. b < a /\ a \in Int /\ b \in Int
          BY <1>3, <2>3, <3>2, <3>6, <5>2
        <5>4. a <= OldUpTo
          BY <3>6, <5>1 DEF IsOlder
        <5>5. b <= OldUpTo
          BY <5>3, <5>4, NumbersOfTheArchive
        <5> QED BY <5>5 DEF IsOlder
      <4>3. CASE ~(i <= Len(e))
        <5>1. PICK x \in 1..Len(o), y \in 1..Len(o) : x < y /\ merged[i] = o[x] /\ merged[j] = o[y]
          <6>1. i - Len(e) \in 1..Len(o) /\ j - Len(e) \in 1..Len(o) /\ i - Len(e) < j - Len(e)
                /\ merged[i] = o[i - Len(e)] /\ merged[j] = o[j - Len(e)]
            BY <3>5, <3>6, <4>3
          <6> QED BY <6>1
        <5>2. \E k, l \in 1..Len(s) : k < l /\ o[x] = s[k] /\ o[y] = s[l]
          BY <2>2, <5>1, Zenon DEF OthersStand
        <5>3. PICK k \in 1..Len(s), l \in 1..Len(s) : k < l /\ merged[i] = s[k] /\ merged[j] = s[l]
          BY <5>1, <5>2
        <5> QED BY <3>1, <3>6, <5>3 DEF Sound, s
      <4> QED BY <3>5, <4>1, <4>2, <4>3
    <3> HIDE DEF m
    <3> QED BY <1>2, <3>3, <3>4, <3>6 DEF Sound
  <2> QED BY <1>1, <2>4, <2>5 DEF listed
<1> QED BY <1>7, <1>8

-----------------------------------------------------------------------------
(* The archive: every step keeps the invariant. *)

LEMMA SoundnessIsOfEntries ==
  ASSUME NEW s, NEW r, NEW listed, s.entries = r.entries, s.since = r.since, Sound(s, listed)
  PROVE  Sound(r, listed)
  BY DEF Sound

\* A run that says complete has read every recent entry: before an unread one an
\* old one would stand.
LEMMA CompleteHasRead ==
  ASSUME RunsAreTyped, NEW listed, Sound(walk, listed), BackfillComplete
  PROVE  \A t \in Topics(walk.entries) \cap listed :
            IsOlder(t) \/ t \in walk.hydrated \cup walk.failed
<1> SUFFICES ASSUME NEW t \in Topics(walk.entries) \cap listed, ~IsOlder(t),
                    t \notin walk.hydrated \cup walk.failed
             PROVE  FALSE
  OBVIOUS
<1>1. walk.entries \in Seq(Entry) /\ DOMAIN walk.entries = 1..Len(walk.entries) /\ Len(walk.entries) \in Nat
  BY DEF RunsAreTyped
<1>2. PICK j \in 1..Len(walk.entries) : walk.entries[j].topic = t
  BY <1>1, TopicsOfEntries
<1>3. ClosesBefore(j)
  BY <1>1, <1>2 DEF BackfillComplete, RecentWindowPending
<1>4. PICK a \in 1..(j - 1), b \in 1..(j - 1) :
        /\ Cardinality({i \in a..b : walk.entries[i].topic \in walk.hydrated}) >= StopAfterOlder
        /\ \A i \in {i \in a..b : walk.entries[i].topic \in walk.hydrated} : IsOlder(walk.entries[i].topic)
  BY <1>3 DEF ClosesBefore
<1> DEFINE read == {i \in a..b : walk.entries[i].topic \in walk.hydrated}
<1>5. read # {}
  <2>1. SUFFICES ASSUME read = {} PROVE FALSE
    OBVIOUS
  <2>2. Cardinality(read) = 0
    BY <2>1, FS_EmptySet
  <2>3. Cardinality(read) >= StopAfterOlder
    BY <1>4
  <2> HIDE DEF read
  <2> QED BY <2>2, <2>3, NumbersOfTheArchive
<1>6. PICK i \in read : TRUE
  BY <1>5
<1>7. i \in 1..Len(walk.entries) /\ i < j /\ IsOlder(walk.entries[i].topic)
  BY <1>1, <1>4, <1>6
<1> QED BY <1>2, <1>7 DEF Sound

LEMMA ArchiveStarts == ASSUME ArchiveInit PROVE ArchiveInv
<1>1. ListedAtFirst \in Topic /\ ListedAtFirst \in Nat /\ Topic = 1..MaxTopics /\ MaxTopics \in Nat
  BY ArchiveAssumption DEF ArchiveAssumption, Topic
<1>2. listing = [i \in 1..ListedAtFirst |-> ListedAtFirst + 1 - i]
  BY DEF ArchiveInit
<1>3. ListingDescends
  BY <1>1, <1>2 DEF ArchiveInit, ListingDescends
<1>4. walk = IdleWalk /\ snap = NoSnapshot
  BY DEF ArchiveInit
<1>5. RunsAreTyped
  BY <1>4 DEF RunsAreTyped, IdleWalk, NoSnapshot
<1>6. Topics(<<>>) = {}
  BY DEF Topics, ToSet
<1>7. NothingInvented
  BY <1>4, <1>6 DEF NothingInvented, IdleWalk, NoSnapshot
<1>8. walk.pc = "idle" /\ snap.entries = <<>> /\ snap.since = {} /\ snap.backfill_complete = FALSE
  BY <1>4 DEF IdleWalk, NoSnapshot
<1>9. WalkIsOnePiece /\ WalkCovers /\ RunIsSound
  BY <1>8 DEF WalkIsOnePiece, WalkCovers, RunIsSound
<1>10. SnapshotIsSound
  BY <1>6, <1>8 DEF SnapshotIsSound, Sound, BackfillIsHonest
<1> QED BY <1>3, <1>5, <1>7, <1>9, <1>10 DEF ArchiveInv

\* A step of the run that leaves the site and the snapshot alone.
LEMMA OnlyTheRunMoves ==
  ASSUME ArchiveInv, UNCHANGED <<listing, withdrawn, snap>>, RunsAreTyped',
         Topics(walk.entries)' \cup walk.since' \subseteq Archived,
         WalkIsOnePiece', WalkCovers', RunIsSound'
  PROVE  ArchiveInv'
  BY SnapshotStays DEF ArchiveInv, NothingInvented

LEMMA RunIsDropped ==
  ASSUME ArchiveInv, UNCHANGED <<listing, withdrawn, snap>>, walk' = IdleWalk
  PROVE  ArchiveInv'
<1>1. RunsAreTyped'
  BY DEF ArchiveInv, RunsAreTyped, IdleWalk
<1>2. walk'.pc = "idle" /\ walk'.entries = <<>> /\ walk'.since = {}
  BY DEF IdleWalk
<1>3. Topics(<<>>) = {}
  BY DEF Topics, ToSet
<1>4. WalkIsOnePiece' /\ WalkCovers' /\ RunIsSound'
  BY <1>2 DEF WalkIsOnePiece, WalkCovers, RunIsSound
<1> QED BY <1>1, <1>2, <1>3, <1>4, OnlyTheRunMoves

LEMMA BeginningKeepsInv ==
  ASSUME ArchiveInv, NEW full \in BOOLEAN, BeginArchive(full)
  PROVE  ArchiveInv'
<1>1. /\ UNCHANGED <<listing, withdrawn, snap>>
      /\ walk' = [IdleWalk EXCEPT !.pc = "list", !.full = full \/ snap = NoSnapshot, !.since = ToSet(listing)]
  BY DEF BeginArchive, site
<1>2. listing \in Seq(Topic) /\ ToSet(listing) \subseteq Topic
  BY ListingTopics DEF ArchiveInv, ListingDescends
<1>3. /\ walk'.pc = "list" /\ walk'.since = ToSet(listing) /\ walk'.entries = <<>> /\ walk'.page = 0
      /\ RunsAreTyped'
  <2> DEFINE f == full \/ snap = NoSnapshot
  <2>1. f \in BOOLEAN
    OBVIOUS
  <2>2. ToSet(listing) \in SUBSET Topic
    BY <1>2
  <2>3. walk' = [IdleWalk EXCEPT !.pc = "list", !.full = f, !.since = ToSet(listing)]
    BY <1>1
  <2> HIDE DEF f
  <2>4. walk' = [pc |-> "list", full |-> f, page |-> 0, last |-> 0, known |-> 0,
                 entries |-> <<>>, reached_end |-> FALSE, since |-> ToSet(listing), torn |-> FALSE,
                 priority |-> <<>>, left |-> 0, hydrated |-> {}, failed |-> {}]
    BY <2>3 DEF IdleWalk
  <2>5. <<>> \in Seq(Entry) /\ 0 \in Nat /\ 0 \in Int
    OBVIOUS
  <2>6. snap'.entries \in Seq(Entry) /\ snap'.torn \in BOOLEAN
    BY <1>1, SnapshotStays
  <2>7. RunsAreTyped'
    BY <2>1, <2>2, <2>4, <2>5, <2>6 DEF RunsAreTyped
  <2> QED BY <2>4, <2>7
<1>4. Topics(<<>>) = {}
  BY DEF Topics, ToSet
<1>5. WalkIsOnePiece'
  <2>1. ~PassesUnseen(listing)'
    <3>1. 2 * PageSize \in Nat /\ 2 * PageSize >= 1
      BY NumbersOfTheArchive
    <3>2. Len(listing) >= 2 * PageSize => listing[2 * PageSize] \in ToSet(listing)
      BY <1>2, <3>1, ListingTopics
    <3> QED BY <1>1, <1>3, <3>2 DEF PassesUnseen
  <2>2. Len(walk'.entries) = 0 /\ 0 = walk'.page * PageSize
    BY <1>3, NumbersOfTheArchive
  <2>3. 0 \in Nat /\ 0 + 0 <= Len(listing) /\ \A i \in 1..0 : FALSE
    BY <1>2
  <2> QED BY <1>1, <1>3, <2>1, <2>2, <2>3 DEF WalkIsOnePiece
<1>6. WalkCovers' /\ RunIsSound'
  BY <1>3 DEF WalkCovers, RunIsSound
<1> QED BY <1>1, <1>3, <1>4, <1>5, <1>6, OnlyTheRunMoves DEF Archived

LEMMA ReadingKeepsInv ==
  ASSUME ArchiveInv, ReadListing
  PROVE  ArchiveInv'
<1>1. /\ UNCHANGED <<listing, withdrawn, snap>> /\ RunsAreTyped' /\ NothingInvented'
      /\ walk'.pc \in {"list", "priority"}
  BY ReadingIsTyped
<1>2. WalkIsOnePiece' /\ WalkCovers'
  BY ReadingStandsFor
<1>3. RunIsSound'
  BY <1>1 DEF RunIsSound
<1> QED BY <1>1, <1>2, <1>3, SnapshotStays DEF ArchiveInv

LEMMA PriorityPassKeepsInv ==
  ASSUME ArchiveInv, NEW unavailable, PriorityPass(unavailable)
  PROVE  ArchiveInv'
<1> DEFINE merged == MergeWithPrevious(walk.entries)
<1>1. UNCHANGED <<listing, withdrawn, snap>> /\ walk.pc = "priority"
  BY DEF PriorityPass, site, ArchiveAt
<1>2. /\ merged \in Seq(Entry) /\ Topics(merged) \subseteq Archived
      /\ ~WillBeTorn => Sound([entries |-> merged, since |-> walk.since], ToSet(listing))
  BY <1>1, MergeIsSound
<1>3. \E reached, priority, left, hydrated, failed :
         walk' = [walk EXCEPT !.pc = "window", !.entries = merged, !.reached_end = reached,
                              !.priority = priority, !.left = left, !.hydrated = hydrated,
                              !.failed = failed]
  BY Zenon DEF PriorityPass
<1> HIDE DEF merged
<1>4. /\ RunsAreTyped' /\ walk'.pc = "window" /\ walk'.entries = merged
      /\ walk'.since = walk.since /\ walk'.full = walk.full /\ walk'.torn = walk.torn
  BY <1>1, <1>2, <1>3 DEF ArchiveInv, RunsAreTyped
<1>5. walk.since \subseteq Archived
  BY DEF ArchiveInv, NothingInvented
<1>6. RunIsSound'
  <2>1. ASSUME ~WillBeTorn
        PROVE  Sound(walk', ToSet(listing))
    <3> DEFINE m == [entries |-> merged, since |-> walk.since]
    <3>1. Sound(m, ToSet(listing)) /\ m.entries = walk'.entries /\ m.since = walk'.since
      BY <1>2, <1>4, <2>1
    <3> HIDE DEF m
    <3> QED BY <3>1, SoundnessIsOfEntries
  <2> QED BY <1>1, <1>4, <2>1 DEF RunIsSound, WillBeTorn
<1>7. WalkIsOnePiece' /\ WalkCovers'
  BY <1>4 DEF WalkIsOnePiece, WalkCovers
<1> QED BY <1>1, <1>2, <1>4, <1>5, <1>6, <1>7, OnlyTheRunMoves

LEMMA WindowPassKeepsInv ==
  ASSUME ArchiveInv, NEW unavailable, WindowPass(unavailable)
  PROVE  ArchiveInv'
<1>1. UNCHANGED <<listing, withdrawn, snap>> /\ walk.pc = "window"
  BY DEF WindowPass, site, ArchiveAt
<1>2. \E hydrated, failed :
         walk' = [walk EXCEPT !.pc = "publish", !.hydrated = hydrated, !.failed = failed]
  BY Zenon DEF WindowPass
<1>3. /\ RunsAreTyped' /\ walk'.pc = "publish" /\ walk'.entries = walk.entries
      /\ walk'.since = walk.since /\ walk'.full = walk.full /\ walk'.torn = walk.torn
  BY <1>1, <1>2 DEF ArchiveInv, RunsAreTyped
<1>4. Topics(walk.entries) \cup walk.since \subseteq Archived
  BY DEF ArchiveInv, NothingInvented
<1>5. RunIsSound'
  <2>1. ASSUME ~WillBeTorn
        PROVE  Sound(walk', ToSet(listing))
    <3>1. Sound(walk, ToSet(listing))
      BY <1>1, <2>1 DEF ArchiveInv, RunIsSound
    <3> QED BY <1>3, <3>1, SoundnessIsOfEntries
  <2> QED BY <1>1, <1>3, <2>1 DEF RunIsSound, WillBeTorn
<1>6. WalkIsOnePiece' /\ WalkCovers'
  BY <1>3 DEF WalkIsOnePiece, WalkCovers
<1> QED BY <1>1, <1>3, <1>4, <1>5, <1>6, OnlyTheRunMoves

LEMMA PublishingKeepsInv ==
  ASSUME ArchiveInv, Publish
  PROVE  ArchiveInv'
<1>1. /\ listing' = listing /\ withdrawn' = withdrawn /\ walk' = IdleWalk /\ walk.pc = "publish"
      /\ snap'.entries = walk.entries /\ snap'.since = walk.since
      /\ snap'.hydrated = walk.hydrated /\ snap'.failed = walk.failed
      /\ snap'.backfill_complete = BackfillComplete /\ snap'.torn = WillBeTorn
  BY DEF Publish, site, ArchiveAt, WillBeTorn
<1>2. Archived' = Archived
  BY <1>1 DEF Archived
<1>3. ListingDescends'
  BY <1>1 DEF ArchiveInv, ListingDescends
<1>4. walk'.pc = "idle" /\ walk'.entries = <<>> /\ walk'.since = {} /\ Topics(<<>>) = {}
  BY <1>1 DEF IdleWalk, Topics, ToSet
<1>5. RunsAreTyped'
  <2>1. WillBeTorn \in BOOLEAN /\ walk.entries \in Seq(Entry)
    BY DEF WillBeTorn, ArchiveInv, RunsAreTyped
  <2>2. snap'.entries \in Seq(Entry) /\ snap'.torn \in BOOLEAN
    BY <1>1, <2>1
  <2> QED BY <1>1, <2>2 DEF RunsAreTyped, IdleWalk
<1>6. NothingInvented'
  BY <1>1, <1>2, <1>4 DEF ArchiveInv, NothingInvented
<1>7. WalkIsOnePiece' /\ WalkCovers' /\ RunIsSound'
  BY <1>4 DEF WalkIsOnePiece, WalkCovers, RunIsSound
<1>8. SnapshotIsSound'
  <2>1. ASSUME ~WillBeTorn
        PROVE  Sound(snap', ToSet(listing)) /\ BackfillIsHonest'
    <3>1. Sound(walk, ToSet(listing))
      BY <1>1, <2>1 DEF ArchiveInv, RunIsSound
    <3>2. Sound(snap', ToSet(listing))
      BY <1>1, <3>1, SoundnessIsOfEntries
    <3>3. BackfillComplete =>
             \A t \in Topics(walk.entries) \cap ToSet(listing) :
                IsOlder(t) \/ t \in walk.hydrated \cup walk.failed
      BY <3>1, CompleteHasRead DEF ArchiveInv
    <3> QED BY <1>1, <3>2, <3>3 DEF BackfillIsHonest
  <2> QED BY <1>1, <2>1 DEF SnapshotIsSound
<1> QED BY <1>3, <1>5, <1>6, <1>7, <1>8 DEF ArchiveInv

\* Whatever the site does, it leaves a run what it has and adds newer topics only.
LEMMA ListingMoves ==
  ASSUME ArchiveInv, ListingDescends', Archived \subseteq Archived',
         OnlyNewer(ToSet(listing), ToSet(listing')),
         UNCHANGED <<snap>>, NEW torn \in BOOLEAN, walk.torn => torn,
         walk' = [walk EXCEPT !.torn = torn], WalkIsOnePiece'
  PROVE  ArchiveInv'
<1>1. /\ RunsAreTyped' /\ walk'.pc = walk.pc /\ walk'.entries = walk.entries
      /\ walk'.since = walk.since /\ walk'.full = walk.full /\ walk'.torn = torn
  BY DEF ArchiveInv, RunsAreTyped
<1>2. /\ Topics(snap.entries) \cup snap.since \subseteq Archived
      /\ Topics(walk.entries) \cup walk.since \subseteq Archived
  BY DEF ArchiveInv, NothingInvented
<1>3. NothingInvented'
  BY <1>1, <1>2 DEF NothingInvented
<1>4. /\ Archived \subseteq Topic /\ ToSet(listing') \subseteq Topic
      /\ walk.entries \in Seq(Entry) /\ snap.entries \in Seq(Entry)
  <2>1. listing \in Seq(Topic) /\ listing' \in Seq(Topic) /\ withdrawn \subseteq Topic
    BY DEF ArchiveInv, ListingDescends
  <2>2. ToSet(listing) \subseteq Topic
    BY <2>1, ListingTopics
  <2>3. ToSet(listing') \subseteq Topic
    BY <2>1 DEF ToSet
  <2> QED BY <2>1, <2>2, <2>3 DEF Archived, ArchiveInv, RunsAreTyped
<1>5. WillBeTorn => WillBeTorn'
  BY <1>1 DEF WillBeTorn
<1>6. RunIsSound'
  <2>1. ASSUME walk.pc \in {"window", "publish"}, ~WillBeTorn
        PROVE  Sound(walk', ToSet(listing'))
    <3>1. Sound(walk, ToSet(listing))
      BY <2>1 DEF ArchiveInv, RunIsSound
    <3>2. Sound(walk, ToSet(listing'))
      BY <1>2, <1>4, <3>1, SoundStays
    <3> QED BY <1>1, <3>2, SoundnessIsOfEntries
  <2> QED BY <1>1, <1>5, <2>1 DEF RunIsSound
<1>7. SnapshotIsSound'
  <2>1. ASSUME ~snap.torn
        PROVE  Sound(snap, ToSet(listing')) /\ BackfillIsHonest'
    <3>1. Sound(snap, ToSet(listing)) /\ BackfillIsHonest
      BY <2>1 DEF ArchiveInv, SnapshotIsSound
    <3>2. Sound(snap, ToSet(listing'))
      BY <1>2, <1>4, <3>1, SoundStays
    <3>3. \A t \in Topics(snap.entries) \cap ToSet(listing') : t \in ToSet(listing)
      BY <1>2 DEF OnlyNewer
    <3> QED BY <3>1, <3>2, <3>3 DEF BackfillIsHonest
  <2> QED BY <2>1 DEF SnapshotIsSound
<1>8. WalkCovers'
  <2>1. ASSUME walk.pc = "priority", ~WillBeTorn
        PROVE  \A u \in ToSet(listing') \ Topics(walk.entries) : Covered(u)'
    <3>1. \A u \in ToSet(listing) \ Topics(walk.entries) : Covered(u)
      BY <2>1 DEF ArchiveInv, WalkCovers
    <3>2. \A u : Covered(u)' <=> Covered(u)
      BY <1>1 DEF Covered
    <3>3. \A u \in ToSet(listing') : u \in ToSet(listing) \/ Covered(u)
      BY <1>2 DEF OnlyNewer, Covered
    <3> QED BY <3>1, <3>2, <3>3
  <2> QED BY <1>1, <1>5, <2>1 DEF ArchiveInv, WalkCovers
<1> QED BY <1>1, <1>3, <1>6, <1>7, <1>8 DEF ArchiveInv

LEMMA ArrivalKeepsInv ==
  ASSUME ArchiveInv, NEW t \in Topic, Archive(t)
  PROVE  ArchiveInv'
<1> DEFINE torn == walk.torn \/ (walk.pc = "list" /\ PassesUnseen(listing'))
<1>1. /\ walk' = [walk EXCEPT !.torn = torn] /\ UNCHANGED <<snap>>
      /\ torn \in BOOLEAN /\ (walk.torn => torn)
  <2>1. walk.torn \in BOOLEAN
    BY DEF ArchiveInv, RunsAreTyped
  <2> QED BY <2>1 DEF Archive
<1>2. /\ ListingDescends' /\ Archived' = Archived \cup {t}
      /\ OnlyNewer(ToSet(listing), ToSet(listing'))
      /\ Len(listing') = Len(listing) + 1 /\ listing'[1] = t
      /\ \A i \in 1..Len(listing) : listing'[i + 1] = listing[i]
      /\ t \notin Archived
  BY ArrivalIsNewer DEF ArchiveInv
<1>3. /\ walk'.pc = walk.pc /\ walk'.entries = walk.entries /\ walk'.since = walk.since
      /\ walk'.page = walk.page /\ walk'.last = walk.last /\ walk'.torn = torn
  BY <1>1 DEF ArchiveInv, RunsAreTyped
<1>4. WalkIsOnePiece'
  <2>1. SUFFICES ASSUME walk.pc = "list", ~torn PROVE WalkIsOnePiece'
    BY <1>3 DEF WalkIsOnePiece
  <2>2. ~PassesUnseen(listing)' /\ ~walk.torn
    BY <1>3, <2>1 DEF PassesUnseen
  <2>3. /\ walk.entries \in Seq(Entry) /\ Len(walk.entries) \in Nat /\ Len(listing) \in Nat
        /\ walk.page \in Nat /\ Len(walk.entries) = walk.page * PageSize
    BY <2>1, <2>2 DEF ArchiveInv, RunsAreTyped, ListingDescends, WalkIsOnePiece
  <2> DEFINE e == walk.entries
  <2>4. PICK k \in Nat :
          /\ k + Len(e) <= Len(listing)
          /\ \A i \in 1..k : listing[i] \notin walk.since
          /\ \A i \in 1..Len(e) : e[i].topic = listing[k + i]
          /\ walk.page = 0 => k = 0
          /\ walk.page > 0 => walk.last = (Len(listing) - k - 1) \div PageSize
    BY <2>1, <2>2 DEF ArchiveInv, WalkIsOnePiece
  <2> HIDE DEF torn, e
  <2>5. CASE walk.page = 0
    <3>1. Len(e) = 0
      BY <2>3, <2>5, NumbersOfTheArchive DEF e
    <3>2. /\ 0 + Len(e) <= Len(listing')
          /\ \A i \in 1..0 : listing'[i] \notin walk.since
          /\ \A i \in 1..Len(e) : e[i].topic = listing'[0 + i]
      BY <1>2, <2>3, <3>1
    <3> QED BY <1>3, <2>2, <2>3, <2>5, <3>2 DEF WalkIsOnePiece, e
  <2>6. CASE walk.page # 0
    <3>1. (k + 1) + Len(e) <= Len(listing')
      BY <1>2, <2>3, <2>4 DEF e
    <3>2. ASSUME NEW i \in 1..(k + 1)
          PROVE  listing'[i] \notin walk.since
      <4>1. CASE i = 1
        BY <1>2, <4>1 DEF ArchiveInv, NothingInvented
      <4>2. CASE i # 1
        <5>1. i - 1 \in 1..k /\ i - 1 \in 1..Len(listing) /\ (i - 1) + 1 = i
          BY <2>3, <2>4, <4>2 DEF e
        <5>2. listing'[(i - 1) + 1] = listing[i - 1]
          BY <1>2, <5>1
        <5> QED BY <2>4, <5>1, <5>2
      <4> QED BY <4>1, <4>2
    <3>3. ASSUME NEW i \in 1..Len(e)
          PROVE  e[i].topic = listing'[(k + 1) + i]
      <4>1. k + i \in 1..Len(listing) /\ (k + i) + 1 = (k + 1) + i
        BY <2>3, <2>4 DEF e
      <4>2. listing'[(k + i) + 1] = listing[k + i]
        BY <1>2, <4>1
      <4> QED BY <2>4, <4>1, <4>2
    <3>4. walk.last = (Len(listing') - (k + 1) - 1) \div PageSize
      <4>1. Len(listing') - (k + 1) - 1 = Len(listing) - k - 1 /\ walk.page > 0
        BY <1>2, <2>3, <2>6
      <4> QED BY <2>4, <4>1
    <3>5. k + 1 \in Nat
      OBVIOUS
    <3> QED BY <1>3, <2>2, <2>3, <2>6, <3>1, <3>2, <3>3, <3>4, <3>5 DEF WalkIsOnePiece, e
  <2> QED BY <2>5, <2>6
<1> HIDE DEF torn
<1> QED BY <1>1, <1>2, <1>4, ListingMoves

LEMMA WithdrawalKeepsInv ==
  ASSUME ArchiveInv, NEW i \in DOMAIN listing, Withdraw(i)
  PROVE  ArchiveInv'
<1> DEFINE torn == walk.torn \/ walk.pc = "list"
<1>1. /\ walk' = [walk EXCEPT !.torn = torn] /\ UNCHANGED <<snap>>
      /\ torn \in BOOLEAN /\ (walk.torn => torn)
  <2>1. walk.torn \in BOOLEAN
    BY DEF ArchiveInv, RunsAreTyped
  <2> QED BY <2>1 DEF Withdraw
<1>2. ListingDescends' /\ Archived' = Archived /\ ToSet(listing') \subseteq ToSet(listing)
  BY WithdrawalKeepsOrder DEF ArchiveInv
<1>3. OnlyNewer(ToSet(listing), ToSet(listing'))
  BY <1>2 DEF OnlyNewer
<1>4. walk'.pc = walk.pc /\ walk'.torn = torn
  BY <1>1 DEF ArchiveInv, RunsAreTyped
<1>5. WalkIsOnePiece'
  BY <1>4 DEF WalkIsOnePiece
<1> HIDE DEF torn
<1> QED BY <1>1, <1>2, <1>3, <1>5, ListingMoves

LEMMA ArchiveStepsKeepInv ==
  ASSUME ArchiveInv, [ArchiveNext]_archiveVars
  PROVE  ArchiveInv'
<1>1. ASSUME NEW t \in Topic, Archive(t) PROVE ArchiveInv'
  BY <1>1, ArrivalKeepsInv
<1>2. ASSUME NEW i \in DOMAIN listing, Withdraw(i) PROVE ArchiveInv'
  BY <1>2, WithdrawalKeepsInv
<1>3. ASSUME NEW full \in BOOLEAN, BeginArchive(full) PROVE ArchiveInv'
  BY <1>3, BeginningKeepsInv
<1>4. CASE ReadListing
  BY <1>4, ReadingKeepsInv
<1>5. CASE WalkRepeats \/ Unchanged \/ ArchiveRefused \/ RunFails
  BY <1>5, RunIsDropped DEF WalkRepeats, Unchanged, ArchiveRefused, RunFails, site
<1>6. ASSUME NEW unavailable, PriorityPass(unavailable) PROVE ArchiveInv'
  BY <1>6, PriorityPassKeepsInv
<1>7. ASSUME NEW unavailable, WindowPass(unavailable) PROVE ArchiveInv'
  BY <1>7, WindowPassKeepsInv
<1>8. CASE Publish
  BY <1>8, PublishingKeepsInv
<1>9. ASSUME UNCHANGED <<listing, withdrawn, snap, walk>> PROVE ArchiveInv'
  <2>1. Archived' = Archived
    BY <1>9 DEF Archived
  <2>2. RunsAreTyped' /\ WalkIsOnePiece' /\ WalkCovers' /\ RunIsSound'
    BY <1>9, <2>1 DEF ArchiveInv, RunsAreTyped, WalkIsOnePiece, PassesUnseen, WalkCovers, Covered,
                      RunIsSound, WillBeTorn
  <2> QED BY <1>9, <2>2, OnlyTheRunMoves DEF ArchiveInv, NothingInvented
<1>10. ASSUME NEW t, EditCard(t) PROVE ArchiveInv'
  BY <1>9, <1>10 DEF EditCard
<1>11. ASSUME NEW c, Shortlist(c) PROVE ArchiveInv'
  BY <1>9, <1>11 DEF Shortlist
<1>12. CASE UNCHANGED archiveVars
  BY <1>9, <1>12 DEF archiveVars, site
<1>13. CASE ArchiveNext
  BY <1>1, <1>2, <1>3, <1>4, <1>5, <1>6, <1>7, <1>8, <1>10, <1>11, <1>13, Zenon DEF ArchiveNext, ArchiveStep
<1> QED BY <1>12, <1>13

\* In every state no incremental walk has forgotten what it did not look at, and
\* a snapshot that says the backfill is complete has read or tried every recent
\* entry that is still listed, unless the listing moved unseen under a walk
\* (collect_archive_index, _merge_with_previous, _recent_window_pending).
THEOREM ArchiveStaysHonest == ArchiveSpec => []ArchiveIsHonest
<1>1. ArchiveInit => ArchiveInv
  BY ArchiveStarts
<1>2. ArchiveInv /\ [ArchiveNext]_archiveVars => ArchiveInv'
  BY ArchiveStepsKeepInv
<1>3. ArchiveInv => ArchiveIsHonest
  <2>1. ASSUME ArchiveInv, ~snap.torn PROVE NothingForgotten /\ BackfillIsHonest
    <3>1. Sound(snap, ToSet(listing)) /\ BackfillIsHonest /\ snap.since \subseteq Archived
      BY <2>1 DEF ArchiveInv, SnapshotIsSound, NothingInvented
    <3> QED BY <3>1 DEF Sound, NothingForgotten, Archived
  <2> QED BY <2>1 DEF ArchiveIsHonest
<1> QED BY <1>1, <1>2, <1>3, PTL DEF ArchiveSpec
=============================================================================
