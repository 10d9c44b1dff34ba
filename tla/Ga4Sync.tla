------------------------------ MODULE Ga4Sync -------------------------------
(***************************************************************************)
(* Google Analytics reporting days (apps/visibility/ga4_sync.py).          *)
(*                                                                         *)
(* A run reconciles a window of completed days: it reads the window in     *)
(* chunks, and publishes each day whose reading differs from the current   *)
(* revision as a new revision.  Google restates a day after it ends.  The  *)
(* nightly run and the backfills of history share one advisory lock, so    *)
(* one run at a time writes and the reading of the current revision and    *)
(* the transaction that replaces it are one step.                          *)
(***************************************************************************)
EXTENDS Integers, Sequences, FiniteSets, SequencesExt, FiniteSetsExt

CONSTANTS
    LastDay,        \* bound: reporting days 1..LastDay
    Figures,        \* what Google may report for a day
    Details,        \* the kinds of rows beside the site's figures: pages and
                    \* channels, which --no-pages and --no-channels leave out
    Restates,       \* Google may report for a day figures it reported before
    MaxStatements,  \* bound: how often Google states the figures of a day
    WindowDays,     \* RECONCILIATION_DAYS
    ChunkDays,      \* BACKFILL_CHUNK_DAYS
    MaxBackfills,   \* bound: ranges and narrower collections operators run
    MaxFaults       \* bound: crashes, failed requests, failed writes

BoundAssumption ==
    /\ {LastDay, MaxStatements, MaxBackfills, MaxFaults} \subseteq Nat
    /\ WindowDays \in Nat \ {0} /\ ChunkDays \in Nat \ {0}
    /\ Restates \in BOOLEAN

Day == 1..LastDay

\* The canonical payload of a day: its figures, and which kinds of rows were
\* asked for.  The digest, and so the import key, is taken over both and the
\* day.
Reading == [figures : Figures, detail : SUBSET Details]

VARIABLES
    yesterday,  \* the last completed day; 0 before the first one ends
    remote,     \* Day -> what Google reports for it now
    stated,     \* Day -> everything Google has reported for it, in order
    revisions,  \* Day -> its published revisions; the last one is current
    feed,       \* the feed-state row
    sync,       \* the run holding the lock
    backfills,  \* ranges started so far
    faults      \* faults so far

vars == <<yesterday, remote, stated, revisions, feed, sync, backfills, faults>>

boundVars == <<backfills, faults>>

FeedResult == {"never_run", "imported", "unchanged", "failed"}

IdleSync == [pc |-> "idle", first |-> 1, end |-> 0, cursor |-> 1, detail |-> Details,
             dry_run |-> FALSE, got |-> <<>>, changed |-> FALSE]

\* Days of the collected chunk that are still to be published, with their
\* readings.
Chunk == UNION {[D -> Reading] : D \in SUBSET Day}

SyncState == [pc : {"idle", "collect", "publish", "finish", "fail"},
              first : 1..LastDay + 1, end : 0..LastDay, cursor : 1..LastDay + 1,
              detail : SUBSET Details, dry_run : BOOLEAN,
              got : Chunk,
              changed : BOOLEAN]

TypeOK ==
    /\ yesterday \in 0..LastDay
    /\ remote \in [Day -> Figures]
    /\ stated \in [Day -> Seq(Figures)]
    /\ revisions \in [Day -> Seq(Reading)]
    /\ feed \in [last_result : FeedResult, period_end : 0..LastDay]
    /\ sync \in SyncState
    /\ backfills \in 0..MaxBackfills
    /\ faults \in 0..MaxFaults

Init ==
    /\ yesterday = 0
    /\ remote \in [Day -> Figures]
    /\ stated = [d \in Day |-> <<remote[d]>>]
    /\ revisions = [d \in Day |-> <<>>]
    /\ feed = [last_result |-> "never_run", period_end |-> 0]
    /\ sync = IdleSync
    /\ backfills = 0
    /\ faults = 0

-----------------------------------------------------------------------------
(* Time and Google. *)

DayEnds ==
    /\ yesterday < LastDay
    /\ yesterday' = yesterday + 1
    /\ UNCHANGED <<remote, stated, revisions, feed, sync, boundVars>>

\* Late hits, stitched identities, reclassified traffic.
Restate(d, v) ==
    /\ d <= yesterday
    /\ v # remote[d]
    /\ Len(stated[d]) < MaxStatements
    /\ Restates \/ v \notin ToSet(stated[d])
    /\ remote' = [remote EXCEPT ![d] = v]
    /\ stated' = [stated EXCEPT ![d] = Append(@, v)]
    /\ UNCHANGED <<yesterday, revisions, feed, sync, boundVars>>

-----------------------------------------------------------------------------
(* One run. *)

At(label) == sync.pc = label

Fault == faults < MaxFaults /\ faults' = faults + 1

\* The first of the completed days an ordinary run re-reads.  Days before 1 do
\* not exist.
WindowStart == Max({1, yesterday - WindowDays + 1})

\* Take the lock and record the check.  A range with no completed day in it
\* returns before writing anything.
Begin(first, end, detail, dryRun) ==
    /\ At("idle")
    /\ first <= end
    /\ sync' = [IdleSync EXCEPT !.pc = "collect", !.first = first, !.end = end,
                                !.cursor = first, !.detail = detail,
                                !.dry_run = dryRun]
    /\ UNCHANGED <<yesterday, remote, stated, revisions, feed, faults>>

BeginNightly == Begin(WindowStart, yesterday, Details, FALSE) /\ UNCHANGED backfills

\* A range or a single day, clamped at yesterday.
BeginRange(first, end, detail, dryRun) ==
    /\ backfills < MaxBackfills
    /\ end <= yesterday
    /\ Begin(first, end, detail, dryRun)
    /\ backfills' = backfills + 1

\* The last day of the chunk that starts at the cursor.
ChunkEnd == Min({sync.cursor + ChunkDays - 1, sync.end})

\* Mutant of CollectChunk: the next chunk starts a day late.
CollectChunkSkippingDay ==
    /\ At("collect")
    /\ sync' = [sync EXCEPT
          !.pc = "publish",
          !.got = [d \in sync.cursor..ChunkEnd |->
                      [figures |-> remote[d], detail |-> sync.detail]],
          !.cursor = ChunkEnd + 2]
    /\ UNCHANGED <<yesterday, remote, stated, revisions, feed, boundVars>>

\* collect_range: all the days of the chunk, as Google reports them now.
CollectChunk ==
    /\ At("collect")
    /\ sync' = [sync EXCEPT
          !.pc = "publish",
          !.got = [d \in sync.cursor..ChunkEnd |->
                      [figures |-> remote[d], detail |-> sync.detail]],
          !.cursor = ChunkEnd + 1]
    /\ UNCHANGED <<yesterday, remote, stated, revisions, feed, boundVars>>

\* No configuration, a refused or malformed answer, retries used up.
CollectFails ==
    /\ At("collect")
    /\ Fault
    /\ sync' = [sync EXCEPT !.pc = "fail"]
    /\ UNCHANGED <<yesterday, remote, stated, revisions, feed, backfills>>

\* The day being published: the oldest of the chunk's that are left.
ThisDay == Min(DOMAIN sync.got)

ThisReading == sync.got[ThisDay]

HasRevision(d) == revisions[d] # <<>>

\* After a day: the next day, the next chunk, or the end of the run.
DayDone(changed) ==
    LET rest == DOMAIN sync.got \ {ThisDay}
    IN  sync' = [sync EXCEPT
            !.pc = IF rest # {} THEN "publish"
                   ELSE IF sync.cursor <= sync.end THEN "collect"
                   ELSE "finish",
            !.got = [d \in rest |-> sync.got[d]],
            !.changed = @ \/ changed]

\* Mutant of DayIsUnchanged: a day that is published is never revised.
DayIsPublished == HasRevision(ThisDay)

DayIsUnchanged == HasRevision(ThisDay) /\ Last(revisions[ThisDay]) = ThisReading

\* Mutant of WouldLoseDetail: the guard is dropped.
NothingToLose == FALSE

WouldLoseDetail ==
    /\ HasRevision(ThisDay)
    /\ ~(Last(revisions[ThisDay]).detail \subseteq ThisReading.detail)

\* Neither a day that has not changed nor a narrower reading is published.
SkipDay ==
    /\ At("publish")
    /\ DayIsUnchanged \/ WouldLoseDetail
    /\ DayDone(FALSE)
    /\ UNCHANGED <<yesterday, remote, stated, revisions, feed, boundVars>>

DayIsNew == At("publish") /\ ~DayIsUnchanged /\ ~WouldLoseDetail

PreviewDay ==
    /\ DayIsNew
    /\ sync.dry_run
    /\ DayDone(TRUE)
    /\ UNCHANGED <<yesterday, remote, stated, revisions, feed, boundVars>>

\* The unique constraint on the import key of successful live runs: a reading
\* of a day is published once in all time.
ImportKeyTaken == \E i \in DOMAIN revisions[ThisDay] : revisions[ThisDay][i] = ThisReading

\* Artifact, run, and the transaction that makes the reading the current
\* revision of its day.
PublishDay ==
    /\ DayIsNew
    /\ ~sync.dry_run
    /\ ~ImportKeyTaken
    /\ revisions' = [revisions EXCEPT ![ThisDay] = Append(@, ThisReading)]
    /\ DayDone(TRUE)
    /\ UNCHANGED <<yesterday, remote, stated, feed, boundVars>>

\* The success of the run violates the constraint: the transaction rolls back
\* and the whole run ends.
PublishRefused ==
    /\ DayIsNew
    /\ ~sync.dry_run
    /\ ImportKeyTaken
    /\ sync' = [sync EXCEPT !.pc = "fail"]
    /\ UNCHANGED <<yesterday, remote, stated, revisions, feed, boundVars>>

PublishFails ==
    /\ DayIsNew
    /\ ~sync.dry_run
    /\ Fault
    /\ sync' = [sync EXCEPT !.pc = "fail"]
    /\ UNCHANGED <<yesterday, remote, stated, revisions, feed, backfills>>

\* Record the outcome and the reporting day the feed has reached.
Finish ==
    /\ At("finish")
    /\ feed' = IF sync.dry_run THEN feed
               ELSE [last_result |-> IF sync.changed THEN "imported" ELSE "unchanged",
                     period_end |-> sync.end]
    /\ sync' = IdleSync
    /\ UNCHANGED <<yesterday, remote, stated, revisions, boundVars>>

\* Every day published before the failure stays.
Fail ==
    /\ At("fail")
    /\ feed' = [feed EXCEPT !.last_result = "failed"]
    /\ sync' = IdleSync
    /\ UNCHANGED <<yesterday, remote, stated, revisions, boundVars>>

Crash ==
    /\ ~At("idle")
    /\ Fault
    /\ sync' = IdleSync
    /\ UNCHANGED <<yesterday, remote, stated, revisions, feed, backfills>>

Step == CollectChunk \/ SkipDay \/ PreviewDay \/ PublishDay \/ PublishRefused
           \/ Finish \/ Fail

Next ==
    \/ DayEnds
    \/ \E d \in Day, v \in Figures : Restate(d, v)
    \/ BeginNightly
    \/ \E first, end \in Day, detail \in SUBSET Details, dryRun \in BOOLEAN :
          BeginRange(first, end, detail, dryRun)
    \/ Step
    \/ CollectFails \/ PublishFails \/ Crash

Spec == Init /\ [][Next]_vars

\* The scheduler keeps starting the nightly run, even between backfills, and a
\* run takes its next step.
Fairness == SF_vars(BeginNightly) /\ WF_vars(Step)

FairSpec == Spec /\ Fairness

-----------------------------------------------------------------------------
(* Properties. *)

\* A run that reports success has a published revision for every day it was
\* asked about, whatever the chunks were: no day falls between two chunks.
NoDayLeftOut ==
    At("finish") /\ ~sync.dry_run =>
        \A d \in sync.first..sync.end : HasRevision(d)

\* A day that once had its page or channel rows never loses them to a later,
\* narrower collection (_would_lose_detail).
DetailStep ==
    \A d \in Day :
       HasRevision(d) =>
          Last(revisions[d]).detail \subseteq Last(revisions'[d]).detail

DetailIsKept == [][DetailStep]_vars

ShowsRemote(d) == HasRevision(d) /\ Last(revisions[d]).figures = remote[d]

\* Google is back at what an earlier revision of the day has.
RestatedBack(d) ==
    \E i \in 1..Len(revisions[d]) - 1 :
        revisions[d][i] = [figures |-> remote[d], detail |-> Details]

\* Every completed day comes to show what Google reports for it, through
\* failures, crashes, chunks and backfills, unless it has left the window
\* first, or it or an older day of the window has been restated back.
AllReconciled ==
    \A d \in WindowStart..yesterday :
        ShowsRemote(d) \/ \E e \in WindowStart..d : RestatedBack(e)

\* The same without the exception: "a day whose normalised figures have changed
\* is republished as a new revision".
EveryDayReconciled ==
    []<>(\A d \in WindowStart..yesterday : ShowsRemote(d))
=============================================================================
