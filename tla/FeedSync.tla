------------------------------ MODULE FeedSync ------------------------------
(***************************************************************************)
(* One public Koda.ee feed: membership, news or events                     *)
(* (apps/membership/sync.py, apps/news/sync.py, apps/events/sync.py over   *)
(* apps/core/feed_sync.py and apps/core/feeds.py).                         *)
(*                                                                         *)
(* Invocations of the command run under the feed's session-level advisory  *)
(* lock, talk to a remote that changes at any time, and commit in several  *)
(* separate transactions; an invocation may die between any two of them,   *)
(* which also ends its session and so releases the lock.                   *)
(***************************************************************************)
EXTENDS ImportRegistry

CONSTANTS
    Proc,               \* invocations of the feed's command
    Nobody,             \* nobody holds the advisory lock
    Conditional,        \* the collector sends If-None-Match (not for events)
    Reverts,            \* the remote may serve a content it served before
    Size,               \* Content -> its member count
    MaxChangeAbsolute,  \* KODA_MEMBERS_MAX_CHANGE_ABSOLUTE
    MaxChangePercent,   \* KODA_MEMBERS_MAX_CHANGE_RATIO, in percent
    MaxFaults,          \* bound: crashes and failed database writes
    MaxDryRuns          \* bound: dry runs that open an import run

ASSUME NobodyAssumption == Nobody \notin Proc
ASSUME FlagAssumption == Conditional \in BOOLEAN /\ Reverts \in BOOLEAN
ASSUME SizeAssumption == Size \in [Content -> Nat]
ASSUME BoundAssumption ==
    /\ MaxChangeAbsolute \in Nat
    /\ MaxChangePercent \in Nat
    /\ MaxFaults \in Nat
    /\ MaxDryRuns \in Nat

VARIABLES
    remote,   \* the content the source serves now
    served,   \* every content it has served so far
    lock,     \* holder of the advisory lock
    feed,     \* the feed-state row: last_result, current pointer, remote_etag
    proc,     \* Proc -> the invocation's local state
    faults,   \* crashes and failed writes so far
    dryRuns   \* dry runs started so far

envVars == <<remote, served>>
boundVars == <<faults, dryRuns>>
vars == <<artifacts, runs, snapshots, remote, served, lock, feed, proc, faults, dryRuns>>

FeedResult == {"never_run", "imported", "unchanged", "failed"}

\* Where an invocation stands: the next thing it does.
Label == {"idle",          \* not running
          "collect",       \* lock taken, check recorded, source not asked yet
          "decide",        \* content collected, not compared with the registry
          "register",      \* accepted, artifact not looked up or registered
          "build", "start",
          "publish",       \* run started, nothing published
          "fail_run",      \* publication rolled back, run still open
          "fail_feed", "mark_imported", "mark_unchanged"}

IdleProc == [pc |-> "idle", dry_run |-> FALSE, seen |-> NoRun,
             got |-> NoContent, not_modified |-> FALSE, run |-> NoRun]

ProcState == [pc : Label, dry_run : BOOLEAN, seen : RunId \cup {NoRun},
              got : Content \cup {NoContent}, not_modified : BOOLEAN,
              run : RunId \cup {NoRun}]

FeedState == [last_result : FeedResult, current : RunId \cup {NoRun},
              etag : Content \cup {NoContent}]

TypeOK ==
    /\ RegistryTypeOK
    /\ remote \in Content
    /\ served \subseteq Content
    /\ lock \in Proc \cup {Nobody}
    /\ feed \in FeedState
    /\ proc \in [Proc -> ProcState]
    /\ faults \in 0..MaxFaults
    /\ dryRuns \in 0..MaxDryRuns

Init ==
    /\ RegistryInit
    /\ remote \in Content
    /\ served = {remote}
    /\ lock = Nobody
    /\ feed = [last_result |-> "never_run", current |-> NoRun, etag |-> NoContent]
    /\ proc = [p \in Proc |-> IdleProc]
    /\ faults = 0
    /\ dryRuns = 0

-----------------------------------------------------------------------------
(* The environment. *)

\* The source publishes something else.
RemoteChanges(c) ==
    /\ c # remote
    /\ Reverts \/ c \notin served
    /\ remote' = c
    /\ served' = served \cup {c}
    /\ UNCHANGED <<registryVars, lock, feed, proc, boundVars>>

-----------------------------------------------------------------------------
(* Steps of one invocation. *)

At(p, label) == proc[p].pc = label

Goto(p, label) == proc' = [proc EXCEPT ![p].pc = label]

\* Mutant of Return: the session keeps its lock.
ReturnHoldingLock(p) ==
    /\ proc' = [proc EXCEPT ![p] = IdleProc]
    /\ UNCHANGED lock

\* Return from the command: leave the with-block and so release the lock.
Return(p) ==
    /\ proc' = [proc EXCEPT ![p] = IdleProc]
    /\ lock' = Nobody

\* Mutant of TryAdvisoryLock: the answer of the try is ignored.
LockIgnored == TRUE

\* pg_try_advisory_lock succeeds: the lock is free.  A refused invocation
\* exits with code 3 before it reads or writes anything.
TryAdvisoryLock == lock = Nobody

\* Take the lock, fetch the feed-state row, record the check, read what is
\* current.
Begin(p, dryRun) ==
    /\ At(p, "idle")
    /\ TryAdvisoryLock
    /\ dryRun => dryRuns < MaxDryRuns
    /\ lock' = p
    /\ proc' = [proc EXCEPT ![p] = [IdleProc EXCEPT !.pc = "collect",
                                                    !.dry_run = dryRun,
                                                    !.seen = Current]]
    /\ dryRuns' = IF dryRun THEN dryRuns + 1 ELSE dryRuns
    /\ UNCHANGED <<registryVars, envVars, feed, faults>>

\* The validator sent with the request; none when nothing is published.
SentEtag(p) == IF Conditional /\ proc[p].seen # NoRun THEN feed.etag ELSE NoContent

NotModified(p) == SentEtag(p) = remote

\* The source answers: 304 when the validator matches, the content otherwise.
Collect(p) ==
    /\ At(p, "collect")
    /\ proc' = [proc EXCEPT ![p] =
          [@ EXCEPT !.pc = IF NotModified(p) THEN "mark_unchanged" ELSE "decide",
                    !.got = remote,
                    !.not_modified = NotModified(p)]]
    /\ UNCHANGED <<registryVars, envVars, lock, feed, boundVars>>

\* The source is down, answers nonsense, or the collector raises.
CollectFails(p) ==
    /\ At(p, "collect")
    /\ Goto(p, "fail_feed")
    /\ UNCHANGED <<registryVars, envVars, lock, feed, boundVars>>

Delta(m, n) == IF m > n THEN m - n ELSE n - m

\* Refused only past both the absolute and the proportional threshold; the
\* first observation always passes.
IsChangePlausible(previous, c) ==
    LET from == IF previous = NoRun THEN 0 ELSE Size[runs[previous].content]
        delta == Delta(from, Size[c])
    IN  ~ /\ from > 0
          /\ delta > MaxChangeAbsolute
          /\ delta * 100 > MaxChangePercent * from

\* Compare with the registry, then with the observation on the dashboard.
Decide(p) ==
    /\ At(p, "decide")
    /\ Goto(p, IF AlreadyPublished(proc[p].got) THEN "mark_unchanged"
               ELSE IF IsChangePlausible(proc[p].seen, proc[p].got) THEN "register"
               ELSE "fail_feed")
    /\ UNCHANGED <<registryVars, envVars, lock, feed, boundVars>>

\* start_run: reuse the artifact a dry, failed or dead run left behind ...
ReuseArtifact(p) ==
    /\ At(p, "register")
    /\ artifacts[proc[p].got] # "none"
    /\ Goto(p, "build")
    /\ UNCHANGED <<registryVars, envVars, lock, feed, boundVars>>

\* ... or register a new metadata-only one ...
RegisterReference(p) ==
    /\ At(p, "register")
    /\ RegisterArtifact(proc[p].got, "external")
    /\ Goto(p, "build")
    /\ UNCHANGED <<envVars, lock, feed, boundVars>>

\* ... open a pending run ...
BuildRun(p) ==
    /\ At(p, "build")
    /\ \E r \in RunId :
          /\ BuildImportRun(r, proc[p].got, proc[p].dry_run)
          /\ proc' = [proc EXCEPT ![p] = [@ EXCEPT !.pc = "start", !.run = r]]
    /\ UNCHANGED <<envVars, lock, feed, boundVars>>

\* ... and start it.
StartRun(p) ==
    /\ At(p, "start")
    /\ StartImportRun(proc[p].run)
    /\ Goto(p, "publish")
    /\ UNCHANGED <<envVars, lock, feed, boundVars>>

\* A write of start_run fails: the feed records it, the run stays as it is.
StartRunFails(p) ==
    /\ proc[p].pc \in {"register", "build", "start"}
    /\ faults < MaxFaults
    /\ faults' = faults + 1
    /\ Goto(p, "fail_feed")
    /\ UNCHANGED <<registryVars, envVars, lock, feed, dryRuns>>

\* A dry run closes its run and returns; the feed state is not written.
CompleteDryRun(p) ==
    /\ At(p, "publish")
    /\ proc[p].dry_run
    /\ CompleteImportRun(proc[p].run)
    /\ Return(p)
    /\ UNCHANGED <<artifacts, snapshots, envVars, feed, boundVars>>

\* The publication transaction: rows, retirement of the previous snapshot,
\* the run's success.  The lock makes this its only writer, so it is one step.
Publish(p) ==
    /\ At(p, "publish")
    /\ ~proc[p].dry_run
    /\ PublishCurrent(proc[p].run, CurrentRuns)
    /\ CompleteImportRun(proc[p].run)
    /\ Goto(p, "mark_imported")
    /\ UNCHANGED <<artifacts, envVars, lock, feed, boundVars>>

\* Mutant of PublishFails: the snapshot is written outside the transaction.
PublishFailsHalfway(p) ==
    /\ At(p, "publish")
    /\ ~proc[p].dry_run
    /\ faults < MaxFaults
    /\ faults' = faults + 1
    /\ PublishCurrent(proc[p].run, CurrentRuns)
    /\ Goto(p, "fail_run")
    /\ UNCHANGED <<artifacts, runs, envVars, lock, feed, dryRuns>>

\* Anything inside the transaction raises and it rolls back.
PublishFails(p) ==
    /\ At(p, "publish")
    /\ ~proc[p].dry_run
    /\ faults < MaxFaults
    /\ faults' = faults + 1
    /\ Goto(p, "fail_run")
    /\ UNCHANGED <<registryVars, envVars, lock, feed, dryRuns>>

\* The error handler closes the run ...
CloseRun(p) ==
    /\ At(p, "fail_run")
    /\ FailPublication(proc[p].run)
    /\ Goto(p, "fail_feed")
    /\ UNCHANGED <<envVars, lock, feed, boundVars>>

\* ... and records the failure, keeping the pointer to what is shown.
FailFeed(p) ==
    /\ At(p, "fail_feed")
    /\ feed' = [feed EXCEPT !.last_result = "failed"]
    /\ Return(p)
    /\ UNCHANGED <<registryVars, envVars, boundVars>>

\* Mutant of MarkImported: the run's vocabulary in the feed's field.
MarkSucceeded(p) ==
    /\ At(p, "mark_imported")
    /\ feed' = [feed EXCEPT !.last_result = "succeeded", !.current = proc[p].run]
    /\ Return(p)
    /\ UNCHANGED <<registryVars, envVars, boundVars>>

MarkImported(p) ==
    /\ At(p, "mark_imported")
    /\ feed' = [last_result |-> "imported", current |-> proc[p].run,
                etag |-> IF Conditional THEN proc[p].got ELSE feed.etag]
    /\ Return(p)
    /\ UNCHANGED <<registryVars, envVars, boundVars>>

\* A 304 carries no validators, so the stored ones stay; a dry run reports the
\* same finding and writes nothing.
MarkUnchanged(p) ==
    /\ At(p, "mark_unchanged")
    /\ feed' = IF proc[p].dry_run THEN feed
               ELSE [feed EXCEPT !.last_result = "unchanged",
                                 !.etag = IF Conditional /\ ~proc[p].not_modified
                                          THEN proc[p].got ELSE @]
    /\ Return(p)
    /\ UNCHANGED <<registryVars, envVars, boundVars>>

\* The process dies, or an exception escapes: what is committed stays, the
\* session and its lock are gone.
Crash(p) ==
    /\ ~At(p, "idle")
    /\ faults < MaxFaults
    /\ faults' = faults + 1
    /\ Return(p)
    /\ UNCHANGED <<registryVars, envVars, feed, dryRuns>>

\* The steps an invocation takes by itself.
Step(p) ==
    \/ Collect(p)
    \/ Decide(p)
    \/ ReuseArtifact(p)
    \/ RegisterReference(p)
    \/ BuildRun(p)
    \/ StartRun(p)
    \/ CompleteDryRun(p)
    \/ Publish(p)
    \/ CloseRun(p)
    \/ FailFeed(p)
    \/ MarkImported(p)
    \/ MarkUnchanged(p)

Fault(p) == CollectFails(p) \/ StartRunFails(p) \/ PublishFails(p) \/ Crash(p)

Next ==
    \/ \E c \in Content : RemoteChanges(c)
    \/ \E p \in Proc, dryRun \in BOOLEAN : Begin(p, dryRun)
    \/ \E p \in Proc : Step(p) \/ Fault(p)

Spec == Init /\ [][Next]_vars

(***************************************************************************)
(* Fairness.  The scheduler starts a live run every morning (each process  *)
(* keeps being started), a running command takes its next step, and a      *)
(* source that is asked again and again answers now and then.              *)
(***************************************************************************)
Fairness ==
    /\ \A p \in Proc : WF_vars(Step(p) /\ ~At(p, "collect"))
    /\ \A p \in Proc : WF_vars(Collect(p) \/ CollectFails(p))
    /\ SF_vars(\E p \in Proc : ~proc[p].dry_run /\ Collect(p))
    /\ WF_vars(\E p \in Proc : Begin(p, FALSE))

FairSpec == Spec /\ Fairness

-----------------------------------------------------------------------------
(* Properties. *)

\* A snapshot exists exactly when the live import that wrote it succeeded:
\* whatever fails or dies between the run's commits, there is never a published
\* snapshot of an unfinished run, nor a successful live run that published
\* nothing (the publication transaction of synchronize_membership / _news /
\* _events, and fail_publication re-reading the run).
AtomicPublication == \A r \in RunId : snapshots[r] # "none" <=> LiveSuccess(r)

\* A check about to report "imported" or "unchanged" is looking at a dashboard
\* that shows exactly the content the source served to that check.  This is
\* what find_published_artifact and the 304 branch are trusted for.
VerifiedIsShown ==
    \A p \in Proc : proc[p].pc \in {"mark_imported", "mark_unchanged"}
                       => ShownContent = proc[p].got

\* From the start of an invocation until it publishes, the dashboard keeps
\* showing what it showed when the invocation looked: a failed check and a dry
\* run leave it alone, and the `current' read before the HTTP call is not stale
\* when the plausibility guard uses it after the call.
SeenIsStillShown ==
    \A p \in Proc : proc[p].pc \notin {"idle", "mark_imported"}
                       => Current = proc[p].seen

\* The count on the dashboard never moves by more than is_change_plausible
\* accepts, measured against the count it replaces.
NoImplausibleJump ==
    [][ShownContent' # ShownContent => IsChangePlausible(Current, ShownContent')]_vars

Contract == INSTANCE PublicationContract
    WITH shown <- ShownContent, published <- {c \in Content : KeyTaken(c)}

\* The feed implements the publication contract: the dashboard changes only by
\* a whole publication of a content never published before.
ContractSpec == Contract!Spec

\* Once the source settles on a content, the dashboard ends up showing it and
\* keeps showing it, however many checks failed or died before, unless the
\* plausibility guard keeps refusing it.
EventuallyShown ==
    <>[][UNCHANGED remote]_vars =>
        <>[](ShownContent = remote \/ ~IsChangePlausible(Current, remote))
=============================================================================
