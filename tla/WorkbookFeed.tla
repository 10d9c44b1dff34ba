---------------------------- MODULE WorkbookFeed ----------------------------
(***************************************************************************)
(* A workbook feed: legal work or the event programme                      *)
(* (apps/legal_work/public_sync.py + importer.py, apps/event_programme/    *)
(* sync.py + importer.py, over apps/sources/workbook_sync.py).             *)
(*                                                                         *)
(* Scheduled synchronisations run under the feed's advisory lock.  The     *)
(* manual command import_oigusloome takes no lock, calls the same importer *)
(* and never writes the feed state, so the publication transaction is      *)
(* modelled statement by statement: SELECT ... FOR UPDATE of the current   *)
(* rows under READ COMMITTED, then the writes and the commit, where the    *)
(* unique constraints are enforced.                                        *)
(***************************************************************************)
EXTENDS ImportRegistry

CONSTANTS
    Sync,             \* invocations of the scheduled command
    Manual,           \* invocations of the manual command (legal work only)
    Nobody,           \* nobody holds the advisory lock
    Malformed,        \* contents parse_workbook refuses
    Size,             \* Content -> number of rows
    MinPercent,       \* FEED_COLLAPSE_MIN_RATIO, in percent
    DryRunOption,     \* with or without --dry-run
    CollapseOption    \* with or without --allow-collapse

ASSUME ProcAssumption == Sync \cap Manual = {} /\ Nobody \notin Sync \cup Manual
ASSUME ContentAssumption == Malformed \subseteq Content /\ Size \in [Content -> Nat]
ASSUME MinPercentAssumption == MinPercent \in 0..100
ASSUME OptionAssumption == DryRunOption \subseteq BOOLEAN /\ CollapseOption \subseteq BOOLEAN

VARIABLES
    lock,    \* holder of the advisory lock
    feed,    \* the feed-state row
    proc     \* the local state of every invocation

vars == <<artifacts, runs, snapshots, lock, feed, proc>>

Proc == Sync \cup Manual

SyncResult == {"never_run", "imported", "unchanged", "failed"}

\* Where an invocation stands: the next thing it does.
Label == {"idle", "fetch", "lookup", "register", "build", "start",
          "validate",    \* run started: parse, then the collapse guard
          "complete_dry",
          "select",      \* open the transaction, read the current rows
          "lock_rows",   \* wait for their row locks
          "commit",      \* write, check constraints, commit
          "fail_run", "record_failure", "record_imported", "record_unchanged"}

IdleProc == [pc |-> "idle", dry_run |-> FALSE, allow_collapse |-> FALSE,
             got |-> NoContent, found |-> FALSE, run |-> NoRun,
             view |-> {}, locked |-> {}]

ProcState == [pc : Label, dry_run : BOOLEAN, allow_collapse : BOOLEAN,
              got : Content \cup {NoContent}, found : BOOLEAN,
              run : RunId \cup {NoRun}, view : SUBSET RunId, locked : SUBSET RunId]

TypeOK ==
    /\ RegistryTypeOK
    /\ lock \in Sync \cup {Nobody}
    /\ feed \in [last_result : SyncResult, current : RunId \cup {NoRun}]
    /\ proc \in [Proc -> ProcState]

Init ==
    /\ RegistryInit
    /\ lock = Nobody
    /\ feed = [last_result |-> "never_run", current |-> NoRun]
    /\ proc = [p \in Proc |-> IdleProc]

-----------------------------------------------------------------------------

At(p, label) == proc[p].pc = label

Goto(p, label) == proc' = [proc EXCEPT ![p].pc = label]

\* Leave the command; a scheduled one leaves the lock's with-block too.  Row
\* locks go with the transaction.
Return(p) ==
    /\ proc' = [proc EXCEPT ![p] = IdleProc]
    /\ lock' = IF p \in Sync THEN Nobody ELSE lock

\* An exception leaves import_artifact or the registration: the scheduled
\* command records it, the manual command prints it and ends.
Raise(p) ==
    IF p \in Sync
    THEN Goto(p, "record_failure") /\ UNCHANGED lock
    ELSE Return(p)

\* Bound: an invocation starts only while a run key is left for it, so that
\* no invocation is cut off in the middle.
RunKeyLeft ==
    Cardinality({r \in RunId : runs[r].status = "absent"})
       > Cardinality({p \in Proc : ~At(p, "idle") /\ proc[p].run = NoRun})

\* Mutant of BeginSync: the lock is not tried.
BeginSyncUnlocked(p, dryRun, allowCollapse) ==
    /\ p \in Sync
    /\ At(p, "idle")
    /\ RunKeyLeft
    /\ proc' = [proc EXCEPT ![p] = [IdleProc EXCEPT !.pc = "fetch", !.dry_run = dryRun,
                                                    !.allow_collapse = allowCollapse]]
    /\ UNCHANGED <<registryVars, lock, feed>>

\* Take the advisory lock or be refused with exit code 3, record the check.
BeginSync(p, dryRun, allowCollapse) ==
    /\ p \in Sync
    /\ At(p, "idle")
    /\ lock = Nobody
    /\ RunKeyLeft
    /\ lock' = p
    /\ proc' = [proc EXCEPT ![p] = [IdleProc EXCEPT !.pc = "fetch", !.dry_run = dryRun,
                                                    !.allow_collapse = allowCollapse]]
    /\ UNCHANGED <<registryVars, feed>>

\* import_oigusloome --file: hash the file and look the digest up; no lock.
BeginManual(p, c, dryRun, allowCollapse) ==
    /\ p \in Manual
    /\ At(p, "idle")
    /\ RunKeyLeft
    /\ proc' = [proc EXCEPT ![p] = [IdleProc EXCEPT !.pc = "register", !.dry_run = dryRun,
                                                    !.allow_collapse = allowCollapse,
                                                    !.got = c,
                                                    !.found = artifacts[c] # "none"]]
    /\ UNCHANGED <<registryVars, lock, feed>>

\* The public link may serve any workbook at any time.
Fetch(p) ==
    /\ At(p, "fetch")
    /\ \E c \in Content :
          proc' = [proc EXCEPT ![p] = [@ EXCEPT !.pc = "lookup", !.got = c]]
    /\ UNCHANGED <<registryVars, lock, feed>>

FetchFails(p) ==
    /\ At(p, "fetch")
    /\ Raise(p)
    /\ UNCHANGED <<registryVars, feed>>

\* The operator has not configured the URL: reported, not recorded.
NotConfigured(p) ==
    /\ At(p, "fetch")
    /\ Return(p)
    /\ UNCHANGED <<registryVars, feed>>

\* find_published_artifact: the artifact, and whether it was ever published.
Lookup(p) ==
    /\ At(p, "lookup")
    /\ proc' = [proc EXCEPT ![p] =
          [@ EXCEPT !.pc = IF AlreadyPublished(proc[p].got) THEN "record_unchanged" ELSE "register",
                    !.found = artifacts[proc[p].got] # "none"]]
    /\ UNCHANGED <<registryVars, lock, feed>>

\* The manual importer parses the artifact's own file, the scheduled one the
\* download it holds: an external reference cannot be imported manually.
Importable(p) == p \in Manual => artifacts[proc[p].got] = "file"

ReuseArtifact(p) ==
    /\ At(p, "register")
    /\ proc[p].found
    /\ IF Importable(p) THEN Goto(p, "build") /\ UNCHANGED lock ELSE Raise(p)
    /\ UNCHANGED <<registryVars, feed>>

Register(p) ==
    /\ At(p, "register")
    /\ ~proc[p].found
    /\ RegisterArtifact(proc[p].got, IF p \in Manual THEN "file" ELSE "external")
    /\ Goto(p, "build")
    /\ UNCHANGED <<lock, feed>>

\* Somebody registered the same bytes since the lookup.
RegisterRefused(p) ==
    /\ At(p, "register")
    /\ ~proc[p].found
    /\ artifacts[proc[p].got] # "none"
    /\ Raise(p)
    /\ UNCHANGED <<registryVars, feed>>

BuildRun(p) ==
    /\ At(p, "build")
    /\ \E r \in RunId :
          /\ BuildImportRun(r, proc[p].got, proc[p].dry_run)
          /\ proc' = [proc EXCEPT ![p] = [@ EXCEPT !.pc = "start", !.run = r]]
    /\ UNCHANGED <<lock, feed>>

StartRun(p) ==
    /\ At(p, "start")
    /\ StartImportRun(proc[p].run)
    /\ Goto(p, "validate")
    /\ UNCHANGED <<lock, feed>>

\* A registry write before the importer's try-block fails.
OpenRunFails(p) ==
    /\ proc[p].pc \in {"register", "build", "start"}
    /\ Raise(p)
    /\ UNCHANGED <<registryVars, feed>>

\* The incoming workbook would replace the shown one by far fewer rows.
Collapses(shown, c) ==
    /\ shown # NoRun
    /\ Size[runs[shown].content] > 0
    /\ Size[c] < Size[runs[shown].content]
    /\ Size[c] * 100 < MinPercent * Size[runs[shown].content]

\* collapse_reason with the operator's --allow-collapse.
CollapseRefused(p) ==
    ~proc[p].allow_collapse /\ Collapses(Current, proc[p].got)

\* Parse and ask the guard, outside any transaction.
Validate(p) ==
    /\ At(p, "validate")
    /\ proc[p].got \notin Malformed
    /\ ~CollapseRefused(p)
    /\ Goto(p, IF proc[p].dry_run THEN "complete_dry" ELSE "select")
    /\ UNCHANGED <<registryVars, lock, feed>>

ValidateRefuses(p) ==
    /\ At(p, "validate")
    /\ proc[p].got \in Malformed \/ CollapseRefused(p)
    /\ Goto(p, "fail_run")
    /\ UNCHANGED <<registryVars, lock, feed>>

CompleteDryRun(p) ==
    /\ At(p, "complete_dry")
    /\ CompleteImportRun(proc[p].run)
    /\ Return(p)
    /\ UNCHANGED <<artifacts, snapshots, feed>>

\* The statement starts: the committed rows it will see.
SelectCurrent(p) ==
    /\ At(p, "select")
    /\ proc' = [proc EXCEPT ![p] = [@ EXCEPT !.pc = "lock_rows", !.view = CurrentRuns]]
    /\ UNCHANGED <<registryVars, lock, feed>>

\* Mutant of LockRows: it also waits for those who wait.
LockRowsBehindWaiters(p) ==
    /\ At(p, "lock_rows")
    /\ \A q \in Proc \ {p} : proc[q].view \cap proc[p].view = {}
    /\ proc' = [proc EXCEPT ![p] = [@ EXCEPT !.pc = "commit",
                                             !.locked = proc[p].view \cap CurrentRuns]]
    /\ UNCHANGED <<registryVars, lock, feed>>

\* It gets its row locks once nobody else holds one, and then re-checks
\* is_current: a row retired while it waited drops out, a row that became
\* current meanwhile is not seen.
LockRows(p) ==
    /\ At(p, "lock_rows")
    /\ \A q \in Proc \ {p} : proc[q].locked \cap proc[p].view = {}
    /\ proc' = [proc EXCEPT ![p] = [@ EXCEPT !.pc = "commit",
                                             !.locked = proc[p].view \cap CurrentRuns]]
    /\ UNCHANGED <<registryVars, lock, feed>>

\* Mutant of ConstraintsAllow: no constraint on the current flag.
KeyAllows(p) == ~KeyTaken(proc[p].got)

\* legalwork_one_current_snapshot_per_source and
\* importrun_unique_successful_live_import, both checked at the write.
ConstraintsAllow(p) ==
    /\ CurrentRuns \subseteq proc[p].locked
    /\ ~KeyTaken(proc[p].got)

\* Rows, retirement, the new current flag and the run's success commit at once.
Commit(p) ==
    /\ At(p, "commit")
    /\ ConstraintsAllow(p)
    /\ PublishCurrent(proc[p].run, proc[p].locked)
    /\ CompleteImportRun(proc[p].run)
    /\ IF p \in Sync
       THEN /\ proc' = [proc EXCEPT ![p] = [@ EXCEPT !.pc = "record_imported",
                                                     !.view = {}, !.locked = {}]]
            /\ UNCHANGED lock
       ELSE Return(p)
    /\ UNCHANGED <<artifacts, feed>>

Rollback(p) ==
    proc' = [proc EXCEPT ![p] = [@ EXCEPT !.pc = "fail_run", !.view = {}, !.locked = {}]]

CommitRefused(p) ==
    /\ At(p, "commit")
    /\ ~ConstraintsAllow(p)
    /\ Rollback(p)
    /\ UNCHANGED <<registryVars, lock, feed>>

PublishFails(p) ==
    /\ proc[p].pc \in {"select", "lock_rows", "commit"}
    /\ Rollback(p)
    /\ UNCHANGED <<registryVars, lock, feed>>

\* fail_publication, then the exception travels on.
CloseRun(p) ==
    /\ At(p, "fail_run")
    /\ FailPublication(proc[p].run)
    /\ Raise(p)
    /\ UNCHANGED <<feed>>

RecordFailure(p) ==
    /\ At(p, "record_failure")
    /\ feed' = [feed EXCEPT !.last_result = "failed"]
    /\ Return(p)
    /\ UNCHANGED registryVars

RecordImported(p) ==
    /\ At(p, "record_imported")
    /\ feed' = [last_result |-> "imported", current |-> proc[p].run]
    /\ Return(p)
    /\ UNCHANGED registryVars

RecordUnchanged(p) ==
    /\ At(p, "record_unchanged")
    /\ feed' = IF proc[p].dry_run THEN feed ELSE [feed EXCEPT !.last_result = "unchanged"]
    /\ Return(p)
    /\ UNCHANGED registryVars

\* The process dies; its open transaction rolls back and its locks go.
Crash(p) ==
    /\ ~At(p, "idle")
    /\ Return(p)
    /\ UNCHANGED <<registryVars, feed>>

Step(p) ==
    \/ Fetch(p) \/ FetchFails(p) \/ NotConfigured(p) \/ Lookup(p)
    \/ ReuseArtifact(p) \/ Register(p) \/ RegisterRefused(p)
    \/ BuildRun(p) \/ StartRun(p)
    \/ Validate(p) \/ ValidateRefuses(p) \/ CompleteDryRun(p)
    \/ SelectCurrent(p) \/ LockRows(p) \/ Commit(p) \/ CommitRefused(p)
    \/ CloseRun(p) \/ RecordFailure(p) \/ RecordImported(p) \/ RecordUnchanged(p)

Fault(p) == OpenRunFails(p) \/ PublishFails(p) \/ Crash(p)

Next ==
    \/ \E p \in Sync, dryRun \in DryRunOption, allow \in CollapseOption :
          BeginSync(p, dryRun, allow)
    \/ \E p \in Manual, c \in Content, dryRun \in DryRunOption, allow \in CollapseOption :
          BeginManual(p, c, dryRun, allow)
    \/ \E p \in Proc : Step(p) \/ Fault(p)

Spec == Init /\ [][Next]_vars

\* A running command takes its next step.
FairSpec == Spec /\ \A p \in Proc : WF_vars(Step(p))

-----------------------------------------------------------------------------
(* Properties. *)

\* At most one snapshot of the source is current, although a manual import and
\* a scheduled one may have their publication transactions open together and
\* the waiter of a row lock does not see the row that became current meanwhile
\* (_publish in legal_work/importer.py and event_programme/importer.py).
OneCurrent == Cardinality(CurrentRuns) <= 1

\* A snapshot exists exactly when the live import that wrote it succeeded,
\* whichever of two overlapping publications is refused (import_artifact).
AtomicPublication == \A r \in RunId : snapshots[r] # "none" <=> LiveSuccess(r)

\* However two publication transactions overlap, no snapshot exists without
\* the successful run that wrote it, and at most one is current
\* (import_artifact, _publish).
PublishedWhole == OneCurrent /\ AtomicPublication

Contract == INSTANCE PublicationContract
    WITH shown <- ShownContent, published <- {c \in Content : KeyTaken(c)}

\* The feed implements the publication contract: whole publications only, each
\* content at most once, nothing ever withdrawn.
ContractSpec == Contract!Spec

\* The dashboard never shrinks below the floor of collapse_reason unless the
\* invocation that published was told --allow-collapse.
CollapseStep ==
    ShownContent' # ShownContent =>
        \E p \in Proc : /\ At(p, "commit")
                        /\ proc[p].got = ShownContent'
                        /\ proc[p].allow_collapse \/ ~Collapses(Current, proc[p].got)

NoCollapse == [][CollapseStep]_vars

=============================================================================
