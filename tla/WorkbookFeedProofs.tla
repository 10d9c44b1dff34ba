------------------------- MODULE WorkbookFeedProofs -------------------------
(***************************************************************************)
(* Proofs about WorkbookFeed, for every set of workbooks, scheduled and    *)
(* manual invocations and run keys.                                        *)
(*                                                                         *)
(* No lock serialises a manual import with a scheduled one, so the         *)
(* inductive invariant is about what the invocations may rely on without   *)
(* it: an import run belongs to the invocation that opened it, and the     *)
(* rows a publication read, or locked, were published and stay so.         *)
(***************************************************************************)
EXTENDS WorkbookFeed, FiniteSetTheorems, TLAPS

\* p's run is in the given status and describes what p got.
OwnRun(p, status) ==
    /\ proc[p].run \in RunId
    /\ runs[proc[p].run].status = status
    /\ runs[proc[p].run].content = proc[p].got
    /\ runs[proc[p].run].dry_run = proc[p].dry_run

\* What an invocation may rely on at each of its labels.
LocalInv(p) ==
    /\ proc[p].pc \notin {"idle", "fetch", "record_failure"} => proc[p].got \in Content
    /\ proc[p].pc = "start" => OwnRun(p, "pending")
    /\ proc[p].pc \in {"validate", "complete_dry", "select", "lock_rows", "commit", "fail_run"}
          => OwnRun(p, "running")
    /\ proc[p].pc = "complete_dry" => proc[p].dry_run
    /\ proc[p].pc \in {"select", "lock_rows", "commit"} => ~proc[p].dry_run
    /\ \A r \in proc[p].view \cup proc[p].locked : snapshots[r] # "none"

\* An import run that some invocation has opened is that invocation's alone.
PrivateRuns ==
    \A p \in Proc : proc[p].run # NoRun =>
        /\ runs[proc[p].run].status # "absent"
        /\ \A q \in Proc : q # p => proc[q].run # proc[p].run

AtMostOneCurrent ==
    \A q, r \in RunId : snapshots[q] = "current" /\ snapshots[r] = "current" => q = r

IInv ==
    /\ AtMostOneCurrent
    /\ AtomicPublication
    /\ PrivateRuns
    /\ \A p \in Proc : LocalInv(p)

LEMMA RunIdNotNoRun == NoRun \notin RunId
  BY RunIdAssumption DEF NoRun

LEMMA IdleProcType == IdleProc \in ProcState
  BY DEF IdleProc, ProcState, Label

\* Leaving the command, and letting an exception out of it, keep the types.
LEMMA ReturnType ==
  ASSUME TypeOK, NEW p \in Proc, Return(p) \/ Raise(p)
  PROVE  /\ proc' \in [Proc -> ProcState]
         /\ lock' \in Sync \cup {Nobody}
<1>1. CASE Return(p)
  BY <1>1, IdleProcType DEF Return, TypeOK
<1>2. CASE Goto(p, "record_failure") /\ UNCHANGED lock
  BY <1>2 DEF Goto, TypeOK, ProcState, Label
<1> QED
  BY <1>1, <1>2 DEF Raise

\* So does a step that only moves the invocation on.
LEMMA MoveType ==
  ASSUME TypeOK, NEW p \in Proc, NEW s \in ProcState, proc' = [proc EXCEPT ![p] = s],
         UNCHANGED <<registryVars, lock, feed>>
  PROVE  TypeOK'
  BY DEF TypeOK, RegistryTypeOK, registryVars

LEMMA GotoType ==
  ASSUME TypeOK, NEW p \in Proc, NEW l \in Label, Goto(p, l)
  PROVE  proc' \in [Proc -> ProcState]
<1>1. [proc[p] EXCEPT !.pc = l] \in ProcState
  BY DEF TypeOK, ProcState
<1> QED
  BY <1>1 DEF Goto, TypeOK

-----------------------------------------------------------------------------

\* Every variable keeps its type, whatever the two kinds of invocation do
\* (import_artifact, synchronize_legal_work, import_oigusloome).
THEOREM TypeCorrect == Spec => []TypeOK
<1>1. Init => TypeOK
  BY IdleProcType DEF Init, RegistryInit, TypeOK, RegistryTypeOK, ArtifactKind, Run, RunStatus,
                      AbsentRun, SnapshotState, SyncResult, NoRun
<1>2. TypeOK /\ [Next]_vars => TypeOK'
  <2> SUFFICES ASSUME TypeOK, [Next]_vars
               PROVE  TypeOK'
    OBVIOUS
  <2>1. ASSUME NEW p \in Sync, NEW dryRun \in DryRunOption, NEW allow \in CollapseOption,
               BeginSync(p, dryRun, allow)
        PROVE  TypeOK'
    <3>1. [IdleProc EXCEPT !.pc = "fetch", !.dry_run = dryRun, !.allow_collapse = allow]
             \in ProcState
      BY OptionAssumption DEF IdleProc, ProcState, Label
    <3> QED
      BY <2>1, <3>1 DEF BeginSync, TypeOK, RegistryTypeOK, registryVars
  <2>2. ASSUME NEW p \in Manual, NEW c \in Content, NEW dryRun \in DryRunOption,
               NEW allow \in CollapseOption, BeginManual(p, c, dryRun, allow)
        PROVE  TypeOK'
    <3>1. [IdleProc EXCEPT !.pc = "register", !.dry_run = dryRun, !.allow_collapse = allow,
                           !.got = c, !.found = artifacts[c] # "none"] \in ProcState
      BY OptionAssumption DEF IdleProc, ProcState, Label
    <3> QED
      BY <2>2, <3>1 DEF BeginManual, TypeOK, RegistryTypeOK, registryVars
  <2>3. ASSUME NEW p \in Proc, Step(p)
        PROVE  TypeOK'
    <3>0. UNCHANGED registryVars => RegistryTypeOK'
      BY DEF registryVars, TypeOK, RegistryTypeOK
    <3>1. CASE Fetch(p)
      <4>1. PICK c \in Content :
               proc' = [proc EXCEPT ![p] = [@ EXCEPT !.pc = "lookup", !.got = c]]
        BY <3>1 DEF Fetch
      <4>2. [proc[p] EXCEPT !.pc = "lookup", !.got = c] \in ProcState
        BY DEF TypeOK, ProcState, Label
      <4> QED
        BY <3>1, <4>1, <4>2, MoveType DEF Fetch
    <3>2. CASE FetchFails(p) \/ NotConfigured(p) \/ RegisterRefused(p)
      BY <3>0, <3>2, ReturnType DEF FetchFails, NotConfigured, RegisterRefused, TypeOK
    <3>3. CASE Lookup(p)
      <4> DEFINE s == [proc[p] EXCEPT
                         !.pc = IF AlreadyPublished(proc[p].got) THEN "record_unchanged"
                                ELSE "register",
                         !.found = artifacts[proc[p].got] # "none"]
      <4>1. s \in ProcState
        BY DEF TypeOK, ProcState, Label
      <4>2. proc' = [proc EXCEPT ![p] = s]
        BY <3>3 DEF Lookup
      <4> QED
        BY <3>3, <4>1, <4>2, MoveType DEF Lookup
    <3>4. CASE ReuseArtifact(p)
      <4>1. CASE Goto(p, "build") /\ UNCHANGED lock
        BY <3>0, <3>4, <4>1, GotoType DEF ReuseArtifact, TypeOK, Label
      <4>2. CASE Raise(p)
        BY <3>0, <3>4, <4>2, ReturnType DEF ReuseArtifact, TypeOK
      <4> QED
        BY <3>4, <4>1, <4>2 DEF ReuseArtifact
    <3>5. CASE Register(p)
      <4>1. RegistryTypeOK'
        BY <3>5 DEF Register, RegisterArtifact, TypeOK, RegistryTypeOK, ArtifactKind
      <4> QED
        BY <3>5, <4>1, GotoType DEF Register, TypeOK, Label
    <3>6. CASE BuildRun(p)
      <4>1. PICK r \in RunId :
               /\ BuildImportRun(r, proc[p].got, proc[p].dry_run)
               /\ proc' = [proc EXCEPT ![p] = [@ EXCEPT !.pc = "start", !.run = r]]
        BY <3>6 DEF BuildRun
      <4>2. [proc[p] EXCEPT !.pc = "start", !.run = r] \in ProcState
        BY DEF TypeOK, ProcState, Label
      <4>3. [status |-> "pending", content |-> proc[p].got, dry_run |-> proc[p].dry_run] \in Run
        BY DEF TypeOK, ProcState, Run, RunStatus
      <4>4. RegistryTypeOK'
        BY <4>1, <4>3 DEF BuildImportRun, TypeOK, RegistryTypeOK
      <4> QED
        BY <3>6, <4>1, <4>2, <4>4 DEF BuildRun, TypeOK
    <3>7. CASE StartRun(p)
      <4>1. RegistryTypeOK'
        BY <3>7 DEF StartRun, StartImportRun, TypeOK, RegistryTypeOK, Run, RunStatus
      <4> QED
        BY <3>7, <4>1, GotoType DEF StartRun, TypeOK, Label
    <3>8. CASE Validate(p) \/ ValidateRefuses(p)
      BY <3>0, <3>8, GotoType DEF Validate, ValidateRefuses, TypeOK, Label
    <3>9. CASE CompleteDryRun(p)
      <4>1. RegistryTypeOK'
        BY <3>9 DEF CompleteDryRun, CompleteImportRun, TypeOK, RegistryTypeOK, Run, RunStatus
      <4> QED
        BY <3>9, <4>1, ReturnType DEF CompleteDryRun, TypeOK
    <3>10. CASE SelectCurrent(p) \/ LockRows(p) \/ CommitRefused(p)
      <4>0. CurrentRuns \subseteq RunId
        BY DEF CurrentRuns
      <4>1. /\ [proc[p] EXCEPT !.pc = "lock_rows", !.view = CurrentRuns] \in ProcState
            /\ [proc[p] EXCEPT !.pc = "commit", !.locked = proc[p].view \cap CurrentRuns]
                  \in ProcState
            /\ [proc[p] EXCEPT !.pc = "fail_run", !.view = {}, !.locked = {}] \in ProcState
        BY <4>0 DEF TypeOK, ProcState, Label
      <4> QED
        BY <3>10, <4>1, MoveType DEF SelectCurrent, LockRows, CommitRefused, Rollback
    <3>11. CASE Commit(p)
      <4>1. RegistryTypeOK'
        <5>1. runs' \in [RunId -> Run]
          BY <3>11 DEF Commit, CompleteImportRun, TypeOK, RegistryTypeOK, Run, RunStatus
        <5>2. snapshots' \in [RunId -> SnapshotState]
          BY <3>11 DEF Commit, PublishCurrent, TypeOK, RegistryTypeOK, SnapshotState
        <5> QED
          BY <3>11, <5>1, <5>2 DEF Commit, TypeOK, RegistryTypeOK
      <4>2. CASE p \in Sync
        <5>1. [proc[p] EXCEPT !.pc = "record_imported", !.view = {}, !.locked = {}] \in ProcState
          BY DEF TypeOK, ProcState, Label
        <5> QED
          BY <3>11, <4>1, <4>2, <5>1 DEF Commit, TypeOK
      <4>3. CASE p \notin Sync
        BY <3>11, <4>1, <4>3, ReturnType DEF Commit, TypeOK
      <4> QED
        BY <4>2, <4>3
    <3>12. CASE CloseRun(p)
      <4>1. RegistryTypeOK'
        BY <3>12 DEF CloseRun, FailPublication, FailImportRun, TypeOK, RegistryTypeOK, Run,
                     RunStatus
      <4> QED
        BY <3>12, <4>1, ReturnType DEF CloseRun, TypeOK
    <3>13. CASE RecordFailure(p) \/ RecordImported(p) \/ RecordUnchanged(p)
      <4>1. feed' \in [last_result : SyncResult, current : RunId \cup {NoRun}]
        BY <3>13 DEF RecordFailure, RecordImported, RecordUnchanged, TypeOK, ProcState, SyncResult
      <4> QED
        BY <3>0, <3>13, <4>1, ReturnType DEF RecordFailure, RecordImported, RecordUnchanged, TypeOK
    <3> QED
      BY <2>3, <3>1, <3>2, <3>3, <3>4, <3>5, <3>6, <3>7, <3>8, <3>9, <3>10, <3>11, <3>12, <3>13
         DEF Step
  <2>4. ASSUME NEW p \in Proc, Fault(p)
        PROVE  TypeOK'
    <3>0. UNCHANGED registryVars => RegistryTypeOK'
      BY DEF registryVars, TypeOK, RegistryTypeOK
    <3>1. CASE OpenRunFails(p) \/ Crash(p)
      BY <3>0, <3>1, ReturnType DEF OpenRunFails, Crash, TypeOK
    <3>2. CASE PublishFails(p)
      <4>1. [proc[p] EXCEPT !.pc = "fail_run", !.view = {}, !.locked = {}] \in ProcState
        BY DEF TypeOK, ProcState, Label
      <4> QED
        BY <3>2, <4>1, MoveType DEF PublishFails, Rollback
    <3> QED
      BY <2>4, <3>1, <3>2 DEF Fault
  <2>5. CASE UNCHANGED vars
    BY <2>5 DEF vars, TypeOK, RegistryTypeOK
  <2> QED
    BY <2>1, <2>2, <2>3, <2>4, <2>5 DEF Next
<1> QED
  BY <1>1, <1>2, PTL DEF Spec

-----------------------------------------------------------------------------
(* What one invocation does to the others: nothing they rely on. *)

\* p acts: the other invocations stand where they stood, an import run changes
\* only if p opened it or nobody has opened it, and no published row is undone.
ActsAlone(p) ==
    /\ \A q \in Proc : q # p => proc'[q] = proc[q]
    /\ \A r \in RunId : runs'[r] = runs[r] \/ r = proc[p].run \/ runs[r].status = "absent"
    /\ \A r \in RunId : snapshots[r] # "none" => snapshots'[r] # "none"

LEMMA OthersKeep ==
  ASSUME TypeOK, IInv, NEW p \in Proc, ActsAlone(p), NEW q \in Proc, q # p
  PROVE  LocalInv(q)'
<1>1. proc'[q] = proc[q]
  BY DEF ActsAlone
<1>2. proc[q].run \in RunId => runs'[proc[q].run] = runs[proc[q].run]
  BY RunIdNotNoRun DEF IInv, PrivateRuns, ActsAlone
<1>3. \A r \in proc[q].view \cup proc[q].locked : snapshots'[r] # "none"
  <2>1. proc[q].view \subseteq RunId /\ proc[q].locked \subseteq RunId
    BY DEF TypeOK, ProcState
  <2> QED
    BY <2>1 DEF IInv, LocalInv, ActsAlone
<1>4. LocalInv(q)
  BY DEF IInv
<1> QED
  BY <1>1, <1>2, <1>3, <1>4 DEF LocalInv, OwnRun

\* A step that opens no run needs a look at its own invocation and at the
\* published rows only.
LEMMA StepKeeps ==
  ASSUME TypeOK, IInv, NEW p \in Proc, ActsAlone(p), proc'[p].run \in {proc[p].run, NoRun},
         proc[p].run # NoRun => runs'[proc[p].run].status # "absent",
         LocalInv(p)', AtMostOneCurrent', AtomicPublication'
  PROVE  IInv'
<1>1. \A q \in Proc : proc[q].run # NoRun => runs'[proc[q].run].status # "absent"
  BY DEF IInv, PrivateRuns, ActsAlone, TypeOK, ProcState
<1>2. PrivateRuns'
  BY <1>1 DEF PrivateRuns, ActsAlone, IInv
<1> QED
  BY <1>2, OthersKeep DEF IInv

\* A step that writes neither runs nor snapshots needs its own invocation only.
LEMMA QuietStepKeeps ==
  ASSUME TypeOK, IInv, NEW p \in Proc, UNCHANGED <<runs, snapshots>>,
         \A q \in Proc : q # p => proc'[q] = proc[q],
         proc'[p].run \in {proc[p].run, NoRun}, LocalInv(p)'
  PROVE  IInv'
<1>1. ActsAlone(p)
  BY DEF ActsAlone
<1>2. AtMostOneCurrent' /\ AtomicPublication'
  BY DEF IInv, AtMostOneCurrent, AtomicPublication, LiveSuccess
<1>3. proc[p].run # NoRun => runs'[proc[p].run].status # "absent"
  BY DEF IInv, PrivateRuns
<1> QED
  BY <1>1, <1>2, <1>3, StepKeeps

\* An invocation that has returned, or goes to record its failure, relies on nothing.
LEMMA LeavingKeeps ==
  ASSUME TypeOK, IInv, NEW p \in Proc, Return(p) \/ Raise(p)
  PROVE  /\ \A q \in Proc : q # p => proc'[q] = proc[q]
         /\ proc'[p].run \in {proc[p].run, NoRun}
         /\ (\A r \in RunId : snapshots[r] # "none" => snapshots'[r] # "none") => LocalInv(p)'
<1>1. CASE Return(p)
  BY <1>1 DEF Return, TypeOK, IdleProc, LocalInv
<1>2. CASE Goto(p, "record_failure")
  <2>1. /\ proc'[p].pc = "record_failure"
        /\ proc'[p].run = proc[p].run
        /\ proc'[p].view = proc[p].view
        /\ proc'[p].locked = proc[p].locked
        /\ \A q \in Proc : q # p => proc'[q] = proc[q]
    BY <1>2 DEF Goto, TypeOK, ProcState
  <2>2. proc[p].view \subseteq RunId /\ proc[p].locked \subseteq RunId
    BY DEF TypeOK, ProcState
  <2> QED
    BY <2>1, <2>2 DEF LocalInv, IInv
<1> QED
  BY <1>1, <1>2 DEF Raise

LEMMA LeavingQuietly ==
  ASSUME TypeOK, IInv, NEW p \in Proc, Return(p) \/ Raise(p), UNCHANGED <<runs, snapshots>>
  PROVE  IInv'
  BY LeavingKeeps, QuietStepKeeps

-----------------------------------------------------------------------------
(* What is published changes with Commit only. *)

\* Neither the snapshots nor the live successes and their contents change.
PublishedFrame ==
    /\ UNCHANGED snapshots
    /\ \A r \in RunId : LiveSuccess(r)' <=> LiveSuccess(r)
    /\ \A r \in RunId : LiveSuccess(r) => runs'[r].content = runs[r].content

\* One run is written that was not a live success and does not become one.
LEMMA RunFrame ==
  ASSUME TypeOK, UNCHANGED snapshots, NEW r \in RunId, ~LiveSuccess(r), ~LiveSuccess(r)',
         \A q \in RunId : q # r => runs'[q] = runs[q]
  PROVE  PublishedFrame
  BY DEF PublishedFrame, LiveSuccess

LEMMA QuietFrame == UNCHANGED <<runs, snapshots>> => PublishedFrame
  BY DEF PublishedFrame, LiveSuccess

LEMMA FrameKeeps ==
  ASSUME IInv, PublishedFrame
  PROVE  AtMostOneCurrent' /\ AtomicPublication'
  BY DEF IInv, PublishedFrame, AtMostOneCurrent, AtomicPublication

\* A run is moved on, without a live success.
LEMMA MoveRunFrame ==
  ASSUME TypeOK, NEW r \in RunId, runs[r].status \in {"pending", "running"},
         NEW s \in RunStatus, s = "succeeded" => runs[r].dry_run,
         runs' = [runs EXCEPT ![r].status = s], UNCHANGED snapshots
  PROVE  /\ PublishedFrame
         /\ \A q \in RunId : q # r => runs'[q] = runs[q]
         /\ runs'[r].status = s
         /\ runs'[r].content = runs[r].content
         /\ runs'[r].dry_run = runs[r].dry_run
<1>1. runs \in [RunId -> Run]
  BY DEF TypeOK, RegistryTypeOK
<1>2. /\ runs'[r] = [runs[r] EXCEPT !.status = s]
      /\ \A q \in RunId : q # r => runs'[q] = runs[q]
  BY <1>1
<1>3. /\ runs'[r].status = s
      /\ runs'[r].content = runs[r].content
      /\ runs'[r].dry_run = runs[r].dry_run
  BY <1>1, <1>2 DEF Run
<1>4. ~LiveSuccess(r) /\ ~LiveSuccess(r)'
  BY <1>3 DEF LiveSuccess
<1> QED
  BY <1>2, <1>3, <1>4, RunFrame

\* An invocation moves its own run on.
LEMMA MoveRun ==
  ASSUME TypeOK, IInv, NEW p \in Proc, NEW r \in RunId, r = proc[p].run,
         runs[r].status \in {"pending", "running"},
         NEW s \in RunStatus \ {"absent"}, s = "succeeded" => runs[r].dry_run,
         runs' = [runs EXCEPT ![r].status = s],
         UNCHANGED snapshots, \A q \in Proc : q # p => proc'[q] = proc[q]
  PROVE  /\ ActsAlone(p)
         /\ PublishedFrame
         /\ runs'[r].status = s
         /\ runs'[r].content = runs[r].content
         /\ runs'[r].dry_run = runs[r].dry_run
<1>1. s \in RunStatus
  OBVIOUS
<1>2. /\ PublishedFrame
      /\ \A q \in RunId : q # r => runs'[q] = runs[q]
      /\ runs'[r].status = s
      /\ runs'[r].content = runs[r].content
      /\ runs'[r].dry_run = runs[r].dry_run
  BY <1>1, MoveRunFrame
<1>3. ActsAlone(p)
  BY <1>2 DEF ActsAlone
<1> QED
  BY <1>2, <1>3

\* The commit: the run's snapshot becomes the only current one, and the run a
\* live success, in one step.
LEMMA CommitPublishes ==
  ASSUME TypeOK, IInv, NEW p \in Proc, Commit(p), NEW r \in RunId, r = proc[p].run
  PROVE  /\ proc[p].got \in Content
         /\ ~KeyTaken(proc[p].got)
         /\ runs'[r].content = proc[p].got
         /\ LiveSuccess(r)' /\ ~LiveSuccess(r)
         /\ \A q \in RunId : q # r => runs'[q] = runs[q]
         /\ CurrentRuns' = {r}
         /\ snapshots'[r] # "none"
         /\ \A q \in RunId : q # r => (snapshots'[q] # "none" <=> snapshots[q] # "none")
<1>1. /\ runs \in [RunId -> Run]
      /\ runs[r].status = "running"
      /\ runs[r].content = proc[p].got
      /\ runs[r].dry_run = FALSE
      /\ proc[p].got \in Content
      /\ \A q \in proc[p].locked : snapshots[q] # "none"
  BY DEF Commit, At, IInv, LocalInv, OwnRun, TypeOK, RegistryTypeOK, ProcState
<1>2. /\ runs' = [runs EXCEPT ![r].status = "succeeded"]
      /\ ~KeyTaken(proc[p].got)
      /\ CurrentRuns \subseteq proc[p].locked
  BY DEF Commit, CompleteImportRun, ConstraintsAllow
<1>3. /\ runs'[r] = [runs[r] EXCEPT !.status = "succeeded"]
      /\ \A q \in RunId : q # r => runs'[q] = runs[q]
  BY <1>1, <1>2
<1>4. /\ runs'[r].status = "succeeded"
      /\ runs'[r].content = proc[p].got
      /\ runs'[r].dry_run = FALSE
  BY <1>1, <1>3 DEF Run
<1>5. snapshots' = [q \in RunId |-> IF q = r THEN "current"
                                    ELSE IF q \in proc[p].locked THEN "retired" ELSE snapshots[q]]
  BY DEF Commit, PublishCurrent
<1>6. CurrentRuns' = {r}
  BY <1>2, <1>5 DEF CurrentRuns
<1>7. LiveSuccess(r)' /\ ~LiveSuccess(r)
  BY <1>1, <1>4 DEF LiveSuccess
<1>8. /\ snapshots'[r] # "none"
      /\ \A q \in RunId : q # r => (snapshots'[q] # "none" <=> snapshots[q] # "none")
  BY <1>1, <1>5
<1> QED
  BY <1>1, <1>2, <1>3, <1>4, <1>6, <1>7, <1>8

\* p's run, wherever p has one under way.
LEMMA RunUnderWay ==
  ASSUME TypeOK, IInv, NEW p \in Proc
  PROVE  /\ proc[p].pc = "start" => OwnRun(p, "pending")
         /\ proc[p].pc \in {"validate", "complete_dry", "select", "lock_rows", "commit", "fail_run"}
              => OwnRun(p, "running")
  BY DEF IInv, LocalInv

-----------------------------------------------------------------------------

\* What every invocation knows of its own run and of the rows it read holds
\* throughout, and with it the atomicity of the publication: no lock is shared
\* by a manual import and a scheduled one (import_artifact, _publish).
THEOREM RegistryInvariant == Spec => []IInv
<1>1. Init => IInv
  BY DEF Init, RegistryInit, IInv, AtMostOneCurrent, AtomicPublication, PrivateRuns, LocalInv,
         LiveSuccess, AbsentRun, IdleProc
<1>2. TypeOK /\ IInv /\ [Next]_vars => IInv'
  <2> SUFFICES ASSUME TypeOK, IInv, [Next]_vars
               PROVE  IInv'
    OBVIOUS
  <2>1. ASSUME NEW p \in Sync, NEW dryRun \in DryRunOption, NEW allow \in CollapseOption,
               BeginSync(p, dryRun, allow)
        PROVE  IInv'
    <3>1. /\ p \in Proc
          /\ UNCHANGED <<runs, snapshots>>
          /\ \A q \in Proc : q # p => proc'[q] = proc[q]
          /\ proc'[p].pc = "fetch"
          /\ proc'[p].run = NoRun
          /\ proc'[p].view = {}
          /\ proc'[p].locked = {}
      BY <2>1 DEF BeginSync, TypeOK, IdleProc, registryVars, Proc
    <3> QED
      BY <3>1, QuietStepKeeps DEF LocalInv
  <2>2. ASSUME NEW p \in Manual, NEW c \in Content, NEW dryRun \in DryRunOption,
               NEW allow \in CollapseOption, BeginManual(p, c, dryRun, allow)
        PROVE  IInv'
    <3>1. /\ p \in Proc
          /\ UNCHANGED <<runs, snapshots>>
          /\ \A q \in Proc : q # p => proc'[q] = proc[q]
          /\ proc'[p].pc = "register"
          /\ proc'[p].got = c
          /\ proc'[p].run = NoRun
          /\ proc'[p].view = {}
          /\ proc'[p].locked = {}
      BY <2>2 DEF BeginManual, TypeOK, IdleProc, registryVars, Proc
    <3> QED
      BY <3>1, QuietStepKeeps DEF LocalInv
  <2>3. ASSUME NEW p \in Proc, Step(p)
        PROVE  IInv'
    <3>0. LocalInv(p)
      BY DEF IInv
    <3>1. CASE FetchFails(p) \/ NotConfigured(p) \/ RegisterRefused(p)
               \/ RecordFailure(p) \/ RecordImported(p) \/ RecordUnchanged(p)
      BY <3>1, LeavingQuietly DEF FetchFails, NotConfigured, RegisterRefused, RecordFailure,
                                  RecordImported, RecordUnchanged, registryVars
    <3>2. CASE Fetch(p) \/ Lookup(p) \/ Register(p)
      <4>1. /\ UNCHANGED <<runs, snapshots>>
            /\ \A q \in Proc : q # p => proc'[q] = proc[q]
            /\ proc'[p].pc \in {"lookup", "record_unchanged", "register", "build"}
            /\ proc'[p].got \in Content
            /\ proc'[p].run = proc[p].run
            /\ proc'[p].view = proc[p].view
            /\ proc'[p].locked = proc[p].locked
        <5> USE <3>0 DEF At, LocalInv, TypeOK, ProcState
        <5>1. CASE Fetch(p)
          BY <5>1 DEF Fetch, registryVars
        <5>2. CASE Lookup(p)
          BY <5>2 DEF Lookup, registryVars
        <5>3. CASE Register(p)
          BY <5>3 DEF Register, RegisterArtifact, Goto
        <5> QED
          BY <3>2, <5>1, <5>2, <5>3
      <4> QED
        BY <3>0, <4>1, QuietStepKeeps DEF LocalInv
    <3>3. CASE ReuseArtifact(p)
      <4>1. CASE Raise(p)
        BY <3>3, <4>1, LeavingQuietly DEF ReuseArtifact, registryVars
      <4>2. CASE Goto(p, "build")
        <5>1. /\ UNCHANGED <<runs, snapshots>>
              /\ \A q \in Proc : q # p => proc'[q] = proc[q]
              /\ proc'[p] = [proc[p] EXCEPT !.pc = "build"]
              /\ proc[p].pc = "register"
          BY <3>3, <4>2 DEF ReuseArtifact, Goto, At, TypeOK, registryVars
        <5> QED
          BY <3>0, <5>1, QuietStepKeeps DEF LocalInv, TypeOK, ProcState
      <4> QED
        BY <3>3, <4>1, <4>2 DEF ReuseArtifact
    <3>4. CASE BuildRun(p)
      <4>1. PICK r \in RunId :
               /\ BuildImportRun(r, proc[p].got, proc[p].dry_run)
               /\ proc' = [proc EXCEPT ![p] = [@ EXCEPT !.pc = "start", !.run = r]]
        BY <3>4 DEF BuildRun
      <4>2. /\ runs[r].status = "absent"
            /\ runs' = [runs EXCEPT ![r] = [status |-> "pending", content |-> proc[p].got,
                                            dry_run |-> proc[p].dry_run]]
            /\ UNCHANGED snapshots
        BY <4>1 DEF BuildImportRun, NextRunId
      <4>3. /\ \A q \in Proc : q # p => proc'[q] = proc[q]
            /\ proc'[p].pc = "start"
            /\ proc'[p].run = r
            /\ proc'[p].got = proc[p].got
            /\ proc'[p].dry_run = proc[p].dry_run
            /\ proc'[p].view = proc[p].view
            /\ proc'[p].locked = proc[p].locked
        BY <4>1 DEF TypeOK, ProcState
      <4>4. /\ runs'[r] = [status |-> "pending", content |-> proc[p].got,
                           dry_run |-> proc[p].dry_run]
            /\ \A q \in RunId : q # r => runs'[q] = runs[q]
        BY <4>2 DEF TypeOK, RegistryTypeOK
      <4>5. PublishedFrame
        BY <4>2, <4>4, RunFrame DEF LiveSuccess
      <4>6. ActsAlone(p)
        BY <4>2, <4>3, <4>4 DEF ActsAlone
      <4>7. LocalInv(p)'
        BY <3>0, <3>4, <4>2, <4>3, <4>4 DEF LocalInv, OwnRun, BuildRun, At
      <4>8. PrivateRuns'
        <5>1. \A q \in Proc : q # p => proc[q].run # r
          BY <4>2, RunIdNotNoRun DEF IInv, PrivateRuns
        <5> QED
          BY <4>2, <4>3, <4>4, <5>1 DEF PrivateRuns, IInv, TypeOK, ProcState
      <4> QED
        BY <4>5, <4>6, <4>7, <4>8, FrameKeeps, OthersKeep DEF IInv
    <3>5. CASE StartRun(p)
      <4>1. /\ OwnRun(p, "pending")
            /\ runs' = [runs EXCEPT ![proc[p].run].status = "running"]
            /\ UNCHANGED snapshots
        BY <3>5, RunUnderWay DEF StartRun, StartImportRun, At
      <4>2. /\ \A q \in Proc : q # p => proc'[q] = proc[q]
            /\ proc'[p].pc = "validate"
            /\ proc'[p].run = proc[p].run
            /\ proc'[p].got = proc[p].got
            /\ proc'[p].dry_run = proc[p].dry_run
            /\ proc'[p].view = proc[p].view
            /\ proc'[p].locked = proc[p].locked
            /\ proc[p].pc = "start"
        BY <3>5 DEF StartRun, Goto, At, TypeOK, ProcState
      <4>3. /\ ActsAlone(p)
            /\ PublishedFrame
            /\ runs'[proc[p].run].status = "running"
            /\ runs'[proc[p].run].content = runs[proc[p].run].content
            /\ runs'[proc[p].run].dry_run = runs[proc[p].run].dry_run
        <5>1. /\ proc[p].run \in RunId
              /\ runs[proc[p].run].status = "pending"
              /\ "running" \in RunStatus \ {"absent"}
          BY <4>1 DEF OwnRun, RunStatus
        <5> QED
          BY <4>1, <4>2, <5>1, MoveRun
      <4>4. LocalInv(p)'
        BY <3>0, <4>1, <4>2, <4>3 DEF LocalInv, OwnRun
      <4> QED
        BY <4>2, <4>3, <4>4, FrameKeeps, StepKeeps
    <3>6. CASE Validate(p) \/ ValidateRefuses(p)
      <4>1. /\ UNCHANGED <<runs, snapshots>>
            /\ \A q \in Proc : q # p => proc'[q] = proc[q]
            /\ proc[p].pc = "validate"
            /\ \/ proc'[p].pc = "fail_run"
               \/ proc'[p].pc = "complete_dry" /\ proc[p].dry_run
               \/ proc'[p].pc = "select" /\ ~proc[p].dry_run
            /\ proc'[p].run = proc[p].run
            /\ proc'[p].got = proc[p].got
            /\ proc'[p].dry_run = proc[p].dry_run
            /\ proc'[p].view = proc[p].view
            /\ proc'[p].locked = proc[p].locked
        BY <3>6 DEF Validate, ValidateRefuses, Goto, At, TypeOK, ProcState, registryVars
      <4> QED
        BY <3>0, <4>1, QuietStepKeeps DEF LocalInv, OwnRun
    <3>7. CASE CompleteDryRun(p)
      <4>1. /\ OwnRun(p, "running")
            /\ proc[p].dry_run = TRUE
            /\ runs' = [runs EXCEPT ![proc[p].run].status = "succeeded"]
            /\ UNCHANGED snapshots
            /\ Return(p)
        BY <3>0, <3>7, RunUnderWay DEF CompleteDryRun, CompleteImportRun, At, LocalInv, TypeOK,
                                       ProcState
      <4>2. /\ ActsAlone(p)
            /\ PublishedFrame
            /\ runs'[proc[p].run].status = "succeeded"
        <5>1. /\ proc[p].run \in RunId
              /\ runs[proc[p].run].status = "running"
              /\ runs[proc[p].run].dry_run = proc[p].dry_run
              /\ "succeeded" \in RunStatus \ {"absent"}
          BY <4>1 DEF OwnRun, RunStatus
        <5>2. \A q \in Proc : q # p => proc'[q] = proc[q]
          BY <4>1, LeavingKeeps
        <5> QED
          BY <4>1, <5>1, <5>2, MoveRun
      <4>3. LocalInv(p)' /\ proc'[p].run \in {proc[p].run, NoRun}
        BY <4>1, LeavingKeeps
      <4> QED
        BY <4>2, <4>3, FrameKeeps, StepKeeps
    <3>8. CASE SelectCurrent(p) \/ LockRows(p)
      <4>1. /\ UNCHANGED <<runs, snapshots>>
            /\ \A q \in Proc : q # p => proc'[q] = proc[q]
            /\ proc[p].pc \in {"select", "lock_rows"}
            /\ proc'[p].pc \in {"lock_rows", "commit"}
            /\ proc'[p].run = proc[p].run
            /\ proc'[p].got = proc[p].got
            /\ proc'[p].dry_run = proc[p].dry_run
            /\ proc'[p].view \in {CurrentRuns, proc[p].view}
            /\ proc'[p].locked \in {proc[p].locked, proc[p].view \cap CurrentRuns}
        <5>1. CASE SelectCurrent(p)
          BY <5>1 DEF SelectCurrent, At, TypeOK, ProcState, registryVars
        <5>2. CASE LockRows(p)
          BY <5>2 DEF LockRows, At, TypeOK, ProcState, registryVars
        <5> QED
          BY <3>8, <5>1, <5>2
      <4>2. \A r \in CurrentRuns : snapshots[r] # "none"
        BY DEF CurrentRuns
      <4> QED
        BY <3>0, <4>1, <4>2, QuietStepKeeps DEF LocalInv, OwnRun
    <3>9. CASE Commit(p)
      <4>1. PICK r \in RunId : r = proc[p].run
        BY <3>9, RunUnderWay DEF Commit, At, OwnRun
      <4>2. /\ \A q \in Proc : q # p => proc'[q] = proc[q]
            /\ proc'[p].pc \in {"record_imported", "idle"}
            /\ proc'[p].run \in {r, NoRun}
            /\ proc'[p].pc = "record_imported" => proc'[p].got = proc[p].got
            /\ proc'[p].view = {}
            /\ proc'[p].locked = {}
        <5>1. CASE p \in Sync
          <6>1. proc' = [proc EXCEPT ![p] = [@ EXCEPT !.pc = "record_imported", !.view = {},
                                                      !.locked = {}]]
            BY <3>9, <5>1 DEF Commit
          <6> QED
            BY <4>1, <6>1 DEF TypeOK, ProcState
        <5>2. CASE p \notin Sync
          BY <3>9, <5>2 DEF Commit, Return, IdleProc, TypeOK
        <5> QED
          BY <5>1, <5>2
      <4>3. AtMostOneCurrent'
        BY <3>9, <4>1, CommitPublishes DEF AtMostOneCurrent, CurrentRuns
      <4>4. AtomicPublication'
        BY <3>9, <4>1, CommitPublishes DEF AtomicPublication, IInv, LiveSuccess
      <4>5. ActsAlone(p)
        BY <3>9, <4>1, <4>2, CommitPublishes DEF ActsAlone
      <4>6. LocalInv(p)'
        BY <3>9, <4>1, <4>2, CommitPublishes DEF LocalInv
      <4>7. runs'[r].status # "absent"
        BY <3>9, <4>1, CommitPublishes DEF LiveSuccess
      <4> QED
        BY <4>1, <4>2, <4>3, <4>4, <4>5, <4>6, <4>7, StepKeeps
    <3>10. CASE CommitRefused(p)
      <4>1. /\ UNCHANGED <<runs, snapshots>>
            /\ \A q \in Proc : q # p => proc'[q] = proc[q]
            /\ proc[p].pc = "commit"
            /\ proc'[p].pc = "fail_run"
            /\ proc'[p].run = proc[p].run
            /\ proc'[p].got = proc[p].got
            /\ proc'[p].dry_run = proc[p].dry_run
            /\ proc'[p].view = {}
            /\ proc'[p].locked = {}
        BY <3>10 DEF CommitRefused, Rollback, At, TypeOK, ProcState, registryVars
      <4> QED
        BY <3>0, <4>1, QuietStepKeeps DEF LocalInv, OwnRun
    <3>11. CASE CloseRun(p)
      <4>1. /\ OwnRun(p, "running")
            /\ runs' = [runs EXCEPT ![proc[p].run].status = "failed"]
            /\ UNCHANGED snapshots
            /\ Raise(p)
        BY <3>11, RunUnderWay DEF CloseRun, FailPublication, FailImportRun, IsTerminal, At, OwnRun
      <4>2. /\ ActsAlone(p)
            /\ PublishedFrame
            /\ runs'[proc[p].run].status = "failed"
        <5>1. /\ proc[p].run \in RunId
              /\ runs[proc[p].run].status = "running"
              /\ runs[proc[p].run].dry_run = proc[p].dry_run
              /\ "failed" \in RunStatus \ {"absent"}
          BY <4>1 DEF OwnRun, RunStatus
        <5>2. \A q \in Proc : q # p => proc'[q] = proc[q]
          BY <4>1, LeavingKeeps
        <5> QED
          BY <4>1, <5>1, <5>2, MoveRun
      <4>3. LocalInv(p)' /\ proc'[p].run \in {proc[p].run, NoRun}
        BY <4>1, LeavingKeeps
      <4> QED
        BY <4>2, <4>3, FrameKeeps, StepKeeps
    <3> QED
      BY <2>3, <3>1, <3>2, <3>3, <3>4, <3>5, <3>6, <3>7, <3>8, <3>9, <3>10, <3>11 DEF Step
  <2>4. ASSUME NEW p \in Proc, Fault(p)
        PROVE  IInv'
    <3>1. CASE OpenRunFails(p) \/ Crash(p)
      BY <3>1, LeavingQuietly DEF OpenRunFails, Crash, registryVars
    <3>2. CASE PublishFails(p)
      <4>1. /\ UNCHANGED <<runs, snapshots>>
            /\ \A q \in Proc : q # p => proc'[q] = proc[q]
            /\ proc[p].pc \in {"select", "lock_rows", "commit"}
            /\ proc'[p].pc = "fail_run"
            /\ proc'[p].run = proc[p].run
            /\ proc'[p].got = proc[p].got
            /\ proc'[p].dry_run = proc[p].dry_run
            /\ proc'[p].view = {}
            /\ proc'[p].locked = {}
        BY <3>2 DEF PublishFails, Rollback, At, TypeOK, ProcState, registryVars
      <4> QED
        BY <4>1, QuietStepKeeps DEF IInv, LocalInv, OwnRun
    <3> QED
      BY <2>4, <3>1, <3>2 DEF Fault
  <2>5. CASE UNCHANGED vars
    BY <2>5 DEF vars, IInv, AtMostOneCurrent, AtomicPublication, PrivateRuns, LocalInv, OwnRun,
                LiveSuccess
  <2> QED
    BY <2>1, <2>2, <2>3, <2>4, <2>5 DEF Next
<1> QED
  BY <1>1, <1>2, TypeCorrect, PTL DEF Spec

\* PublishedWhole for every instance: whatever publications overlap, fail or die
\* half-way, a snapshot exists exactly when the live run that wrote it succeeded,
\* and at most one is current (_publish, with the unique constraint on is_current).
THEOREM PublicationIsWhole == Spec => []PublishedWhole
<1>1. AtMostOneCurrent => OneCurrent
  <2> SUFFICES ASSUME AtMostOneCurrent
               PROVE  Cardinality(CurrentRuns) <= 1
    BY DEF OneCurrent
  <2>1. CASE CurrentRuns = {}
    BY <2>1, FS_EmptySet
  <2>2. ASSUME NEW r \in CurrentRuns
        PROVE  Cardinality(CurrentRuns) <= 1
    <3>1. CurrentRuns = {r}
      BY DEF AtMostOneCurrent, CurrentRuns
    <3>2. Cardinality({r}) = 1
      BY FS_Singleton
    <3> QED
      BY <3>1, <3>2
  <2> QED
    BY <2>1, <2>2
<1>2. IInv => PublishedWhole
  BY <1>1 DEF IInv, PublishedWhole
<1> QED
  BY <1>2, RegistryInvariant, PTL

-----------------------------------------------------------------------------
(* Publication by publication. *)

\* Only Commit touches what is published.
LEMMA OnlyCommit ==
  ASSUME TypeOK, IInv, [Next]_vars
  PROVE  PublishedFrame \/ \E p \in Proc : Commit(p)
<1>1. ASSUME NEW p \in Sync, NEW dryRun \in DryRunOption, NEW allow \in CollapseOption,
             BeginSync(p, dryRun, allow)
      PROVE  PublishedFrame
  BY <1>1, QuietFrame DEF BeginSync, registryVars
<1>2. ASSUME NEW p \in Manual, NEW c \in Content, NEW dryRun \in DryRunOption,
             NEW allow \in CollapseOption, BeginManual(p, c, dryRun, allow)
      PROVE  PublishedFrame
  BY <1>2, QuietFrame DEF BeginManual, registryVars
<1>3. ASSUME NEW p \in Proc, Step(p)
      PROVE  PublishedFrame \/ Commit(p)
  <2>1. CASE \/ Fetch(p) \/ FetchFails(p) \/ NotConfigured(p) \/ Lookup(p) \/ ReuseArtifact(p)
             \/ RegisterRefused(p) \/ Validate(p) \/ ValidateRefuses(p) \/ SelectCurrent(p)
             \/ LockRows(p) \/ CommitRefused(p) \/ RecordFailure(p) \/ RecordImported(p)
             \/ RecordUnchanged(p)
    <3>1. UNCHANGED registryVars
      BY <2>1 DEF Fetch, FetchFails, NotConfigured, Lookup, ReuseArtifact, RegisterRefused,
                  Validate, ValidateRefuses, SelectCurrent, LockRows, CommitRefused,
                  RecordFailure, RecordImported, RecordUnchanged
    <3> QED
      BY <3>1, QuietFrame DEF registryVars
  <2>2. CASE Register(p)
    BY <2>2, QuietFrame DEF Register, RegisterArtifact
  <2>3. CASE BuildRun(p)
    <3>1. PICK r \in RunId : BuildImportRun(r, proc[p].got, proc[p].dry_run)
      BY <2>3 DEF BuildRun
    <3>2. runs \in [RunId -> Run]
      BY DEF TypeOK, RegistryTypeOK
    <3> QED
      BY <3>1, <3>2, RunFrame DEF BuildImportRun, NextRunId, LiveSuccess
  <2>4. CASE StartRun(p) \/ CompleteDryRun(p) \/ CloseRun(p)
    <3>1. PICK r \in RunId : r = proc[p].run
      BY <2>4, RunUnderWay DEF StartRun, CompleteDryRun, CloseRun, At, OwnRun
    <3>2. runs[r].status \in {"pending", "running"} /\ UNCHANGED snapshots
      BY <2>4, <3>1, RunUnderWay DEF StartRun, StartImportRun, CompleteDryRun, CloseRun,
                                     FailPublication, At, OwnRun
    <3>3. CASE StartRun(p)
      <4>1. runs' = [runs EXCEPT ![r].status = "running"] /\ "running" \in RunStatus
        BY <3>1, <3>3 DEF StartRun, StartImportRun, RunStatus
      <4> QED
        BY <3>2, <4>1, MoveRunFrame
    <3>4. CASE CompleteDryRun(p)
      <4>1. runs' = [runs EXCEPT ![r].status = "succeeded"] /\ "succeeded" \in RunStatus
        BY <3>1, <3>4 DEF CompleteDryRun, CompleteImportRun, RunStatus
      <4>2. runs[r].dry_run
        BY <3>1, <3>4, RunUnderWay DEF CompleteDryRun, At, OwnRun, IInv, LocalInv
      <4> QED
        BY <3>2, <4>1, <4>2, MoveRunFrame
    <3>5. CASE CloseRun(p)
      <4>1. runs[r].status = "running"
        BY <3>1, <3>5, RunUnderWay DEF CloseRun, At, OwnRun
      <4>2. runs' = [runs EXCEPT ![r].status = "failed"] /\ "failed" \in RunStatus
        BY <3>1, <3>5, <4>1 DEF CloseRun, FailPublication, FailImportRun, IsTerminal, RunStatus
      <4> QED
        BY <3>2, <4>2, MoveRunFrame
    <3> QED
      BY <2>4, <3>3, <3>4, <3>5
  <2> QED
    BY <1>3, <2>1, <2>2, <2>3, <2>4 DEF Step
<1>4. ASSUME NEW p \in Proc, Fault(p)
      PROVE  PublishedFrame
  <2>1. UNCHANGED registryVars
    BY <1>4 DEF Fault, OpenRunFails, PublishFails, Crash
  <2> QED
    BY <2>1, QuietFrame DEF registryVars
<1>5. CASE UNCHANGED vars
  BY <1>5, QuietFrame DEF vars
<1> QED
  BY <1>1, <1>2, <1>3, <1>4, <1>5 DEF Next

\* The run that is current has succeeded live.
LEMMA CurrentSucceeded ==
  ASSUME IInv
  PROVE  Current = NoRun \/ (Current \in RunId /\ LiveSuccess(Current))
  BY DEF Current, CurrentRuns, IInv, AtomicPublication

\* What is not published anew stays on the dashboard and keeps its key.
LEMMA ShownFrame ==
  ASSUME IInv, PublishedFrame
  PROVE  /\ Current' = Current
         /\ ShownContent' = ShownContent
         /\ \A c \in Content : KeyTaken(c)' <=> KeyTaken(c)
<1>1. Current' = Current
  BY DEF PublishedFrame, Current, CurrentRuns
<1>2. ContentOf(Current)' = ContentOf(Current)
  BY <1>1, CurrentSucceeded DEF PublishedFrame, ContentOf
<1> QED
  BY <1>1, <1>2 DEF ShownContent, KeyTaken, PublishedFrame

\* A commit shows what its invocation got and takes the key of that content
\* alone, which was free.
LEMMA CommitShows ==
  ASSUME TypeOK, IInv, NEW p \in Proc, Commit(p)
  PROVE  /\ proc[p].got \in Content
         /\ ShownContent' = proc[p].got
         /\ ~KeyTaken(proc[p].got)
         /\ \A c \in Content : KeyTaken(c)' <=> KeyTaken(c) \/ c = proc[p].got
<1>1. PICK r \in RunId : r = proc[p].run
  BY RunUnderWay DEF Commit, At, OwnRun
<1>2. Current' = r
  BY <1>1, CommitPublishes DEF Current
<1>3. ShownContent' = runs'[r].content
  BY <1>2, RunIdNotNoRun DEF ShownContent, ContentOf
<1>4. \A c \in Content : KeyTaken(c)' <=> KeyTaken(c) \/ c = proc[p].got
  BY <1>1, CommitPublishes DEF KeyTaken, LiveSuccess
<1> QED
  BY <1>1, <1>3, <1>4, CommitPublishes

\* ContractSpec for every instance: with no lock between a manual import and a
\* scheduled one, the dashboard still changes only by a whole publication of a
\* workbook never published before (_publish and the import key).
THEOREM WorkbookImplementsContract == Spec => ContractSpec
<1>1. Init => Contract!Init
  <2> SUFFICES ASSUME Init PROVE Contract!Init
    OBVIOUS
  <2>1. CurrentRuns = {} /\ \A c \in Content : ~KeyTaken(c)
    BY DEF Init, RegistryInit, CurrentRuns, KeyTaken, LiveSuccess, AbsentRun
  <2>2. ShownContent = NoContent
    BY <2>1 DEF ShownContent, ContentOf, Current
  <2> QED
    BY <2>1, <2>2 DEF Contract!Init
<1>2. TypeOK /\ IInv /\ [Next]_vars => [Contract!Next]_(Contract!contractVars)
  <2> SUFFICES ASSUME TypeOK, IInv, [Next]_vars
               PROVE  [Contract!Next]_(Contract!contractVars)
    OBVIOUS
  <2>1. CASE PublishedFrame
    <3>1. UNCHANGED <<ShownContent, {c \in Content : KeyTaken(c)}>>
      BY <2>1, ShownFrame
    <3> QED
      BY <3>1 DEF Contract!contractVars
  <2>2. ASSUME NEW p \in Proc, Commit(p)
        PROVE  Contract!Next
    <3>1. /\ proc[p].got \notin {c \in Content : KeyTaken(c)}
          /\ ShownContent' = proc[p].got
          /\ {c \in Content : KeyTaken(c)}' = {c \in Content : KeyTaken(c)} \cup {proc[p].got}
      BY <2>2, CommitShows
    <3>2. Contract!Publish(proc[p].got)
      BY <3>1 DEF Contract!Publish
    <3> QED
      BY <2>2, <3>2, CommitShows DEF Contract!Next
  <2> QED
    BY <2>1, <2>2, OnlyCommit
<1> QED
  BY <1>1, <1>2, TypeCorrect, RegistryInvariant, PTL DEF Spec, ContractSpec, Contract!Spec

-----------------------------------------------------------------------------
(***************************************************************************)
(* The collapse guard, when the advisory lock serialises every invocation  *)
(* (no manual imports): it is asked outside the transaction, and what it   *)
(* compared with is still shown when the transaction commits.              *)
(***************************************************************************)

Mutex == \A p \in Proc : proc[p].pc # "idle" => lock = p

\* What an invocation carries towards the commit is allowed to replace what is
\* shown.
GuardedInv ==
    \A p \in Proc : proc[p].pc \in {"complete_dry", "select", "lock_rows", "commit"} =>
        ~CollapseRefused(p)

\* Under the lock one step belongs to one invocation; the others are idle.
LEMMA OneActs ==
  ASSUME Manual = {}, TypeOK, Mutex, [Next]_vars, ~UNCHANGED vars
  PROVE  \E p \in Proc : /\ \A q \in Proc : q # p => proc[q].pc = "idle" /\ proc'[q] = proc[q]
                         /\ proc'[p].pc # "idle" => lock' = p
                         /\ proc[p].pc = "idle" => proc'[p].pc = "fetch"
                         /\ proc[p].pc # "idle" => Step(p) \/ Fault(p)
<1>1. ASSUME NEW p \in Sync, NEW dryRun \in DryRunOption, NEW allow \in CollapseOption,
             BeginSync(p, dryRun, allow)
      PROVE  /\ p \in Proc
             /\ \A q \in Proc : q # p => proc[q].pc = "idle" /\ proc'[q] = proc[q]
             /\ lock' = p
             /\ proc[p].pc = "idle"
             /\ proc'[p].pc = "fetch"
  BY <1>1, ProcAssumption DEF BeginSync, At, Mutex, TypeOK, IdleProc, Proc
<1>2. ASSUME NEW p \in Proc, Step(p) \/ Fault(p)
      PROVE  /\ \A q \in Proc : q # p => proc[q].pc = "idle" /\ proc'[q] = proc[q]
             /\ proc'[p].pc # "idle" => lock' = p
             /\ proc[p].pc # "idle"
  <2>1. proc[p].pc # "idle"
    BY <1>2 DEF Step, Fault, At, Fetch, FetchFails, NotConfigured, Lookup, ReuseArtifact, Register,
                RegisterRefused, BuildRun, StartRun, Validate, ValidateRefuses, CompleteDryRun,
                SelectCurrent, LockRows, Commit, CommitRefused, CloseRun, RecordFailure,
                RecordImported, RecordUnchanged, OpenRunFails, PublishFails, Crash
  <2>2. lock = p /\ p \in Sync
    BY <2>1 DEF Mutex, Proc
  <2>3. \/ /\ lock' = lock
           /\ \E s : proc' = [proc EXCEPT ![p] = s]
        \/ Return(p)
    <3>1. CASE Fetch(p) \/ Lookup(p) \/ Register(p) \/ BuildRun(p)
      BY <3>1 DEF Fetch, Lookup, Register, BuildRun, Goto
    <3>2. CASE StartRun(p) \/ Validate(p) \/ ValidateRefuses(p)
      BY <3>2 DEF StartRun, Validate, ValidateRefuses, Goto
    <3>3. CASE SelectCurrent(p) \/ LockRows(p) \/ CommitRefused(p) \/ PublishFails(p)
      BY <3>3 DEF SelectCurrent, LockRows, CommitRefused, PublishFails, Rollback
    <3>4. CASE Commit(p)
      BY <2>2, <3>4 DEF Commit
    <3>5. CASE \/ FetchFails(p) \/ NotConfigured(p) \/ ReuseArtifact(p) \/ RegisterRefused(p)
               \/ CompleteDryRun(p) \/ CloseRun(p) \/ RecordFailure(p) \/ RecordImported(p)
               \/ RecordUnchanged(p) \/ OpenRunFails(p) \/ Crash(p)
      BY <2>2, <3>5 DEF FetchFails, NotConfigured, ReuseArtifact, RegisterRefused, CompleteDryRun,
                        CloseRun, RecordFailure, RecordImported, RecordUnchanged, OpenRunFails,
                        Crash, Raise, Goto
    <3> QED
      BY <1>2, <3>1, <3>2, <3>3, <3>4, <3>5 DEF Step, Fault
  <2>4. \A q \in Proc : q # p => proc[q].pc = "idle" /\ proc'[q] = proc[q]
    BY <2>2, <2>3 DEF Mutex, Return, TypeOK
  <2>5. proc'[p].pc # "idle" => lock' = p
    BY <2>2, <2>3 DEF Return, TypeOK, IdleProc
  <2> QED
    BY <2>1, <2>4, <2>5
<1> QED
  BY <1>1, <1>2 DEF Next, Proc

\* The guard's answer stands as long as the published contents do.
LEMMA GuardFrame ==
  ASSUME IInv, PublishedFrame, NEW c
  PROVE  Collapses(Current, c)' <=> Collapses(Current, c)
<1>1. Current' = Current
  BY ShownFrame
<1>2. Current # NoRun => runs'[Current].content = runs[Current].content
  BY CurrentSucceeded DEF PublishedFrame
<1> QED
  BY <1>1, <1>2 DEF Collapses

\* What brings an invocation before the commit: the guard, or a step from there.
LEMMA GuardedStep ==
  ASSUME TypeOK, NEW p \in Proc, Step(p) \/ Fault(p),
         proc'[p].pc \in {"complete_dry", "select", "lock_rows", "commit"}
  PROVE  /\ proc'[p].got = proc[p].got
         /\ proc'[p].allow_collapse = proc[p].allow_collapse
         /\ \/ ~CollapseRefused(p)
            \/ proc[p].pc \in {"complete_dry", "select", "lock_rows", "commit"}
<1> DEFINE Ahead == {"complete_dry", "select", "lock_rows", "commit"}
<1>1. CASE Validate(p)
  BY <1>1 DEF Validate, Goto, TypeOK, ProcState
<1>2. CASE SelectCurrent(p) \/ LockRows(p)
  <2>1. CASE SelectCurrent(p)
    BY <2>1 DEF SelectCurrent, At, TypeOK, ProcState
  <2>2. CASE LockRows(p)
    BY <2>2 DEF LockRows, At, TypeOK, ProcState
  <2> QED
    BY <1>2, <2>1, <2>2
<1>3. ASSUME Return(p) \/ Raise(p)
      PROVE  proc'[p].pc \notin Ahead
  BY <1>3 DEF Return, Raise, Goto, IdleProc, TypeOK, ProcState
<1>4. ASSUME Fetch(p) \/ Lookup(p) \/ Register(p) \/ BuildRun(p) \/ StartRun(p)
             \/ ValidateRefuses(p) \/ CommitRefused(p) \/ PublishFails(p)
      PROVE  proc'[p].pc \notin Ahead
  <2>1. CASE Fetch(p)
    BY <2>1 DEF Fetch, TypeOK, ProcState
  <2>2. CASE Lookup(p)
    BY <2>2 DEF Lookup, TypeOK, ProcState
  <2>3. CASE Register(p) \/ StartRun(p) \/ ValidateRefuses(p)
    BY <2>3 DEF Register, StartRun, ValidateRefuses, Goto, TypeOK, ProcState
  <2>4. CASE BuildRun(p)
    BY <2>4 DEF BuildRun, TypeOK, ProcState
  <2>5. CASE CommitRefused(p) \/ PublishFails(p)
    <3>1. Rollback(p)
      BY <2>5 DEF CommitRefused, PublishFails
    <3> QED
      BY <3>1 DEF Rollback, TypeOK, ProcState
  <2> QED
    BY <1>4, <2>1, <2>2, <2>3, <2>4, <2>5
<1>5. ASSUME Commit(p)
      PROVE  proc'[p].pc \notin Ahead
  <2>1. CASE p \in Sync
    <3>1. proc' = [proc EXCEPT ![p] = [@ EXCEPT !.pc = "record_imported", !.view = {},
                                                !.locked = {}]]
      BY <1>5, <2>1 DEF Commit
    <3> QED
      BY <3>1 DEF TypeOK, ProcState
  <2>2. CASE p \notin Sync
    BY <1>3, <1>5, <2>2 DEF Commit
  <2> QED
    BY <2>1, <2>2
<1>6. ASSUME ReuseArtifact(p)
      PROVE  proc'[p].pc \notin Ahead
  BY <1>3, <1>6 DEF ReuseArtifact, Goto, TypeOK, ProcState
<1>7. ASSUME FetchFails(p) \/ NotConfigured(p) \/ RegisterRefused(p) \/ CompleteDryRun(p)
             \/ CloseRun(p) \/ RecordFailure(p) \/ RecordImported(p) \/ RecordUnchanged(p)
             \/ OpenRunFails(p) \/ Crash(p)
      PROVE  proc'[p].pc \notin Ahead
  <2>1. Return(p) \/ Raise(p)
    BY <1>7 DEF FetchFails, NotConfigured, RegisterRefused, CompleteDryRun, CloseRun,
                RecordFailure, RecordImported, RecordUnchanged, OpenRunFails, Crash
  <2> QED
    BY <1>3, <2>1
<1> QED
  BY <1>1, <1>2, <1>4, <1>5, <1>6, <1>7 DEF Step, Fault

\* NoCollapse for every instance without manual imports: the dashboard never
\* shrinks below the floor unless the invocation that published was told
\* --allow-collapse, although the guard is asked long before the commit
\* (collapse_reason in import_artifact).
THEOREM NoCollapseUnderLock ==
  ASSUME Manual = {}
  PROVE  Spec => NoCollapse
<1>1. Init => Mutex /\ GuardedInv
  BY DEF Init, Mutex, GuardedInv, IdleProc
<1>2. TypeOK /\ IInv /\ Mutex /\ GuardedInv /\ [Next]_vars => Mutex' /\ GuardedInv'
  <2> SUFFICES ASSUME TypeOK, IInv, Mutex, GuardedInv, [Next]_vars
               PROVE  Mutex' /\ GuardedInv'
    OBVIOUS
  <2>1. CASE UNCHANGED vars
    <3>1. Current' = Current /\ UNCHANGED <<runs, lock, proc>>
      <4>1. UNCHANGED <<runs, snapshots, lock, proc>>
        BY <2>1 DEF vars
      <4> QED
        BY <4>1 DEF Current, CurrentRuns
    <3>2. \A p \in Proc : CollapseRefused(p)' <=> CollapseRefused(p)
      BY <3>1 DEF CollapseRefused, Collapses
    <3> QED
      BY <3>1, <3>2 DEF Mutex, GuardedInv
  <2>2. CASE ~UNCHANGED vars
    <3>1. PICK p \in Proc :
             /\ \A q \in Proc : q # p => proc[q].pc = "idle" /\ proc'[q] = proc[q]
             /\ proc'[p].pc # "idle" => lock' = p
             /\ proc[p].pc = "idle" => proc'[p].pc = "fetch"
             /\ proc[p].pc # "idle" => Step(p) \/ Fault(p)
      BY <2>2, OneActs
    <3>2. Mutex'
      BY <3>1 DEF Mutex
    <3>3. ASSUME proc'[p].pc \in {"complete_dry", "select", "lock_rows", "commit"}
          PROVE  ~CollapseRefused(p)'
      <4>1. Step(p) \/ Fault(p)
        BY <3>1, <3>3
      <4>2. /\ proc'[p].got = proc[p].got
            /\ proc'[p].allow_collapse = proc[p].allow_collapse
            /\ ~CollapseRefused(p)
        BY <3>3, <4>1, GuardedStep DEF GuardedInv
      <4>3. PublishedFrame
        <5>1. ASSUME NEW q \in Proc, Commit(q)
              PROVE  FALSE
          <6>1. q = p
            BY <3>1, <5>1 DEF Commit, At
          <6>2. CASE p \in Sync
            <7>1. proc' = [proc EXCEPT ![p] = [@ EXCEPT !.pc = "record_imported", !.view = {},
                                                        !.locked = {}]]
              BY <5>1, <6>1, <6>2 DEF Commit
            <7> QED
              BY <3>3, <7>1 DEF TypeOK, ProcState
          <6> QED
            BY <6>2 DEF Proc
        <5> QED
          BY <5>1, OnlyCommit
      <4>4. Collapses(Current, proc[p].got)' <=> Collapses(Current, proc[p].got)
        <5>1. \A c : Collapses(Current, c)' <=> Collapses(Current, c)
          BY <4>3, GuardFrame
        <5> QED
          BY <4>2, <5>1 DEF Collapses
      <4> QED
        BY <4>2, <4>4 DEF CollapseRefused
    <3> QED
      BY <3>1, <3>2, <3>3 DEF GuardedInv
  <2> QED
    BY <2>1, <2>2
<1>3. TypeOK /\ IInv /\ GuardedInv /\ [Next]_vars => [CollapseStep]_vars
  <2> SUFFICES ASSUME TypeOK, IInv, GuardedInv, [Next]_vars, ShownContent' # ShownContent
               PROVE  \E p \in Proc : /\ At(p, "commit")
                                      /\ proc[p].got = ShownContent'
                                      /\ proc[p].allow_collapse \/ ~Collapses(Current, proc[p].got)
    BY DEF CollapseStep
  <2>1. PICK p \in Proc : Commit(p)
    BY OnlyCommit, ShownFrame
  <2>2. At(p, "commit") /\ ~CollapseRefused(p)
    BY <2>1 DEF Commit, At, GuardedInv
  <2> QED
    BY <2>1, <2>2, CommitShows DEF CollapseRefused
<1> QED
  BY <1>1, <1>2, <1>3, TypeCorrect, RegistryInvariant, PTL DEF Spec, NoCollapse
=============================================================================
