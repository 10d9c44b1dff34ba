--------------------------- MODULE FeedSyncProofs ---------------------------
(***************************************************************************)
(* Proofs about FeedSync, for every set of contents, processes and run     *)
(* keys and every value of the thresholds and bounds.                      *)
(***************************************************************************)
EXTENDS FeedSync, TLAPS

\* What the dashboard shows is a run, or nothing.
LEMMA CurrentType == Current \in RunId \cup {NoRun}
  BY DEF Current, CurrentRuns

\* The local state of an invocation after a jump and after it returns.
LEMMA IdleProcType == IdleProc \in ProcState
  BY DEF IdleProc, ProcState, Label, NoRun

-----------------------------------------------------------------------------

\* Every variable keeps its type, the fault and dry-run counters their bounds.
THEOREM TypeCorrect == Spec => []TypeOK
<1>1. Init => TypeOK
  BY IdleProcType, BoundAssumption
     DEF Init, RegistryInit, TypeOK, RegistryTypeOK, ArtifactKind, Run, RunStatus,
         AbsentRun, SnapshotState, FeedState, FeedResult, NoRun
<1>2. TypeOK /\ [Next]_vars => TypeOK'
  <2> SUFFICES ASSUME TypeOK, [Next]_vars
               PROVE  TypeOK'
    OBVIOUS
  <2> USE DEF TypeOK
  <2>1. ASSUME NEW c \in Content, RemoteChanges(c)
        PROVE  TypeOK'
    BY <2>1 DEF RemoteChanges, RegistryTypeOK, registryVars, boundVars
  <2>2. ASSUME NEW p \in Proc, NEW dryRun \in BOOLEAN, Begin(p, dryRun)
        PROVE  TypeOK'
    <3>1. dryRuns' \in 0..MaxDryRuns
      BY <2>2, BoundAssumption DEF Begin
    <3>2. proc' \in [Proc -> ProcState]
      BY <2>2, CurrentType DEF Begin, IdleProc, ProcState, Label, NoRun
    <3> QED
      BY <2>2, <3>1, <3>2 DEF Begin, RegistryTypeOK, registryVars, envVars
  <2>3. ASSUME NEW p \in Proc, Step(p)
        PROVE  TypeOK'
    <3>1. CASE Collect(p)
      <4>1. NotModified(p) \in BOOLEAN
        BY DEF NotModified
      <4>2. [proc[p] EXCEPT !.pc = IF NotModified(p) THEN "mark_unchanged" ELSE "decide",
                            !.got = remote,
                            !.not_modified = NotModified(p)] \in ProcState
        BY <4>1 DEF ProcState, Label
      <4>3. proc' \in [Proc -> ProcState]
        BY <3>1, <4>2 DEF Collect
      <4> QED
        BY <3>1, <4>3 DEF Collect, RegistryTypeOK, registryVars, envVars, boundVars
    <3>2. CASE Decide(p)
      BY <3>2 DEF Decide, Goto, RegistryTypeOK, registryVars, envVars, boundVars, ProcState, Label
    <3>3. CASE ReuseArtifact(p)
      BY <3>3 DEF ReuseArtifact, Goto, RegistryTypeOK, registryVars, envVars, boundVars, ProcState, Label
    <3>4. CASE RegisterReference(p)
      <4>1. proc' \in [Proc -> ProcState]
        BY <3>4 DEF RegisterReference, Goto, ProcState, Label
      <4>2. RegistryTypeOK'
        BY <3>4 DEF RegisterReference, RegisterArtifact, RegistryTypeOK, ArtifactKind
      <4> QED
        BY <3>4, <4>1, <4>2 DEF RegisterReference, envVars, boundVars
    <3>5. CASE BuildRun(p)
      <4> PICK r \in RunId :
             /\ BuildImportRun(r, proc[p].got, proc[p].dry_run)
             /\ proc' = [proc EXCEPT ![p] = [@ EXCEPT !.pc = "start", !.run = r]]
        BY <3>5 DEF BuildRun
      <4>1. proc' \in [Proc -> ProcState]
        BY DEF ProcState, Label
      <4>2. proc[p].got \in Content \cup {NoContent} /\ proc[p].dry_run \in BOOLEAN
        BY DEF ProcState
      <4>3. [status |-> "pending", content |-> proc[p].got, dry_run |-> proc[p].dry_run] \in Run
        BY <4>2 DEF Run, RunStatus
      <4>4. RegistryTypeOK'
        BY <4>3 DEF BuildImportRun, RegistryTypeOK
      <4> QED
        BY <3>5, <4>1, <4>4 DEF BuildRun, envVars, boundVars
    <3>6. CASE StartRun(p)
      <4>1. proc' \in [Proc -> ProcState]
        BY <3>6 DEF StartRun, Goto, ProcState, Label
      <4>2. RegistryTypeOK'
        BY <3>6 DEF StartRun, StartImportRun, RegistryTypeOK, Run, RunStatus
      <4> QED
        BY <3>6, <4>1, <4>2 DEF StartRun, envVars, boundVars
    <3>7. CASE CompleteDryRun(p)
      BY <3>7, IdleProcType DEF CompleteDryRun, CompleteImportRun, Return, RegistryTypeOK, Run,
                  RunStatus, envVars, boundVars
    <3>8. CASE Publish(p)
      <4>1. proc' \in [Proc -> ProcState]
        BY <3>8 DEF Publish, Goto, ProcState, Label
      <4>2. snapshots' \in [RunId -> SnapshotState]
        BY <3>8 DEF Publish, PublishCurrent, RegistryTypeOK, SnapshotState
      <4>3. runs' \in [RunId -> Run]
        BY <3>8 DEF Publish, CompleteImportRun, RegistryTypeOK, Run, RunStatus
      <4> QED
        BY <3>8, <4>1, <4>2, <4>3 DEF Publish, RegistryTypeOK, envVars, boundVars
    <3>9. CASE CloseRun(p)
      <4>1. proc' \in [Proc -> ProcState]
        BY <3>9 DEF CloseRun, Goto, ProcState, Label
      <4>2. RegistryTypeOK'
        BY <3>9 DEF CloseRun, FailPublication, FailImportRun, RegistryTypeOK, Run, RunStatus
      <4> QED
        BY <3>9, <4>1, <4>2 DEF CloseRun, envVars, boundVars
    <3>10. CASE FailFeed(p)
      BY <3>10, IdleProcType DEF FailFeed, Return, RegistryTypeOK, registryVars, envVars, boundVars,
                  FeedState, FeedResult
    <3>11. CASE MarkImported(p)
      BY <3>11, IdleProcType DEF MarkImported, Return, RegistryTypeOK, registryVars, envVars,
                  boundVars, FeedState, FeedResult, ProcState
    <3>12. CASE MarkUnchanged(p)
      BY <3>12, IdleProcType DEF MarkUnchanged, Return, RegistryTypeOK, registryVars, envVars,
                  boundVars, FeedState, FeedResult, ProcState
    <3> QED
      BY <2>3, <3>1, <3>2, <3>3, <3>4, <3>5, <3>6, <3>7, <3>8, <3>9, <3>10, <3>11, <3>12 DEF Step
  <2>4. ASSUME NEW p \in Proc, Fault(p)
        PROVE  TypeOK'
    <3>1. CASE CollectFails(p)
      BY <3>1 DEF CollectFails, Goto, RegistryTypeOK, registryVars, envVars, boundVars, ProcState, Label
    <3>2. CASE StartRunFails(p)
      BY <3>2, BoundAssumption DEF StartRunFails, Goto, RegistryTypeOK, registryVars, envVars,
                  ProcState, Label
    <3>3. CASE PublishFails(p)
      BY <3>3, BoundAssumption DEF PublishFails, Goto, RegistryTypeOK, registryVars, envVars,
                  ProcState, Label
    <3>4. CASE Crash(p)
      BY <3>4, BoundAssumption, IdleProcType DEF Crash, Return, RegistryTypeOK, registryVars, envVars
    <3> QED
      BY <2>4, <3>1, <3>2, <3>3, <3>4 DEF Fault
  <2>5. CASE UNCHANGED vars
    BY <2>5 DEF vars, RegistryTypeOK
  <2> QED
    BY <2>1, <2>2, <2>3, <2>4, <2>5 DEF Next
<1> QED
  BY <1>1, <1>2, PTL DEF Spec

-----------------------------------------------------------------------------
(* The registry under the lock. *)

\* Only the holder of the advisory lock is running.
Mutex == \A p \in Proc : proc[p].pc # "idle" => lock = p

OneCurrent == \A q, r \in RunId : snapshots[q] = "current" /\ snapshots[r] = "current" => q = r

\* p's run is in the given status and describes what p collected.
OwnRun(p, status) ==
    /\ proc[p].run \in RunId
    /\ runs[proc[p].run].status = status
    /\ runs[proc[p].run].content = proc[p].got
    /\ runs[proc[p].run].dry_run = proc[p].dry_run

\* What an invocation may rely on at each of its labels.
LocalInv(p) ==
    /\ proc[p].pc \notin {"idle", "collect", "fail_feed"} => proc[p].got \in Content
    /\ proc[p].pc = "start" => OwnRun(p, "pending")
    /\ proc[p].pc \in {"publish", "fail_run"} => OwnRun(p, "running")
    /\ proc[p].pc = "fail_run" => ~proc[p].dry_run
    /\ proc[p].pc = "mark_imported" =>
          OwnRun(p, "succeeded") /\ ~proc[p].dry_run /\ snapshots[proc[p].run] = "current"

RegistryInv ==
    /\ Mutex
    /\ OneCurrent
    /\ AtomicPublication
    /\ \A p \in Proc : LocalInv(p)

\* No import run has the key that stands for none.
LEMMA RunIdNotNoRun == NoRun \notin RunId
  BY RunIdAssumption DEF NoRun

\* With one current snapshot, Current is that snapshot.
LEMMA CurrentIs ==
  ASSUME OneCurrent, NEW r \in RunId, snapshots[r] = "current"
  PROVE  Current = r
  BY RunIdNotNoRun DEF Current, CurrentRuns, OneCurrent

\* The registry part of the inductive invariant holds throughout: one current
\* snapshot at most, atomic publication, and what every invocation knows of the
\* lock and of its own run (synchronize_membership / _news / _events).
THEOREM RegistryInvariant == Spec => []RegistryInv
<1>1. Init => RegistryInv
  BY DEF Init, RegistryInit, RegistryInv, Mutex, OneCurrent, AtomicPublication, LocalInv,
         LiveSuccess, AbsentRun, IdleProc
<1>2. TypeOK /\ RegistryInv /\ [Next]_vars => RegistryInv'
  <2> SUFFICES ASSUME TypeOK, RegistryInv, [Next]_vars
               PROVE  RegistryInv'
    OBVIOUS
  <2> USE DEF RegistryInv
  <2>1. ASSUME NEW c \in Content, RemoteChanges(c)
        PROVE  RegistryInv'
    BY <2>1 DEF RemoteChanges, registryVars, Mutex, OneCurrent, AtomicPublication, LiveSuccess, LocalInv, OwnRun
  <2>2. ASSUME NEW p \in Proc, NEW dryRun \in BOOLEAN, Begin(p, dryRun)
        PROVE  RegistryInv'
    <3>1. proc'[p].pc = "collect" /\ lock' = p /\ UNCHANGED registryVars
      BY <2>2 DEF Begin, IdleProc, TypeOK
    <3>2. \A q \in Proc : q # p => proc[q].pc = "idle" /\ proc'[q] = proc[q]
      BY <2>2, NobodyAssumption DEF Begin, TryAdvisoryLock, Mutex, TypeOK
    <3>3. Mutex' /\ \A q \in Proc : LocalInv(q)'
      BY <3>1, <3>2 DEF Mutex, LocalInv
    <3> QED
      BY <3>1, <3>3 DEF OneCurrent, AtomicPublication, LiveSuccess, registryVars
  <2>3. ASSUME NEW p \in Proc, Step(p)
        PROVE  RegistryInv'
    <3>1. CASE Collect(p)
      BY <3>1 DEF Collect, TypeOK, RegistryTypeOK, ProcState, Label, Run, RunStatus, At, Goto, Return, registryVars, IdleProc, Mutex, OneCurrent, AtomicPublication, LiveSuccess, LocalInv, OwnRun
    <3>2. CASE Decide(p)
      BY <3>2 DEF Decide, TypeOK, RegistryTypeOK, ProcState, Label, Run, RunStatus, At, Goto, Return, registryVars, IdleProc, Mutex, OneCurrent, AtomicPublication, LiveSuccess, LocalInv, OwnRun
    <3>3. CASE ReuseArtifact(p)
      BY <3>3 DEF ReuseArtifact, TypeOK, RegistryTypeOK, ProcState, Label, Run, RunStatus, At, Goto, Return, registryVars, IdleProc, Mutex, OneCurrent, AtomicPublication, LiveSuccess, LocalInv, OwnRun
    <3>4. CASE RegisterReference(p)
      BY <3>4 DEF RegisterReference, RegisterArtifact, TypeOK, RegistryTypeOK, ProcState, Label, Run, RunStatus, At, Goto, Return, registryVars, IdleProc, Mutex, OneCurrent, AtomicPublication, LiveSuccess, LocalInv, OwnRun
    <3>5. CASE BuildRun(p)
      BY <3>5 DEF BuildRun, BuildImportRun, NextRunId, TypeOK, RegistryTypeOK, ProcState, Label, Run, RunStatus, At, Goto, Return, registryVars, IdleProc, Mutex, OneCurrent, AtomicPublication, LiveSuccess, LocalInv, OwnRun
    <3>6. CASE StartRun(p)
      BY <3>6 DEF StartRun, StartImportRun, RequireTransition, TypeOK, RegistryTypeOK, ProcState, Label, Run, RunStatus, At, Goto, Return, registryVars, IdleProc, Mutex, OneCurrent, AtomicPublication, LiveSuccess, LocalInv, OwnRun
    <3>7. CASE CompleteDryRun(p)
      BY <3>7 DEF CompleteDryRun, CompleteImportRun, TypeOK, RegistryTypeOK, ProcState, Label, Run, RunStatus, At, Goto, Return, registryVars, IdleProc, Mutex, OneCurrent, AtomicPublication, LiveSuccess, LocalInv, OwnRun
    <3>8. CASE Publish(p)
      BY <3>8 DEF Publish, CompleteImportRun, PublishCurrent, CurrentRuns, SnapshotState, TypeOK, RegistryTypeOK, ProcState, Label, Run, RunStatus, At, Goto, Return, registryVars, IdleProc, Mutex, OneCurrent, AtomicPublication, LiveSuccess, LocalInv, OwnRun
    <3>9. CASE CloseRun(p)
      <4>1. /\ proc[p].run \in RunId
            /\ runs' = [runs EXCEPT ![proc[p].run].status = "failed"]
            /\ runs[proc[p].run].status = "running"
        BY <3>9 DEF CloseRun, At, FailPublication, FailImportRun, IsTerminal, LocalInv, OwnRun
      <4>2. \A q \in Proc : q # p => proc[q].pc = "idle" /\ proc'[q] = proc[q]
        BY <3>9 DEF CloseRun, At, Goto, Mutex, TypeOK
      <4>3. proc'[p].pc = "fail_feed" /\ UNCHANGED <<snapshots, lock>>
        BY <3>9 DEF CloseRun, FailPublication, Goto, TypeOK, ProcState
      <4>4. \A r \in RunId : LiveSuccess(r)' <=> LiveSuccess(r)
        BY <4>1 DEF LiveSuccess, TypeOK, RegistryTypeOK, Run
      <4>5. AtomicPublication' /\ OneCurrent'
        BY <4>3, <4>4 DEF AtomicPublication, OneCurrent
      <4>6. Mutex' /\ \A q \in Proc : LocalInv(q)'
        BY <3>9, <4>2, <4>3 DEF CloseRun, At, Mutex, LocalInv
      <4> QED
        BY <4>5, <4>6
    <3>10. CASE FailFeed(p)
      BY <3>10 DEF FailFeed, TypeOK, RegistryTypeOK, ProcState, Label, Run, RunStatus, At, Goto, Return, registryVars, IdleProc, Mutex, OneCurrent, AtomicPublication, LiveSuccess, LocalInv, OwnRun
    <3>11. CASE MarkImported(p)
      BY <3>11 DEF MarkImported, TypeOK, RegistryTypeOK, ProcState, Label, Run, RunStatus, At, Goto, Return, registryVars, IdleProc, Mutex, OneCurrent, AtomicPublication, LiveSuccess, LocalInv, OwnRun
    <3>12. CASE MarkUnchanged(p)
      BY <3>12 DEF MarkUnchanged, TypeOK, RegistryTypeOK, ProcState, Label, Run, RunStatus, At, Goto, Return, registryVars, IdleProc, Mutex, OneCurrent, AtomicPublication, LiveSuccess, LocalInv, OwnRun
    <3> QED
      BY <2>3, <3>1, <3>2, <3>3, <3>4, <3>5, <3>6, <3>7, <3>8, <3>9, <3>10, <3>11, <3>12 DEF Step
  <2>4. ASSUME NEW p \in Proc, Fault(p)
        PROVE  RegistryInv'
    <3>1. CASE CollectFails(p)
      BY <3>1 DEF CollectFails, TypeOK, RegistryTypeOK, ProcState, Label, Run, RunStatus, At, Goto, Return, registryVars, IdleProc, Mutex, OneCurrent, AtomicPublication, LiveSuccess, LocalInv, OwnRun
    <3>2. CASE StartRunFails(p)
      BY <3>2 DEF StartRunFails, TypeOK, RegistryTypeOK, ProcState, Label, Run, RunStatus, At, Goto, Return, registryVars, IdleProc, Mutex, OneCurrent, AtomicPublication, LiveSuccess, LocalInv, OwnRun
    <3>3. CASE PublishFails(p)
      BY <3>3 DEF PublishFails, TypeOK, RegistryTypeOK, ProcState, Label, Run, RunStatus, At, Goto, Return, registryVars, IdleProc, Mutex, OneCurrent, AtomicPublication, LiveSuccess, LocalInv, OwnRun
    <3>4. CASE Crash(p)
      BY <3>4 DEF Crash, TypeOK, RegistryTypeOK, ProcState, Label, Run, RunStatus, At, Goto, Return, registryVars, IdleProc, Mutex, OneCurrent, AtomicPublication, LiveSuccess, LocalInv, OwnRun
    <3> QED
      BY <2>4, <3>1, <3>2, <3>3, <3>4 DEF Fault
  <2>5. CASE UNCHANGED vars
    BY <2>5 DEF vars, Mutex, OneCurrent, AtomicPublication, LiveSuccess, LocalInv, OwnRun
  <2> QED
    BY <2>1, <2>2, <2>3, <2>4, <2>5 DEF Next
<1> QED
  BY <1>1, <1>2, TypeCorrect, PTL DEF Spec

\* AtomicPublication for every instance: a snapshot exists exactly when the
\* live import run that wrote it succeeded, whatever fails or dies in between.
THEOREM PublicationIsAtomic == Spec => []AtomicPublication
<1>1. RegistryInv => AtomicPublication
  BY DEF RegistryInv
<1> QED
  BY <1>1, RegistryInvariant, PTL

-----------------------------------------------------------------------------
(* What an invocation saw is still shown. *)

\* A step that leaves the snapshots alone leaves the dashboard alone.
LEMMA CurrentFrame == UNCHANGED snapshots => Current' = Current
  BY DEF Current, CurrentRuns

\* SeenIsStillShown for every instance: no check that failed, was refused or
\* ran dry has changed the dashboard, and the value the plausibility guard
\* compares with is never stale.
THEOREM SeenStaysShown == Spec => []SeenIsStillShown
<1>1. Init => SeenIsStillShown
  BY DEF Init, SeenIsStillShown, IdleProc
<1>2. TypeOK /\ RegistryInv /\ SeenIsStillShown /\ [Next]_vars => SeenIsStillShown'
  <2> SUFFICES ASSUME TypeOK, RegistryInv, SeenIsStillShown, [Next]_vars
               PROVE  SeenIsStillShown'
    OBVIOUS
  <2>1. ASSUME NEW c \in Content, RemoteChanges(c)
        PROVE  SeenIsStillShown'
    BY <2>1, CurrentFrame DEF RemoteChanges, registryVars, SeenIsStillShown
  <2>2. ASSUME NEW p \in Proc, NEW dryRun \in BOOLEAN, Begin(p, dryRun)
        PROVE  SeenIsStillShown'
    <3>1. Current' = Current
      BY <2>2, CurrentFrame DEF Begin, registryVars
    <3>2. proc'[p].seen = Current /\ \A q \in Proc : q # p => proc'[q] = proc[q]
      BY <2>2 DEF Begin, TypeOK, IdleProc
    <3> QED
      BY <3>1, <3>2 DEF SeenIsStillShown
  <2>3. ASSUME NEW p \in Proc, Step(p)
        PROVE  SeenIsStillShown'
    <3>1. CASE Collect(p)
      BY <3>1, CurrentFrame DEF Collect, SeenIsStillShown, TypeOK, ProcState, Goto, Return, registryVars, IdleProc, At
    <3>2. CASE Decide(p)
      BY <3>2, CurrentFrame DEF Decide, SeenIsStillShown, TypeOK, ProcState, Goto, Return, registryVars, IdleProc, At
    <3>3. CASE ReuseArtifact(p)
      BY <3>3, CurrentFrame DEF ReuseArtifact, SeenIsStillShown, TypeOK, ProcState, Goto, Return, registryVars, IdleProc, At
    <3>4. CASE RegisterReference(p)
      BY <3>4, CurrentFrame DEF RegisterReference, RegisterArtifact, SeenIsStillShown, TypeOK, ProcState, Goto, Return, registryVars, IdleProc, At
    <3>5. CASE BuildRun(p)
      BY <3>5, CurrentFrame DEF BuildRun, BuildImportRun, SeenIsStillShown, TypeOK, ProcState, Goto, Return, registryVars, IdleProc, At
    <3>6. CASE StartRun(p)
      BY <3>6, CurrentFrame DEF StartRun, StartImportRun, SeenIsStillShown, TypeOK, ProcState, Goto, Return, registryVars, IdleProc, At
    <3>7. CASE CompleteDryRun(p)
      BY <3>7, CurrentFrame DEF CompleteDryRun, SeenIsStillShown, TypeOK, ProcState, Goto, Return, registryVars, IdleProc, At
    <3>8. CASE Publish(p)
      BY <3>8, CurrentFrame DEF Publish, RegistryInv, Mutex, SeenIsStillShown, TypeOK, ProcState, Goto, Return, registryVars, IdleProc, At
    <3>9. CASE CloseRun(p)
      BY <3>9, CurrentFrame DEF CloseRun, FailPublication, SeenIsStillShown, TypeOK, ProcState, Goto, Return, registryVars, IdleProc, At
    <3>10. CASE FailFeed(p)
      BY <3>10, CurrentFrame DEF FailFeed, SeenIsStillShown, TypeOK, ProcState, Goto, Return, registryVars, IdleProc, At
    <3>11. CASE MarkImported(p)
      BY <3>11, CurrentFrame DEF MarkImported, SeenIsStillShown, TypeOK, ProcState, Goto, Return, registryVars, IdleProc, At
    <3>12. CASE MarkUnchanged(p)
      BY <3>12, CurrentFrame DEF MarkUnchanged, SeenIsStillShown, TypeOK, ProcState, Goto, Return, registryVars, IdleProc, At
    <3> QED
      BY <2>3, <3>1, <3>2, <3>3, <3>4, <3>5, <3>6, <3>7, <3>8, <3>9, <3>10, <3>11, <3>12 DEF Step
  <2>4. ASSUME NEW p \in Proc, Fault(p)
        PROVE  SeenIsStillShown'
    <3>1. CASE CollectFails(p)
      BY <3>1, CurrentFrame DEF CollectFails, SeenIsStillShown, TypeOK, ProcState, Goto, Return, registryVars, IdleProc, At
    <3>2. CASE StartRunFails(p)
      BY <3>2, CurrentFrame DEF StartRunFails, SeenIsStillShown, TypeOK, ProcState, Goto, Return, registryVars, IdleProc, At
    <3>3. CASE PublishFails(p)
      BY <3>3, CurrentFrame DEF PublishFails, SeenIsStillShown, TypeOK, ProcState, Goto, Return, registryVars, IdleProc, At
    <3>4. CASE Crash(p)
      BY <3>4, CurrentFrame DEF Crash, SeenIsStillShown, TypeOK, ProcState, Goto, Return, registryVars, IdleProc, At
    <3> QED
      BY <2>4, <3>1, <3>2, <3>3, <3>4 DEF Fault
  <2>5. CASE UNCHANGED vars
    BY <2>5, CurrentFrame DEF vars, SeenIsStillShown
  <2> QED
    BY <2>1, <2>2, <2>3, <2>4, <2>5 DEF Next
<1> QED
  BY <1>1, <1>2, TypeCorrect, RegistryInvariant, PTL DEF Spec

-----------------------------------------------------------------------------
(***************************************************************************)
(* A verified content is the shown one, when the source never goes back.   *)
(* VerifiedIsShown is not inductive by itself: "published before" has to   *)
(* mean "shown now", which needs to know that a retired content is neither *)
(* served nor in anybody's hands, and that a current content about to be   *)
(* replaced is no longer served.                                           *)
(***************************************************************************)

ServedInv ==
    /\ remote \in served
    /\ \A r \in RunId : LiveSuccess(r) => runs[r].content \in served
    /\ \A p \in Proc : proc[p].got # NoContent => proc[p].got \in served
    /\ \A p \in Proc : proc[p].pc \in {"idle", "collect"} => proc[p].got = NoContent

RetiredInv ==
    \A r \in RunId : snapshots[r] = "retired" =>
        /\ runs[r].content # remote
        /\ \A p \in Proc : proc[p].got # runs[r].content

SupersededInv ==
    \A p \in Proc, r \in RunId :
        /\ snapshots[r] = "current"
        /\ proc[p].got \notin {NoContent, runs[r].content}
        => runs[r].content # remote

EtagInv == feed.etag # NoContent => KeyTaken(feed.etag)

\* VerifiedIsShown without the CHOOSE in Current.
ShownInv ==
    \A p \in Proc : proc[p].pc \in {"mark_imported", "mark_unchanged"} =>
        \E r \in RunId : snapshots[r] = "current" /\ runs[r].content = proc[p].got

FreshInv ==
    /\ ServedInv
    /\ RetiredInv
    /\ SupersededInv
    /\ EtagInv
    /\ ShownInv

\* A published content that is served, or that somebody holds, is the current one.
LEMMA PublishedIsCurrent ==
  ASSUME RegistryInv, RetiredInv, TypeOK, NEW c, KeyTaken(c),
         c = remote \/ \E p \in Proc : c = proc[p].got
  PROVE  \E r \in RunId : snapshots[r] = "current" /\ runs[r].content = c
<1> PICK r \in RunId : LiveSuccess(r) /\ runs[r].content = c
  BY DEF KeyTaken
<1>1. snapshots[r] \in {"retired", "current"}
  BY DEF RegistryInv, AtomicPublication, TypeOK, RegistryTypeOK, SnapshotState
<1> QED
  BY <1>1 DEF RetiredInv

\* The content of a published snapshot is a real one, never NoContent.
LEMMA PublishedContent ==
  ASSUME RegistryInv, ServedInv, TypeOK, NEW r \in RunId, snapshots[r] # "none"
  PROVE  runs[r].content \in Content /\ runs[r].content # NoContent
  BY NoContentAssumption DEF RegistryInv, AtomicPublication, ServedInv, TypeOK

\* Steps that leave the published rows and the source alone and do not touch
\* what anybody holds, except to let go of it.
LEMMA FreshFrame ==
  ASSUME FreshInv, TypeOK, RegistryInv, UNCHANGED <<snapshots, remote, served>>, EtagInv',
         \A r \in RunId : LiveSuccess(r)' <=> LiveSuccess(r),
         \A r \in RunId : LiveSuccess(r) => runs'[r].content = runs[r].content,
         NEW p \in Proc,
         \A q \in Proc : q # p => proc'[q] = proc[q],
         proc'[p].got \in {proc[p].got, NoContent},
         proc'[p].pc \in {"idle", "collect"} => proc'[p].got = NoContent,
         proc'[p].pc \notin {"mark_imported", "mark_unchanged"}
  PROVE  FreshInv'
<1>1. ServedInv'
  BY DEF FreshInv, ServedInv
<1>2. \A r \in RunId : snapshots[r] # "none" => runs[r].content # NoContent
  BY PublishedContent DEF FreshInv
<1>3. \A r \in RunId : snapshots[r] # "none" => runs'[r].content = runs[r].content
  BY DEF RegistryInv, AtomicPublication
<1>4. RetiredInv'
  BY <1>2, <1>3 DEF FreshInv, RetiredInv
<1>5. SupersededInv'
  BY <1>2, <1>3 DEF FreshInv, SupersededInv
<1>6. ShownInv'
  BY <1>3 DEF FreshInv, ShownInv
<1> QED
  BY <1>1, <1>4, <1>5, <1>6 DEF FreshInv

\* A step that touches none of the rows, for the common case of FreshFrame.
LEMMA FreshJump ==
  ASSUME FreshInv, TypeOK, RegistryInv, UNCHANGED <<runs, snapshots, remote, served>>,
         feed'.etag = feed.etag,
         NEW p \in Proc,
         \A q \in Proc : q # p => proc'[q] = proc[q],
         proc'[p].got \in {proc[p].got, NoContent},
         proc'[p].pc \in {"idle", "collect"} => proc'[p].got = NoContent,
         proc'[p].pc \notin {"mark_imported", "mark_unchanged"}
  PROVE  FreshInv'
<1>1. /\ \A r \in RunId : LiveSuccess(r)' <=> LiveSuccess(r)
      /\ \A r \in RunId : LiveSuccess(r) => runs'[r].content = runs[r].content
  BY DEF LiveSuccess
<1>2. EtagInv'
  BY DEF FreshInv, EtagInv, KeyTaken, LiveSuccess
<1> QED
  BY <1>1, <1>2, FreshFrame

\* The main argument: one step preserves FreshInv.
LEMMA FreshStep ==
  ASSUME ~Reverts, TypeOK, RegistryInv, FreshInv, [Next]_vars
  PROVE  FreshInv'
<1>1. ASSUME NEW c \in Content, RemoteChanges(c)
      PROVE  FreshInv'
  <2>1. c \notin served /\ remote' = c /\ served' = served \cup {c}
    BY <1>1 DEF RemoteChanges
  <2>2. UNCHANGED <<runs, snapshots, proc, feed>>
    BY <1>1 DEF RemoteChanges, registryVars
  <2>3. \A r \in RunId : snapshots[r] # "none" => runs[r].content \in served
    BY DEF RegistryInv, AtomicPublication, FreshInv, ServedInv
  <2>4. ServedInv' /\ EtagInv' /\ ShownInv'
    BY <2>1, <2>2 DEF FreshInv, ServedInv, EtagInv, ShownInv, KeyTaken, LiveSuccess
  <2>5. RetiredInv' /\ SupersededInv'
    BY <2>1, <2>2, <2>3 DEF FreshInv, RetiredInv, SupersededInv
  <2> QED
    BY <2>4, <2>5 DEF FreshInv
<1>2. ASSUME NEW p \in Proc, NEW dryRun \in BOOLEAN, Begin(p, dryRun)
      PROVE  FreshInv'
  <2>1. /\ proc'[p].pc = "collect"
        /\ proc'[p].got = NoContent
        /\ \A q \in Proc : q # p => proc'[q] = proc[q]
    BY <1>2 DEF Begin, TypeOK, IdleProc
  <2>2. UNCHANGED <<runs, snapshots, remote, served, feed>>
    BY <1>2 DEF Begin, registryVars, envVars
  <2> QED
    BY <2>1, <2>2, FreshJump
<1>3. ASSUME NEW p \in Proc, Collect(p)
      PROVE  FreshInv'
  <2>1. /\ proc'[p].pc = (IF NotModified(p) THEN "mark_unchanged" ELSE "decide")
        /\ proc'[p].got = remote
        /\ \A q \in Proc : q # p => proc'[q] = proc[q]
    BY <1>3 DEF Collect, TypeOK, ProcState
  <2>2. UNCHANGED <<runs, snapshots, remote, served, feed>>
    BY <1>3 DEF Collect, registryVars, envVars
  <2>3. ServedInv' /\ EtagInv'
    BY <2>1, <2>2 DEF FreshInv, ServedInv, EtagInv, KeyTaken, LiveSuccess
  <2>4. RetiredInv' /\ SupersededInv'
    BY <2>1, <2>2 DEF FreshInv, RetiredInv, SupersededInv
  <2>5. ASSUME NotModified(p)
        PROVE  \E r \in RunId : snapshots[r] = "current" /\ runs[r].content = remote
    <3>1. remote \in Content /\ feed.etag = remote
      BY <2>5, NoContentAssumption DEF NotModified, SentEtag, TypeOK
    <3>2. KeyTaken(remote)
      BY <3>1, NoContentAssumption DEF FreshInv, EtagInv
    <3> QED
      BY <3>2, PublishedIsCurrent DEF FreshInv
  <2>6. ShownInv'
    BY <2>1, <2>2, <2>5 DEF FreshInv, ShownInv
  <2> QED
    BY <2>3, <2>4, <2>6 DEF FreshInv
<1>4. ASSUME NEW p \in Proc, Decide(p)
      PROVE  FreshInv'
  <2>1. /\ proc'[p].got = proc[p].got
        /\ proc'[p].pc \in {"mark_unchanged", "register", "fail_feed"}
        /\ proc'[p].pc = "mark_unchanged" => KeyTaken(proc[p].got)
        /\ \A q \in Proc : q # p => proc'[q] = proc[q]
    BY <1>4 DEF Decide, Goto, TypeOK, ProcState, AlreadyPublished
  <2>2. UNCHANGED <<runs, snapshots, remote, served, feed>>
    BY <1>4 DEF Decide, registryVars, envVars
  <2>3. EtagInv'
    BY <2>2 DEF FreshInv, EtagInv, KeyTaken, LiveSuccess
  <2>4. CASE proc'[p].pc # "mark_unchanged"
    BY <2>1, <2>2, <2>4, FreshJump
  <2>5. CASE proc'[p].pc = "mark_unchanged"
    <3>1. ServedInv' /\ RetiredInv' /\ SupersededInv'
      BY <2>1, <2>2, <2>5 DEF FreshInv, ServedInv, LiveSuccess, RetiredInv, SupersededInv
    <3>2. \E r \in RunId : snapshots[r] = "current" /\ runs[r].content = proc[p].got
      BY <2>1, <2>5, PublishedIsCurrent DEF FreshInv
    <3>3. ShownInv'
      BY <2>1, <2>2, <3>2 DEF FreshInv, ShownInv
    <3> QED
      BY <2>3, <3>1, <3>3 DEF FreshInv
  <2> QED
    BY <2>4, <2>5
<1>5. ASSUME NEW p \in Proc, ReuseArtifact(p)
      PROVE  FreshInv'
  <2>1. /\ proc'[p].got = proc[p].got
        /\ proc'[p].pc = "build"
        /\ \A q \in Proc : q # p => proc'[q] = proc[q]
    BY <1>5 DEF ReuseArtifact, Goto, TypeOK, ProcState
  <2>2. UNCHANGED <<runs, snapshots, remote, served, feed>>
    BY <1>5 DEF ReuseArtifact, registryVars, envVars
  <2> QED
    BY <2>1, <2>2, FreshJump
<1>6. ASSUME NEW p \in Proc, RegisterReference(p)
      PROVE  FreshInv'
  <2>1. /\ proc'[p].got = proc[p].got
        /\ proc'[p].pc = "build"
        /\ \A q \in Proc : q # p => proc'[q] = proc[q]
    BY <1>6 DEF RegisterReference, Goto, TypeOK, ProcState
  <2>2. UNCHANGED <<runs, snapshots, remote, served, feed>>
    BY <1>6 DEF RegisterReference, RegisterArtifact, registryVars, envVars
  <2> QED
    BY <2>1, <2>2, FreshJump
<1>7. ASSUME NEW p \in Proc, CollectFails(p)
      PROVE  FreshInv'
  <2>1. /\ proc'[p].got = proc[p].got
        /\ proc'[p].pc = "fail_feed"
        /\ \A q \in Proc : q # p => proc'[q] = proc[q]
    BY <1>7 DEF CollectFails, Goto, TypeOK, ProcState
  <2>2. UNCHANGED <<runs, snapshots, remote, served, feed>>
    BY <1>7 DEF CollectFails, registryVars, envVars
  <2> QED
    BY <2>1, <2>2, FreshJump
<1>8. ASSUME NEW p \in Proc, StartRunFails(p)
      PROVE  FreshInv'
  <2>1. /\ proc'[p].got = proc[p].got
        /\ proc'[p].pc = "fail_feed"
        /\ \A q \in Proc : q # p => proc'[q] = proc[q]
    BY <1>8 DEF StartRunFails, Goto, TypeOK, ProcState
  <2>2. UNCHANGED <<runs, snapshots, remote, served, feed>>
    BY <1>8 DEF StartRunFails, registryVars, envVars
  <2> QED
    BY <2>1, <2>2, FreshJump
<1>9. ASSUME NEW p \in Proc, PublishFails(p)
      PROVE  FreshInv'
  <2>1. /\ proc'[p].got = proc[p].got
        /\ proc'[p].pc = "fail_run"
        /\ \A q \in Proc : q # p => proc'[q] = proc[q]
    BY <1>9 DEF PublishFails, Goto, TypeOK, ProcState
  <2>2. UNCHANGED <<runs, snapshots, remote, served, feed>>
    BY <1>9 DEF PublishFails, registryVars, envVars
  <2> QED
    BY <2>1, <2>2, FreshJump
<1>10. ASSUME NEW p \in Proc, FailFeed(p)
      PROVE  FreshInv'
  <2>1. /\ proc'[p].got = NoContent
        /\ proc'[p].pc = "idle"
        /\ \A q \in Proc : q # p => proc'[q] = proc[q]
    BY <1>10 DEF FailFeed, Return, IdleProc, TypeOK
  <2>2. UNCHANGED <<runs, snapshots, remote, served>> /\ feed'.etag = feed.etag
    BY <1>10 DEF FailFeed, registryVars, envVars, TypeOK, FeedState
  <2> QED
    BY <2>1, <2>2, FreshJump
<1>11. ASSUME NEW p \in Proc, Crash(p)
      PROVE  FreshInv'
  <2>1. /\ proc'[p].got = NoContent
        /\ proc'[p].pc = "idle"
        /\ \A q \in Proc : q # p => proc'[q] = proc[q]
    BY <1>11 DEF Crash, Return, IdleProc, TypeOK
  <2>2. UNCHANGED <<runs, snapshots, remote, served>> /\ feed'.etag = feed.etag
    BY <1>11 DEF Crash, registryVars, envVars, TypeOK, FeedState
  <2> QED
    BY <2>1, <2>2, FreshJump
<1>12. ASSUME NEW p \in Proc, MarkImported(p)
      PROVE  FreshInv'
  <2>1. /\ proc'[p].got = NoContent
        /\ proc'[p].pc = "idle"
        /\ \A q \in Proc : q # p => proc'[q] = proc[q]
    BY <1>12 DEF MarkImported, Return, IdleProc, TypeOK
  <2>2. /\ UNCHANGED <<runs, snapshots, remote, served>>
        /\ feed'.etag \in {feed.etag, proc[p].got}
    BY <1>12 DEF MarkImported, registryVars, envVars, TypeOK, FeedState
  <2>3. /\ \A r \in RunId : LiveSuccess(r)' <=> LiveSuccess(r)
        /\ \A r \in RunId : LiveSuccess(r) => runs'[r].content = runs[r].content
    BY <2>2 DEF LiveSuccess
  <2>4. \E r \in RunId : snapshots[r] = "current" /\ runs[r].content = proc[p].got
    BY <1>12 DEF MarkImported, At, FreshInv, ShownInv
  <2>5. KeyTaken(proc[p].got)
    BY <2>4 DEF RegistryInv, AtomicPublication, KeyTaken
  <2>6. EtagInv'
    BY <2>2, <2>3, <2>5 DEF FreshInv, EtagInv, KeyTaken
  <2> QED
    BY <2>1, <2>2, <2>3, <2>6, FreshFrame
<1>13. ASSUME NEW p \in Proc, MarkUnchanged(p)
      PROVE  FreshInv'
  <2>1. /\ proc'[p].got = NoContent
        /\ proc'[p].pc = "idle"
        /\ \A q \in Proc : q # p => proc'[q] = proc[q]
    BY <1>13 DEF MarkUnchanged, Return, IdleProc, TypeOK
  <2>2. /\ UNCHANGED <<runs, snapshots, remote, served>>
        /\ feed'.etag \in {feed.etag, proc[p].got}
    BY <1>13 DEF MarkUnchanged, registryVars, envVars, TypeOK, FeedState
  <2>3. /\ \A r \in RunId : LiveSuccess(r)' <=> LiveSuccess(r)
        /\ \A r \in RunId : LiveSuccess(r) => runs'[r].content = runs[r].content
    BY <2>2 DEF LiveSuccess
  <2>4. \E r \in RunId : snapshots[r] = "current" /\ runs[r].content = proc[p].got
    BY <1>13 DEF MarkUnchanged, At, FreshInv, ShownInv
  <2>5. KeyTaken(proc[p].got)
    BY <2>4 DEF RegistryInv, AtomicPublication, KeyTaken
  <2>6. EtagInv'
    BY <2>2, <2>3, <2>5 DEF FreshInv, EtagInv, KeyTaken
  <2> QED
    BY <2>1, <2>2, <2>3, <2>6, FreshFrame
<1>14. ASSUME NEW p \in Proc, BuildRun(p)
      PROVE  FreshInv'
  <2>1. /\ proc'[p].got = proc[p].got
        /\ proc'[p].pc = "start"
        /\ \A q \in Proc : q # p => proc'[q] = proc[q]
    BY <1>14 DEF BuildRun, Goto, TypeOK, ProcState
  <2>2. UNCHANGED <<snapshots, remote, served, feed>>
    BY <1>14 DEF BuildRun, BuildImportRun, envVars
  <2>3. /\ \A r \in RunId : LiveSuccess(r)' <=> LiveSuccess(r)
        /\ \A r \in RunId : LiveSuccess(r) => runs'[r].content = runs[r].content
    BY <1>14 DEF BuildRun, BuildImportRun, NextRunId, LiveSuccess, At, RegistryInv, LocalInv, OwnRun, TypeOK,
             RegistryTypeOK, Run
  <2>4. EtagInv'
    BY <2>2, <2>3 DEF FreshInv, EtagInv, KeyTaken
  <2> QED
    BY <2>1, <2>2, <2>3, <2>4, FreshFrame
<1>15. ASSUME NEW p \in Proc, StartRun(p)
      PROVE  FreshInv'
  <2>1. /\ proc'[p].got = proc[p].got
        /\ proc'[p].pc = "publish"
        /\ \A q \in Proc : q # p => proc'[q] = proc[q]
    BY <1>15 DEF StartRun, Goto, TypeOK, ProcState
  <2>2. UNCHANGED <<snapshots, remote, served, feed>>
    BY <1>15 DEF StartRun, StartImportRun, envVars
  <2>3. /\ \A r \in RunId : LiveSuccess(r)' <=> LiveSuccess(r)
        /\ \A r \in RunId : LiveSuccess(r) => runs'[r].content = runs[r].content
    BY <1>15 DEF StartRun, StartImportRun, LiveSuccess, At, RegistryInv, LocalInv, OwnRun, TypeOK,
             RegistryTypeOK, Run
  <2>4. EtagInv'
    BY <2>2, <2>3 DEF FreshInv, EtagInv, KeyTaken
  <2> QED
    BY <2>1, <2>2, <2>3, <2>4, FreshFrame
<1>16. ASSUME NEW p \in Proc, CompleteDryRun(p)
      PROVE  FreshInv'
  <2>1. /\ proc'[p].got = NoContent
        /\ proc'[p].pc = "idle"
        /\ \A q \in Proc : q # p => proc'[q] = proc[q]
    BY <1>16 DEF CompleteDryRun, Return, IdleProc, TypeOK, ProcState
  <2>2. UNCHANGED <<snapshots, remote, served, feed>>
    BY <1>16 DEF CompleteDryRun, CompleteImportRun, envVars
  <2>3. /\ \A r \in RunId : LiveSuccess(r)' <=> LiveSuccess(r)
        /\ \A r \in RunId : LiveSuccess(r) => runs'[r].content = runs[r].content
    BY <1>16 DEF CompleteDryRun, CompleteImportRun, LiveSuccess, At, RegistryInv, LocalInv, OwnRun, TypeOK,
             RegistryTypeOK, Run
  <2>4. EtagInv'
    BY <2>2, <2>3 DEF FreshInv, EtagInv, KeyTaken
  <2> QED
    BY <2>1, <2>2, <2>3, <2>4, FreshFrame
<1>17. ASSUME NEW p \in Proc, CloseRun(p)
      PROVE  FreshInv'
  <2>1. /\ proc'[p].got = proc[p].got
        /\ proc'[p].pc = "fail_feed"
        /\ \A q \in Proc : q # p => proc'[q] = proc[q]
    BY <1>17 DEF CloseRun, Goto, TypeOK, ProcState
  <2>2. UNCHANGED <<snapshots, remote, served, feed>>
    BY <1>17 DEF CloseRun, FailPublication, envVars
  <2>3. /\ \A r \in RunId : LiveSuccess(r)' <=> LiveSuccess(r)
        /\ \A r \in RunId : LiveSuccess(r) => runs'[r].content = runs[r].content
    BY <1>17 DEF CloseRun, FailPublication, FailImportRun, IsTerminal, LiveSuccess, At, RegistryInv, LocalInv, OwnRun, TypeOK,
             RegistryTypeOK, Run
  <2>4. EtagInv'
    BY <2>2, <2>3 DEF FreshInv, EtagInv, KeyTaken
  <2> QED
    BY <2>1, <2>2, <2>3, <2>4, FreshFrame
<1>18. ASSUME NEW p \in Proc, Publish(p)
      PROVE  FreshInv'
  <2> DEFINE run == proc[p].run
             got == proc[p].got
  <2>1. /\ proc'[p].got = got
        /\ proc'[p].pc = "mark_imported"
        /\ \A q \in Proc : q # p => proc'[q] = proc[q] /\ proc[q].got = NoContent
    BY <1>18 DEF Publish, At, Goto, TypeOK, ProcState, RegistryInv, Mutex, FreshInv, ServedInv
  <2>2. UNCHANGED <<remote, served, feed>>
    BY <1>18 DEF Publish, envVars
  <2>3. run \in RunId /\ got \in Content /\ runs[run].content = got /\ ~LiveSuccess(run)
    BY <1>18 DEF Publish, At, RegistryInv, LocalInv, OwnRun, LiveSuccess
  <2>4. ~KeyTaken(got)
    BY <1>18, <2>3 DEF Publish, At, CompleteImportRun, RegistryInv, LocalInv, OwnRun
  <2>5. /\ runs' = [runs EXCEPT ![run].status = "succeeded"]
        /\ \A r \in RunId : runs'[r].content = runs[r].content
        /\ \A r \in RunId : LiveSuccess(r)' <=> LiveSuccess(r) \/ r = run
    BY <1>18, <2>3 DEF Publish, At, CompleteImportRun, LiveSuccess, TypeOK, RegistryTypeOK, Run,
                       RegistryInv, LocalInv, OwnRun
  <2>6. \A r \in RunId :
           snapshots'[r] = IF r = run THEN "current"
                           ELSE IF snapshots[r] = "current" THEN "retired" ELSE snapshots[r]
    BY <1>18 DEF Publish, PublishCurrent, CurrentRuns
  <2>7. \A r \in RunId : snapshots[r] # "none" => runs[r].content # got /\ runs[r].content # NoContent
    <3>1. \A r \in RunId : snapshots[r] # "none" => runs[r].content # got
      BY <2>4 DEF RegistryInv, AtomicPublication, KeyTaken
    <3> QED
      BY <3>1, PublishedContent DEF FreshInv
  <2>8. \A r \in RunId : snapshots[r] # "none" => runs[r].content # remote
    BY <2>3, <2>7, NoContentAssumption
       DEF FreshInv, RetiredInv, SupersededInv, TypeOK, RegistryTypeOK, SnapshotState
  <2>9. ServedInv'
    BY <2>1, <2>2, <2>3, <2>5, NoContentAssumption DEF FreshInv, ServedInv
  <2>10. RetiredInv'
    BY <2>1, <2>2, <2>5, <2>6, <2>7, <2>8 DEF FreshInv, RetiredInv
  <2>11. SupersededInv'
    BY <2>1, <2>2, <2>3, <2>5, <2>6 DEF FreshInv, SupersededInv
  <2>12. EtagInv'
    BY <2>2, <2>5 DEF FreshInv, EtagInv, KeyTaken
  <2>13. ShownInv'
    BY <2>1, <2>3, <2>5, <2>6, <1>18 DEF FreshInv, ShownInv, Publish, At, RegistryInv, Mutex
  <2> QED
    BY <2>9, <2>10, <2>11, <2>12, <2>13 DEF FreshInv
<1>19. CASE UNCHANGED vars
  BY <1>19 DEF vars, FreshInv, ServedInv, RetiredInv, SupersededInv, EtagInv, ShownInv, KeyTaken,
               LiveSuccess
<1> QED
  BY <1>1, <1>2, <1>3, <1>4, <1>5, <1>6, <1>7, <1>8, <1>9, <1>10, <1>11, <1>12, <1>13, <1>14,
     <1>15, <1>16, <1>17, <1>18, <1>19 DEF Next, Step, Fault

\* VerifiedIsShown for every instance whose source never serves an earlier
\* content again: a check that reports "imported" or "unchanged" has just seen
\* the very content the dashboard shows.
THEOREM VerifiedStaysShown == ASSUME ~Reverts PROVE Spec => []VerifiedIsShown
<1>1. Init => FreshInv
  <2> SUFFICES ASSUME Init PROVE FreshInv
    OBVIOUS
  <2>1. ServedInv /\ EtagInv
    BY DEF Init, RegistryInit, ServedInv, EtagInv, LiveSuccess, AbsentRun, IdleProc
  <2>2. RetiredInv /\ SupersededInv /\ ShownInv
    BY DEF Init, RegistryInit, RetiredInv, SupersededInv, ShownInv, IdleProc
  <2> QED
    BY <2>1, <2>2 DEF FreshInv
<1>2. TypeOK /\ RegistryInv /\ FreshInv /\ [Next]_vars => FreshInv'
  BY FreshStep
<1>3. RegistryInv /\ FreshInv => VerifiedIsShown
  <2> SUFFICES ASSUME RegistryInv, FreshInv, NEW p \in Proc,
                      proc[p].pc \in {"mark_imported", "mark_unchanged"}
               PROVE  ShownContent = proc[p].got
    BY DEF VerifiedIsShown
  <2> PICK r \in RunId : snapshots[r] = "current" /\ runs[r].content = proc[p].got
    BY DEF FreshInv, ShownInv
  <2>1. Current = r /\ r # NoRun
    BY CurrentIs, RunIdNotNoRun DEF RegistryInv
  <2> QED
    BY <2>1 DEF ShownContent, ContentOf
<1> QED
  BY <1>1, <1>2, <1>3, TypeCorrect, RegistryInvariant, PTL DEF Spec

-----------------------------------------------------------------------------
(***************************************************************************)
(* Publication by publication.  All steps but one leave the published      *)
(* rows as they are; that one is Publish.  From this follow the bound on   *)
(* what the dashboard jumps by and the refinement of PublicationContract.  *)
(***************************************************************************)

\* Neither the snapshots nor the live successes and their contents change.
PublishedFrame ==
    /\ UNCHANGED snapshots
    /\ \A r \in RunId : LiveSuccess(r)' <=> LiveSuccess(r)
    /\ \A r \in RunId : LiveSuccess(r) => runs'[r].content = runs[r].content

\* A run that was not a live success and does not become one.
LEMMA RunFrame ==
  ASSUME TypeOK, UNCHANGED snapshots, NEW r \in RunId, ~LiveSuccess(r), ~LiveSuccess(r)',
         \A q \in RunId : q # r => runs'[q] = runs[q]
  PROVE  PublishedFrame
  BY DEF PublishedFrame, LiveSuccess

\* Only Publish touches what is published.
LEMMA OnlyPublish ==
  ASSUME TypeOK, RegistryInv, [Next]_vars
  PROVE  PublishedFrame \/ \E p \in Proc : Publish(p)
<1>0. UNCHANGED registryVars => PublishedFrame
  BY DEF registryVars, PublishedFrame, LiveSuccess
<1>1. ASSUME NEW c \in Content, RemoteChanges(c)
      PROVE  PublishedFrame
  BY <1>0, <1>1 DEF RemoteChanges
<1>2. ASSUME NEW p \in Proc, NEW dryRun \in BOOLEAN, Begin(p, dryRun)
      PROVE  PublishedFrame
  BY <1>0, <1>2 DEF Begin
<1>3. ASSUME NEW p \in Proc, Step(p)
      PROVE  PublishedFrame \/ Publish(p)
  <2>1. CASE Collect(p) \/ Decide(p) \/ ReuseArtifact(p) \/ FailFeed(p) \/ MarkImported(p)
             \/ MarkUnchanged(p)
    BY <1>0, <2>1 DEF Collect, Decide, ReuseArtifact, FailFeed, MarkImported, MarkUnchanged
  <2>2. CASE RegisterReference(p)
    BY <2>2 DEF RegisterReference, RegisterArtifact, PublishedFrame, LiveSuccess
  <2>3. CASE BuildRun(p)
    <3>1. PICK r \in RunId : BuildImportRun(r, proc[p].got, proc[p].dry_run)
      BY <2>3 DEF BuildRun
    <3> QED
      BY <3>1, RunFrame DEF BuildImportRun, NextRunId, LiveSuccess, TypeOK, RegistryTypeOK
  <2>4. CASE StartRun(p)
    <3>1. /\ proc[p].run \in RunId
          /\ runs[proc[p].run].status = "pending"
      BY <2>4 DEF StartRun, At, RegistryInv, LocalInv, OwnRun
    <3>2. /\ runs' = [runs EXCEPT ![proc[p].run].status = "running"]
          /\ UNCHANGED snapshots
      BY <2>4 DEF StartRun, StartImportRun
    <3> QED
      BY <3>1, <3>2, RunFrame DEF LiveSuccess, TypeOK, RegistryTypeOK, Run
  <2>5. CASE CompleteDryRun(p)
    <3>1. /\ proc[p].run \in RunId
          /\ runs[proc[p].run].dry_run = TRUE
      BY <2>5 DEF CompleteDryRun, At, RegistryInv, LocalInv, OwnRun, TypeOK, ProcState,
                  RegistryTypeOK, Run
    <3>2. /\ runs' = [runs EXCEPT ![proc[p].run].status = "succeeded"]
          /\ UNCHANGED snapshots
      BY <2>5 DEF CompleteDryRun, CompleteImportRun
    <3> QED
      BY <3>1, <3>2, RunFrame DEF LiveSuccess, TypeOK, RegistryTypeOK, Run
  <2>6. CASE CloseRun(p)
    <3>1. /\ proc[p].run \in RunId
          /\ runs[proc[p].run].status = "running"
      BY <2>6 DEF CloseRun, At, RegistryInv, LocalInv, OwnRun
    <3>2. /\ runs' = [runs EXCEPT ![proc[p].run].status = "failed"]
          /\ UNCHANGED snapshots
      BY <2>6, <3>1 DEF CloseRun, FailPublication, FailImportRun, IsTerminal
    <3> QED
      BY <3>1, <3>2, RunFrame DEF LiveSuccess, TypeOK, RegistryTypeOK, Run
  <2> QED
    BY <1>3, <2>1, <2>2, <2>3, <2>4, <2>5, <2>6 DEF Step
<1>4. ASSUME NEW p \in Proc, Fault(p)
      PROVE  PublishedFrame
  BY <1>0, <1>4 DEF Fault, CollectFails, StartRunFails, PublishFails, Crash
<1>5. CASE UNCHANGED vars
  BY <1>0, <1>5 DEF vars, registryVars
<1> QED
  BY <1>1, <1>2, <1>3, <1>4, <1>5 DEF Next

\* The run that is current has succeeded live.
LEMMA CurrentSucceeded ==
  ASSUME RegistryInv
  PROVE  Current = NoRun \/ (Current \in RunId /\ LiveSuccess(Current))
  BY DEF Current, CurrentRuns, RegistryInv, AtomicPublication

\* What is not published anew stays on the dashboard and keeps its key.
LEMMA ShownFrame ==
  ASSUME RegistryInv, PublishedFrame
  PROVE  /\ Current' = Current
         /\ ShownContent' = ShownContent
         /\ \A c \in Content : KeyTaken(c)' <=> KeyTaken(c)
<1>1. Current' = Current
  BY CurrentFrame DEF PublishedFrame
<1>2. ContentOf(Current)' = ContentOf(Current)
  BY <1>1, CurrentSucceeded DEF PublishedFrame, ContentOf
<1> QED
  BY <1>1, <1>2 DEF ShownContent, KeyTaken, PublishedFrame

\* A publication shows what its invocation collected and takes the key of that
\* content alone, which was free.
LEMMA PublishShows ==
  ASSUME TypeOK, RegistryInv, NEW p \in Proc, Publish(p)
  PROVE  /\ proc[p].got \in Content
         /\ ShownContent' = proc[p].got
         /\ ~KeyTaken(proc[p].got)
         /\ \A c \in Content : KeyTaken(c)' <=> KeyTaken(c) \/ c = proc[p].got
<1> DEFINE r == proc[p].run
<1>1. /\ r \in RunId
      /\ runs[r] \in Run
      /\ runs[r].status = "running"
      /\ runs[r].content = proc[p].got
      /\ runs[r].dry_run = FALSE
      /\ proc[p].got \in Content
  BY DEF Publish, At, RegistryInv, LocalInv, OwnRun, TypeOK, RegistryTypeOK, ProcState
<1>2. /\ runs' = [runs EXCEPT ![r].status = "succeeded"]
      /\ ~KeyTaken(proc[p].got)
  BY <1>1 DEF Publish, CompleteImportRun
<1>3. /\ runs'[r].status = "succeeded"
      /\ runs'[r].content = proc[p].got
      /\ runs'[r].dry_run = FALSE
      /\ \A q \in RunId : q # r => runs'[q] = runs[q]
  BY <1>1, <1>2 DEF TypeOK, RegistryTypeOK, Run
<1>4. snapshots' = [q \in RunId |-> IF q = r THEN "current"
                                    ELSE IF q \in CurrentRuns THEN "retired" ELSE snapshots[q]]
  BY DEF Publish, PublishCurrent
<1>5. CurrentRuns' = {r}
  BY <1>1, <1>4 DEF CurrentRuns
<1>6. Current' = r
  BY <1>5 DEF Current
<1>7. ShownContent' = proc[p].got
  BY <1>1, <1>3, <1>6, RunIdNotNoRun DEF ShownContent, ContentOf
<1>8. \A c \in Content : KeyTaken(c)' <=> KeyTaken(c) \/ c = proc[p].got
  BY <1>1, <1>3 DEF KeyTaken, LiveSuccess
<1> QED
  BY <1>1, <1>2, <1>7, <1>8

\* ContractSpec for every instance: whatever invocations race, fail or die, the
\* dashboard changes only by a whole publication of a content never published
\* before (publish_current and the import key).
THEOREM FeedImplementsContract == Spec => ContractSpec
<1>1. Init => Contract!Init
  <2> SUFFICES ASSUME Init PROVE Contract!Init
    OBVIOUS
  <2>1. CurrentRuns = {} /\ \A c \in Content : ~KeyTaken(c)
    BY DEF Init, RegistryInit, CurrentRuns, KeyTaken, LiveSuccess, AbsentRun
  <2>2. ShownContent = NoContent
    BY <2>1 DEF ShownContent, ContentOf, Current
  <2> QED
    BY <2>1, <2>2 DEF Contract!Init
<1>2. TypeOK /\ RegistryInv /\ [Next]_vars => [Contract!Next]_(Contract!contractVars)
  <2> SUFFICES ASSUME TypeOK, RegistryInv, [Next]_vars
               PROVE  [Contract!Next]_(Contract!contractVars)
    OBVIOUS
  <2>1. CASE PublishedFrame
    <3>1. UNCHANGED <<ShownContent, {c \in Content : KeyTaken(c)}>>
      BY <2>1, ShownFrame
    <3> QED
      BY <3>1 DEF Contract!contractVars
  <2>2. ASSUME NEW p \in Proc, Publish(p)
        PROVE  Contract!Next
    <3>1. /\ proc[p].got \notin {c \in Content : KeyTaken(c)}
          /\ ShownContent' = proc[p].got
          /\ {c \in Content : KeyTaken(c)}' = {c \in Content : KeyTaken(c)} \cup {proc[p].got}
      BY <2>2, PublishShows
    <3>2. Contract!Publish(proc[p].got)
      BY <3>1 DEF Contract!Publish
    <3> QED
      BY <2>2, <3>2, PublishShows DEF Contract!Next
  <2> QED
    BY <2>1, <2>2, OnlyPublish
<1> QED
  BY <1>1, <1>2, TypeCorrect, RegistryInvariant, PTL DEF Spec, ContractSpec, Contract!Spec

\* What an invocation carries towards the publication is a change the guard
\* accepted, measured against what was shown when the invocation looked.
PlausibleInv ==
    \A p \in Proc : proc[p].pc \in {"register", "build", "start", "publish"} =>
                        IsChangePlausible(proc[p].seen, proc[p].got)

\* The guard's answer stands as long as the published contents do.
LEMMA PlausibleFrame ==
  ASSUME TypeOK, RegistryInv, SeenIsStillShown, PlausibleInv,
         \A r \in RunId : LiveSuccess(r) => runs'[r].content = runs[r].content,
         NEW p \in Proc,
         proc[p].pc \in {"register", "build", "start", "publish"},
         proc'[p].seen = proc[p].seen, proc'[p].got = proc[p].got
  PROVE  IsChangePlausible(proc[p].seen, proc[p].got)'
<1>1. proc[p].seen = NoRun \/ (proc[p].seen \in RunId /\ LiveSuccess(proc[p].seen))
  BY CurrentSucceeded DEF SeenIsStillShown
<1>2. proc[p].seen # NoRun => runs'[proc[p].seen].content = runs[proc[p].seen].content
  BY <1>1
<1>3. IsChangePlausible(proc[p].seen, proc[p].got)
  BY DEF PlausibleInv
<1> QED
  BY <1>2, <1>3 DEF IsChangePlausible

\* NoImplausibleJump for every instance and every threshold: the dashboard never
\* moves by more than the guard accepts against the count it replaces, although
\* the guard compared with what it had read before the request
\* (is_change_plausible in synchronize_membership).
THEOREM NoJump == Spec => NoImplausibleJump
<1>1. Init => PlausibleInv
  BY DEF Init, PlausibleInv, IdleProc
<1>2. TypeOK /\ RegistryInv /\ SeenIsStillShown /\ PlausibleInv /\ [Next]_vars => PlausibleInv'
  <2> SUFFICES ASSUME TypeOK, RegistryInv, SeenIsStillShown, PlausibleInv, [Next]_vars,
                      NEW p \in Proc,
                      proc'[p].pc \in {"register", "build", "start", "publish"}
               PROVE  IsChangePlausible(proc[p].seen, proc[p].got)'
    BY DEF PlausibleInv
  <2>1. CASE \E q \in Proc : Publish(q)
    <3>1. PICK q \in Proc : Publish(q)
      BY <2>1
    <3>2. proc'[q].pc = "mark_imported" /\ proc[q].pc # "idle"
      BY <3>1 DEF Publish, Goto, At, TypeOK, ProcState
    <3>3. q # p => proc'[p] = proc[p] /\ proc[p].pc = "idle"
      BY <3>1, <3>2 DEF Publish, Goto, TypeOK, RegistryInv, Mutex
    <3> QED
      BY <3>2, <3>3
  <2>2. CASE PublishedFrame
    <3> DEFINE Holds   == /\ proc[p].pc \in {"register", "build", "start", "publish"}
                          /\ proc'[p].seen = proc[p].seen
                          /\ proc'[p].got = proc[p].got
               Decides == Decide(p) /\ proc'[p].pc = "register"
    <3>0. proc'[p] = proc[p] => Holds
      OBVIOUS
    <3>1. Holds \/ Decides
      <4>1. ASSUME NEW c \in Content, RemoteChanges(c)
            PROVE  Holds
        BY <3>0, <4>1 DEF RemoteChanges
      <4>2. ASSUME NEW q \in Proc, NEW dryRun \in BOOLEAN, Begin(q, dryRun)
            PROVE  Holds
        <5> HIDE DEF Holds
        <5>1. proc'[q].pc = "collect" /\ (q # p => proc'[p] = proc[p])
          BY <4>2 DEF Begin, TypeOK
        <5> QED
          BY <3>0, <5>1
      <4>3. ASSUME NEW q \in Proc, Step(q), q # p
            PROVE  Holds
        <5> HIDE DEF Holds
        <5>1. proc'[p] = proc[p]
          <6>1. CASE Collect(q) \/ Decide(q) \/ ReuseArtifact(q) \/ RegisterReference(q)
            BY <4>3, <6>1 DEF Collect, Decide, ReuseArtifact, RegisterReference, Goto, TypeOK
          <6>2. CASE BuildRun(q)
            BY <4>3, <6>2 DEF BuildRun, TypeOK
          <6>3. CASE StartRun(q) \/ CompleteDryRun(q) \/ Publish(q) \/ CloseRun(q)
            BY <4>3, <6>3 DEF StartRun, CompleteDryRun, Publish, CloseRun, Goto, Return, TypeOK
          <6>4. CASE FailFeed(q) \/ MarkImported(q) \/ MarkUnchanged(q)
            BY <4>3, <6>4 DEF FailFeed, MarkImported, MarkUnchanged, Return, TypeOK
          <6> QED
            BY <4>3, <6>1, <6>2, <6>3, <6>4 DEF Step
        <5> QED
          BY <3>0, <5>1
      <4>4. ASSUME Step(p)
            PROVE  Holds \/ Decides
        <5>1. CASE Decide(p)
          BY <5>1 DEF Decide, Goto, At, TypeOK, ProcState
        <5>2. CASE ReuseArtifact(p) \/ RegisterReference(p) \/ StartRun(p)
          BY <5>2 DEF ReuseArtifact, RegisterReference, StartRun, Goto, At, TypeOK, ProcState
        <5>3. CASE BuildRun(p)
          BY <5>3 DEF BuildRun, At, TypeOK, ProcState
        <5>4. CASE Collect(p)
          BY <5>4 DEF Collect, TypeOK, ProcState
        <5>5. CASE CompleteDryRun(p) \/ FailFeed(p) \/ MarkImported(p) \/ MarkUnchanged(p)
          BY <5>5 DEF CompleteDryRun, FailFeed, MarkImported, MarkUnchanged, Return, TypeOK, IdleProc
        <5>6. CASE Publish(p) \/ CloseRun(p)
          BY <5>6 DEF Publish, CloseRun, Goto, TypeOK, ProcState
        <5> QED
          BY <4>4, <5>1, <5>2, <5>3, <5>4, <5>5, <5>6 DEF Step
      <4>5. ASSUME NEW q \in Proc, Fault(q)
            PROVE  Holds
        <5> HIDE DEF Holds
        <5>1. proc'[p] = proc[p]
          <6>1. proc'[q].pc \notin {"register", "build", "start", "publish"}
            BY <4>5 DEF Fault, CollectFails, StartRunFails, PublishFails, Crash, Goto, Return,
                        TypeOK, ProcState, IdleProc
          <6> QED
            BY <4>5, <6>1 DEF Fault, CollectFails, StartRunFails, PublishFails, Crash, Goto,
                        Return, TypeOK
        <5> QED
          BY <3>0, <5>1
      <4>6. CASE UNCHANGED vars
        BY <3>0, <4>6 DEF vars
      <4> HIDE DEF Holds, Decides
      <4> QED
        BY <4>1, <4>2, <4>3, <4>4, <4>5, <4>6 DEF Next
    <3>2. CASE Decide(p) /\ proc'[p].pc = "register"
      <4>1. /\ proc'[p].seen = proc[p].seen
            /\ proc'[p].got = proc[p].got
            /\ UNCHANGED runs
            /\ IsChangePlausible(proc[p].seen, proc[p].got)
        BY <3>2 DEF Decide, Goto, TypeOK, ProcState, registryVars
      <4> QED
        BY <4>1 DEF IsChangePlausible
    <3> QED
      BY <2>2, <3>1, <3>2, PlausibleFrame DEF PublishedFrame
  <2> QED
    BY <2>1, <2>2, OnlyPublish
<1>3. TypeOK /\ RegistryInv /\ SeenIsStillShown /\ PlausibleInv /\ [Next]_vars
        => (ShownContent' # ShownContent => IsChangePlausible(Current, ShownContent'))
  <2> SUFFICES ASSUME TypeOK, RegistryInv, SeenIsStillShown, PlausibleInv, [Next]_vars,
                      ShownContent' # ShownContent
               PROVE  IsChangePlausible(Current, ShownContent')
    OBVIOUS
  <2>1. PICK p \in Proc : Publish(p)
    BY OnlyPublish, ShownFrame
  <2>2. /\ proc[p].pc = "publish"
        /\ Current = proc[p].seen
    BY <2>1 DEF Publish, At, SeenIsStillShown
  <2> QED
    BY <2>1, <2>2, PublishShows DEF PlausibleInv
<1>4. TypeOK /\ RegistryInv /\ SeenIsStillShown /\ PlausibleInv /\ [Next]_vars
        => [ShownContent' # ShownContent => IsChangePlausible(Current, ShownContent')]_vars
  BY <1>3
<1> QED
  BY <1>1, <1>2, <1>4, TypeCorrect, RegistryInvariant, SeenStaysShown, PTL
     DEF Spec, NoImplausibleJump
=============================================================================
