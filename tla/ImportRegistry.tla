--------------------------- MODULE ImportRegistry ---------------------------
(***************************************************************************)
(* The import registry of apps/sources, for one source and one importer:   *)
(* the artifacts (content identities) the source has registered, the       *)
(* import runs over them, and the snapshots the live runs published.       *)
(*                                                                         *)
(* A run's import key is SHA-256 over importer, schema version and content *)
(* digest; with importer and schema version fixed it is the content        *)
(* itself, so `content' stands for both.  A snapshot is one-to-one with    *)
(* the run that wrote it and is named by it.                               *)
(*                                                                         *)
(* Every definition is one database statement or one committed             *)
(* transaction; the modules that EXTEND this one put them in order.        *)
(***************************************************************************)
EXTENDS Naturals, FiniteSets

CONSTANTS
    Content,    \* content identities (SHA-256 digests) the source may carry
    NoContent,  \* no content
    RunId       \* primary keys of import runs, handed out in increasing order

ASSUME NoContentAssumption == NoContent \notin Content
ASSUME RunIdAssumption == RunId \subseteq Nat \ {0}

VARIABLES
    artifacts,  \* Content -> how the content is registered, if it is
    runs,       \* RunId -> the import run with that key
    snapshots   \* RunId -> what became of the snapshot that run wrote

registryVars == <<artifacts, runs, snapshots>>

NoRun == 0

\* A file-backed artifact and a metadata-only external reference are different.
ArtifactKind == {"none", "external", "file"}

\* "absent" is a key not handed out yet; the other four are ImportStatus.
RunStatus == {"absent", "pending", "running", "succeeded", "failed"}

SnapshotState == {"none", "retired", "current"}

AbsentRun == [status |-> "absent", content |-> NoContent, dry_run |-> FALSE]

Run == [status : RunStatus, content : Content \cup {NoContent}, dry_run : BOOLEAN]

RegistryTypeOK ==
    /\ artifacts \in [Content -> ArtifactKind]
    /\ runs \in [RunId -> Run]
    /\ snapshots \in [RunId -> SnapshotState]

RegistryInit ==
    /\ artifacts = [c \in Content |-> "none"]
    /\ runs = [r \in RunId |-> AbsentRun]
    /\ snapshots = [r \in RunId |-> "none"]

-----------------------------------------------------------------------------
(* Reading the registry. *)

ALLOWED_TRANSITIONS ==
    [absent    |-> {"pending"},
     pending   |-> {"running", "failed"},
     running   |-> {"succeeded", "failed"},
     succeeded |-> {},
     failed    |-> {}]

RequireTransition(r, newStatus) == newStatus \in ALLOWED_TRANSITIONS[runs[r].status]

IsTerminal(r) == runs[r].status \in {"succeeded", "failed"}

\* The conditional unique constraint on import_key: only a succeeded, live run
\* takes the key of its content.
LiveSuccess(r) == runs[r].status = "succeeded" /\ ~runs[r].dry_run

\* Mutant of KeyTaken: a dry run takes the key too.
KeyTakenByDryRun(c) == \E r \in RunId : runs[r].status = "succeeded" /\ runs[r].content = c

KeyTaken(c) == \E r \in RunId : LiveSuccess(r) /\ runs[r].content = c

AlreadyPublished(c) == artifacts[c] # "none" /\ KeyTaken(c)

CurrentRuns == {r \in RunId : snapshots[r] = "current"}

\* The snapshot the dashboard shows (.filter(is_current=True).first()).
Current == IF CurrentRuns = {} THEN NoRun ELSE CHOOSE r \in CurrentRuns : TRUE

ContentOf(r) == IF r = NoRun THEN NoContent ELSE runs[r].content

ShownContent == ContentOf(Current)

-----------------------------------------------------------------------------
(* Writing the registry. *)

RegisterArtifact(c, kind) ==
    /\ artifacts[c] = "none"
    /\ artifacts' = [artifacts EXCEPT ![c] = kind]
    /\ UNCHANGED <<runs, snapshots>>

\* The next key of the sequence.
NextRunId(r) ==
    /\ runs[r].status = "absent"
    /\ \A q \in RunId : q < r => runs[q].status # "absent"

BuildImportRun(r, c, dryRun) ==
    /\ NextRunId(r)
    /\ runs' = [runs EXCEPT ![r] = [status  |-> "pending",
                                    content |-> c,
                                    dry_run |-> dryRun]]
    /\ UNCHANGED <<artifacts, snapshots>>

StartImportRun(r) ==
    /\ RequireTransition(r, "running")
    /\ runs' = [runs EXCEPT ![r].status = "running"]
    /\ UNCHANGED <<artifacts, snapshots>>

\* The transition and the unique constraint both have to allow the success;
\* a dry run takes no key.
CompleteImportRun(r) ==
    /\ RequireTransition(r, "succeeded")
    /\ runs[r].dry_run \/ ~KeyTaken(runs[r].content)
    /\ runs' = [runs EXCEPT ![r].status = "succeeded"]

FailImportRun(r) ==
    /\ RequireTransition(r, "failed")
    /\ runs' = [runs EXCEPT ![r].status = "failed"]

\* Re-read the committed row and fail it unless it is terminal already.
FailPublication(r) ==
    /\ IF IsTerminal(r) THEN UNCHANGED runs ELSE FailImportRun(r)
    /\ UNCHANGED <<artifacts, snapshots>>

\* Mutant of PublishCurrent: the previous snapshot is not retired.
PublishBesideCurrent(r, retired) == snapshots' = [snapshots EXCEPT ![r] = "current"]

\* Make the snapshot of r the only current one, retiring those in `retired'.
PublishCurrent(r, retired) ==
    snapshots' = [q \in RunId |-> IF q = r THEN "current"
                                  ELSE IF q \in retired THEN "retired"
                                  ELSE snapshots[q]]
=============================================================================
