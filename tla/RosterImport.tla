---------------------------- MODULE RosterImport ----------------------------
(***************************************************************************)
(* The operator's imports of the member roster: its rows                   *)
(* (apps/membership/register_import.py) and its aggregates                 *)
(* (composition_import.py).  Both follow the same course over tables of    *)
(* the same shape (models/register.py, models/composition.py): a file      *)
(* published before is unchanged; another one needs --supersede-previous   *)
(* to stand the snapshot in force down.                                    *)
(*                                                                         *)
(* Nothing keeps two operators apart: there is no advisory lock, only the  *)
(* row lock of _retire_current and the unique constraints.  A row lock     *)
(* makes the second command wait; it then re-checks the rows it had found  *)
(* and does not see a row that became current in the meantime.             *)
(***************************************************************************)
EXTENDS Naturals, Sequences, FiniteSets

CONSTANTS
    Operators,   \* people running a command
    Kinds,       \* "register" and "composition"
    Exports,     \* the exports: records [name, headed, rows], see Export
    MaxImports   \* bound: commands started

\* One export.  headed: the required columns are there.  A row with an empty
\* name and an empty code is a blank line; an empty code is one not readable.
Export == [name : STRING, headed : BOOLEAN, rows : Seq([name : STRING, code : STRING])]

VARIABLES
    snapshots,   \* per kind: the snapshots in the order of their keys
    succeeded,   \* per kind: names of the files with a successful live run
    op,          \* per operator: the command in progress
    started      \* how many commands were started

rosterVars == <<snapshots, succeeded, op, started>>

NoSnapshot == 0
IdleOperator == [pc |-> "idle"]

RosterInit ==
    /\ snapshots = [k \in Kinds |-> <<>>]
    /\ succeeded = [k \in Kinds |-> {}]
    /\ op = [o \in Operators |-> IdleOperator]
    /\ started = 0

-----------------------------------------------------------------------------
(* Reading the export. *)

IsBlank(row) == row.name = "" /\ row.code = ""

MemberRows(f) == SelectSeq(f.rows, LAMBDA r : ~IsBlank(r))

\* read_register: of several rows with one registration code the first is
\* kept; rows without a readable code are all kept.
ReadRegister(f) ==
    LET read == MemberRows(f)
        Repeats(i) == read[i].code # "" /\ \E j \in 1..(i - 1) : read[j].code = read[i].code
        kept == SelectSeq([i \in DOMAIN read |-> i], LAMBDA i : ~Repeats(i))
    IN  [rows_read |-> Len(read), rows |-> [i \in DOMAIN kept |-> read[kept[i]]]]

\* read_roster counts every row that is not blank, repeated codes included: it
\* does not read the code.
ReadRoster(f) == [rows_read |-> Len(MemberRows(f)), rows |-> MemberRows(f)]

ReadExport(k, f) == IF k = "register" THEN ReadRegister(f) ELSE ReadRoster(f)

\* Both readers refuse a file without the columns and one without a row.
Refused(f) == ~f.headed \/ MemberRows(f) = <<>>

-----------------------------------------------------------------------------
(* The command. *)

OperatorAt(o, pc) == op[o].pc = pc
OperatorGoto(o, pc) == op' = [op EXCEPT ![o].pc = pc]
OperatorReturn(o) == op' = [op EXCEPT ![o] = IdleOperator]

\* Checksum, then _existing_successful_run: a live import of a file published
\* before ends as unchanged, a dry run goes on.
BeginRoster(o, k, f, dry, supersede) ==
    /\ OperatorAt(o, "idle") /\ started < MaxImports
    /\ started' = started + 1
    /\ IF (f.name \in succeeded[k] /\ ~dry) \/ Refused(f)
       THEN op' = op
       ELSE op' = [op EXCEPT ![o] = [pc |-> "run", kind |-> k, file |-> f, dry |-> dry,
                                     supersede |-> supersede, retiring |-> {}]]
    /\ UNCHANGED <<snapshots, succeeded>>

\* The artifact is registered or reused, the run opened; a dry run is complete.
OpenRun(o) ==
    /\ OperatorAt(o, "run")
    /\ IF op[o].dry THEN OperatorReturn(o) ELSE OperatorGoto(o, "select")
    /\ UNCHANGED <<snapshots, succeeded, started>>

CurrentIds(k) == {i \in DOMAIN snapshots[k] : snapshots[k][i].current}

\* _retire_current: the statement finds the current rows ...
SelectCurrent(o) ==
    /\ OperatorAt(o, "select")
    /\ op' = [op EXCEPT ![o].pc = "lock", ![o].retiring = CurrentIds(op[o].kind)]
    /\ UNCHANGED <<snapshots, succeeded, started>>

LockedSnapshots(k) == UNION {op[p].retiring : p \in {q \in Operators : op[q].pc = "write" /\ op[q].kind = k}}

\* ... waits for their locks, drops those that are no longer current, and
\* refuses to go on over a current row without --supersede-previous.
LockRows(o) ==
    LET k == op[o].kind
        still == op[o].retiring \cap CurrentIds(k)
    IN  /\ OperatorAt(o, "lock")
        /\ op[o].retiring \cap LockedSnapshots(k) = {}
        /\ IF still # {} /\ ~op[o].supersede
           THEN OperatorReturn(o)
           ELSE op' = [op EXCEPT ![o].pc = "write", ![o].retiring = still]
        /\ UNCHANGED <<snapshots, succeeded, started>>

\* Fault: the unique constraint on the current snapshot is missing.
FileIsNew(o) ==
    /\ \A i \in DOMAIN snapshots[op[o].kind] : snapshots[op[o].kind][i].file # op[o].file.name
    /\ op[o].file.name \notin succeeded[op[o].kind]

\* One current snapshot per source, one snapshot per file, one successful
\* live run per import key.
RosterConstraintsAllow(o) ==
    /\ CurrentIds(op[o].kind) \subseteq op[o].retiring
    /\ \A i \in DOMAIN snapshots[op[o].kind] : snapshots[op[o].kind][i].file # op[o].file.name
    /\ op[o].file.name \notin succeeded[op[o].kind]

\* A snapshot as the publication that replaces it leaves it.
StoodDown(s, i, retiring, new) ==
    IF i \in retiring THEN [s EXCEPT !.current = FALSE, !.superseded_by = new] ELSE s

\* The snapshot of a file, in force.
NewSnapshot(k, f) ==
    [file |-> f.name, current |-> TRUE, superseded_by |-> NoSnapshot,
     read |-> ReadExport(k, f).rows_read, rows |-> ReadExport(k, f).rows]

\* The rows stand down, the new snapshot is written with its rows, they point
\* to it, and the run is complete: one transaction.
PublishRoster(o) ==
    LET k == op[o].kind
        new == Len(snapshots[k]) + 1
    IN  /\ OperatorAt(o, "write") /\ RosterConstraintsAllow(o)
        /\ snapshots' = [snapshots EXCEPT ![k] =
              Append([i \in DOMAIN @ |-> StoodDown(@[i], i, op[o].retiring, new)],
                     NewSnapshot(k, op[o].file))]
        /\ succeeded' = [succeeded EXCEPT ![k] = @ \cup {op[o].file.name}]
        /\ OperatorReturn(o) /\ UNCHANGED started

\* fail_publication closes the run; nothing was written.
RosterRefused(o) ==
    /\ OperatorAt(o, "write") /\ ~RosterConstraintsAllow(o)
    /\ OperatorReturn(o) /\ UNCHANGED <<snapshots, succeeded, started>>

RosterNext ==
    \E o \in Operators :
        \/ \E k \in Kinds, f \in Exports, dry, supersede \in BOOLEAN : BeginRoster(o, k, f, dry, supersede)
        \/ OpenRun(o) \/ SelectCurrent(o) \/ LockRows(o) \/ PublishRoster(o) \/ RosterRefused(o)

RosterSpec == RosterInit /\ [][RosterNext]_rosterVars

-----------------------------------------------------------------------------
(* Properties. *)

\* However two commands overlap, the snapshots of a source form one line: each
\* is replaced by a later one, every replacement is the one that stands after
\* it, and only the last is in force.  (Nothing published is ever lost, and
\* the page never finds two.)
SnapshotsFormALine ==
    \A k \in Kinds : \A i \in DOMAIN snapshots[k] :
        LET s == snapshots[k][i]
        IN  IF i = Len(snapshots[k])
            THEN s.current /\ s.superseded_by = NoSnapshot
            ELSE ~s.current /\ s.superseded_by = i + 1
=============================================================================
