----------------------------- MODULE MCWorkbook -----------------------------
(***************************************************************************)
(* WorkbookFeed three times: a scheduled synchronisation racing an         *)
(* unlocked manual import; two scheduled ones that may collapse the feed;  *)
(* and one with a malformed workbook, every option and dry runs.           *)
(***************************************************************************)
EXTENDS WorkbookFeed, TLC

CONSTANTS
    MCContent,  \* contents, named by their row count
    MaxRuns,    \* bound: import runs
    LockedSync  \* the scheduled invocations of the second instance

MCSize == [c \in MCContent |-> c]
MCRunId == 1..MaxRuns

VARIABLE subject

Locked == INSTANCE WorkbookFeed WITH
    Sync <- LockedSync, Manual <- {},
    DryRunOption <- {FALSE}, CollapseOption <- BOOLEAN

Rehearsed == INSTANCE WorkbookFeed WITH
    Manual <- {},
    Content <- MCContent \cup {3}, Malformed <- {3}, Size <- [c \in MCContent \cup {3} |-> c],
    DryRunOption <- BOOLEAN, CollapseOption <- BOOLEAN

WorkbookInit == \/ subject = "race" /\ Init
                \/ subject = "locked" /\ Locked!Init
                \/ subject = "rehearsed" /\ Rehearsed!Init

Race(a) == subject = "race" /\ a /\ UNCHANGED subject

WorkbookNext ==
    \/ Race(Next)
    \/ /\ \/ subject = "locked" /\ Locked!Next
          \/ subject = "rehearsed" /\ Rehearsed!Next
       /\ UNCHANGED subject

\* A running command takes its next step.
WorkbookSpec ==
    /\ WorkbookInit /\ [][WorkbookNext]_<<vars, subject>>
    /\ \A p \in Proc : WF_<<vars, subject>>(Race(Step(p)))

\* Only the scheduled synchronisation and the manual import.
RaceSpec == subject = "race" /\ Init /\ [][Race(Next)]_<<vars, subject>>

\* Every invocation ends: nobody waits for ever on a row lock (WorkbookFeed).
CommandsEnd == \A p \in Proc : []<>(subject = "race" => At(p, "idle"))

\* Among scheduled synchronisations the collapse guard is sound although it runs
\* outside the transaction (WorkbookFeed).
LockedNoCollapse ==
    [][/\ subject = "locked" => Locked!CollapseStep
       /\ subject = "rehearsed" => Rehearsed!CollapseStep]_vars
=============================================================================
