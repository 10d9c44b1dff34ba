------------------------- MODULE SnapshotRetention --------------------------
(***************************************************************************)
(* Snapshot families, the matchers that pin them and the prune that        *)
(* deletes them (apps/sources/retention.py and prune_snapshots,            *)
(* current_topic_match_sync, archived_topic_match_sync, opinion_match_sync *)
(* of apps/legal_work, event_match_sync of apps/event_programme).          *)
(*                                                                         *)
(* Every match snapshot names the snapshots it was computed from with      *)
(* CASCADE foreign keys, so deleting a retired source deletes the matches  *)
(* over it.  Each matcher and the prune hold a lock of their own, so one   *)
(* of each runs at a time and all of them run concurrently.                *)
(*                                                                         *)
(* Snapshot keys are handed out in creation order; a snapshot is outside   *)
(* the retention window when its key is at most `old'.                     *)
(***************************************************************************)
EXTENDS Naturals, FiniteSets, Sequences, SequencesExt

CONSTANTS
    Modelled,    \* the families of this instance, a subset of the registry
    MaxId,       \* bound: snapshot keys that can be handed out
    MaxSources,  \* bound: snapshots the collectors publish
    MaxPrunes,   \* bound: prune commands run
    MaxFailures, \* bound: family transactions that fail for an outside reason
    Overlap      \* a matcher may commit between the prune's re-check and its
                 \* DELETE, which READ COMMITTED permits

\* The registry's families by their place in it, dependencies first.
POSITION == [legal |-> 1, topic |-> 2, archive |-> 3, catalogue |-> 4, public |-> 5, news |-> 6,
             events |-> 7, programme |-> 8, discovery |-> 9,
             topicMatch |-> 10, archiveMatch |-> 11, opinionMatch |-> 12, eventMatch |-> 13]

\* What each matcher reads, in the order it reads it; these are its pins.
Inputs(m) ==
    CASE m = "topicMatch"   -> <<"legal", "topic">>
      [] m = "archiveMatch" -> <<"legal", "topicMatch", "archive">>
      [] m = "opinionMatch" -> <<"legal", "catalogue", "public">>
      [] m = "eventMatch"   -> <<"programme">>
      [] OTHER              -> <<>>

Matchers == {f \in Modelled : Inputs(f) # <<>>}
Sources == Modelled \ Matchers

Id == 1..MaxId

ASSUME BoundAssumption ==
    /\ Modelled \subseteq DOMAIN POSITION
    /\ {MaxId, MaxSources, MaxPrunes, MaxFailures} \subseteq Nat
    /\ Overlap \in BOOLEAN

NoId == 0

VARIABLES
    snap,     \* Id -> the stored snapshot with that key
    last,     \* the last key handed out
    old,      \* keys up to this one are older than the retention window
    matcher,  \* Matchers -> local state of the running match command
    prune,    \* local state of the running prune command
    spent     \* bounds used: source publications, prunes, failures

vars == <<snap, last, old, matcher, prune, spent>>

\* pins are the foreign keys to other snapshots (CASCADE), cites those among
\* them whose child rows the match's relations PROTECT.
Snapshot == [family : Modelled, current : BOOLEAN,
             pins : SUBSET Id, cites : SUBSET Id]

NoSnapshot == [family |-> "none", current |-> FALSE, pins |-> {}, cites |-> {}]

MatcherState == [pc : {"idle", "read", "decide", "commit"},
                 read : Seq(Id \cup {NoId})]

IdleMatcher == [pc |-> "idle", read |-> <<>>]

\* todo is the families still to delete from; planned their candidates; safe
\* what the re-check of the one whose turn it is left.
PruneState == [pc : {"idle", "recheck", "delete"},
               todo : SUBSET Modelled,
               planned : SUBSET Id,
               safe : SUBSET Id,
               full : BOOLEAN,
               failed : SUBSET Modelled,
               refused : SUBSET Modelled]

IdlePrune == [pc |-> "idle", todo |-> {}, planned |-> {}, safe |-> {},
              full |-> TRUE, failed |-> {}, refused |-> {}]

TypeOK ==
    /\ snap \in [Id -> Snapshot \cup {NoSnapshot}]
    /\ last \in 0..MaxId
    /\ old \in 0..last
    /\ matcher \in [Matchers -> MatcherState]
    /\ prune \in PruneState
    /\ spent \in [sources : 0..MaxSources, prunes : 0..MaxPrunes,
                  failures : 0..MaxFailures]

Init ==
    /\ snap = [s \in Id |-> NoSnapshot]
    /\ last = 0
    /\ old = 0
    /\ matcher = [m \in Matchers |-> IdleMatcher]
    /\ prune = IdlePrune
    /\ spent = [sources |-> 0, prunes |-> 0, failures |-> 0]

-----------------------------------------------------------------------------
(* Reading the tables. *)

Stored == {s \in Id : snap[s] # NoSnapshot}

Of(f) == {s \in Stored : snap[s].family = f}

IsCurrent(s) == s \in Stored /\ snap[s].current

\* .filter(is_current=True).first()
Current(f) == IF \E s \in Of(f) : IsCurrent(s)
              THEN CHOOSE s \in Of(f) : IsCurrent(s)
              ELSE NoId

PinnedBy(S) == UNION {snap[s].pins : s \in S}

Pinning(S) == {s \in Stored : snap[s].pins \cap S # {}}

Recent == {s \in Stored : s > old}

\* Mutant of ProtectedIds: the closure stops after one round.
ProtectedDirectly ==
    LET seed == {s \in Stored : IsCurrent(s)} \cup Recent
    IN  seed \cup PinnedBy(seed)

\* What is current or recent, and what those pin; a match pins sources and at
\* most one other match, so two rounds close the set.
ProtectedIds ==
    LET seed  == {s \in Stored : IsCurrent(s)} \cup Recent
        round == seed \cup PinnedBy(seed)
    IN  round \cup PinnedBy(round)

\* Everything Django's collector deletes with S.
Cascade(S) ==
    LET round == S \cup Pinning(S)
    IN  round \cup Pinning(round)

\* A PROTECT key of a stored match into what would be deleted; unlike RESTRICT
\* it refuses even when the match is deleted by the same call.
ProtectedError(S) == \E s \in Stored : snap[s].cites \cap Cascade(S) # {}

-----------------------------------------------------------------------------
(* Time and the collectors. *)

\* Days pass, and the oldest snapshots leave the retention window (--days is at
\* least 1).  A command takes minutes, so this happens between commands.
TimePasses ==
    /\ old < last
    /\ prune.pc = "idle"
    /\ \A m \in Matchers : matcher[m].pc = "idle"
    /\ old' = old + 1
    /\ UNCHANGED <<snap, last, matcher, prune, spent>>

\* Store a new current snapshot and retire the one before it.
PublishCurrent(f, pins, cites) ==
    /\ last < MaxId
    /\ last' = last + 1
    /\ snap' = [s \in Id |->
          IF s = last + 1
          THEN [family |-> f, current |-> TRUE, pins |-> pins, cites |-> cites]
          ELSE IF s \in Of(f) THEN [snap[s] EXCEPT !.current = FALSE]
          ELSE snap[s]]

\* A collector of a source family publishes (one transaction, see FeedSync and
\* WorkbookFeed).
PublishSource(f) ==
    /\ spent.sources < MaxSources
    /\ spent' = [spent EXCEPT !.sources = @ + 1]
    /\ PublishCurrent(f, {}, {})
    /\ UNCHANGED <<old, matcher, prune>>

-----------------------------------------------------------------------------
(* A match command. *)

MatcherAt(m, label) == matcher[m].pc = label

MatchEnds(m) == matcher' = [matcher EXCEPT ![m] = IdleMatcher]

StartMatch(m) ==
    /\ MatcherAt(m, "idle")
    /\ matcher' = [matcher EXCEPT ![m] = [pc |-> "read", read |-> <<>>]]
    /\ UNCHANGED <<snap, last, old, prune, spent>>

\* A missing input ends the run, except the public corpus, which is optional
\* (and the families this instance leaves out, which nobody publishes);
\* the archive matcher also refuses a current-topic match over another legal
\* snapshot than the one it has read.
InputUsable(m, f, s) ==
    /\ s # NoId \/ f = "public" \/ f \notin Modelled
    /\ (m = "archiveMatch" /\ f = "topicMatch" /\ {"legal", "topicMatch"} \subseteq Modelled)
          => matcher[m].read[1] \in snap[s].pins

\* Each input is a statement of its own.
ReadInput(m) ==
    /\ MatcherAt(m, "read")
    /\ LET f    == Inputs(m)[Len(matcher[m].read) + 1]
           read == Append(matcher[m].read, Current(f))
       IN  IF InputUsable(m, f, Current(f))
           THEN matcher' = [matcher EXCEPT ![m] =
                   [pc |-> IF Len(read) = Len(Inputs(m)) THEN "decide" ELSE "read",
                    read |-> read]]
           ELSE MatchEnds(m)
    /\ UNCHANGED <<snap, last, old, prune, spent>>

PinsRead(m) == ToSet(matcher[m].read) \ {NoId}

\* A stored match over exactly these inputs (the matcher version is fixed).
Twins(m) == {s \in Of(m) : snap[s].pins = PinsRead(m)}

\* Mutant of AlreadyMatched: any match over the same first input will do.
LegalMatched(m) == \E s \in Of(m) : matcher[m].read[1] \in snap[s].pins

\* The consultation matchers look at any stored match, the opinion matcher at
\* the current one, the event matcher does not look.
AlreadyMatched(m) ==
    CASE m = "opinionMatch" -> Current(m) \in Twins(m)
      [] m = "eventMatch"   -> FALSE
      [] OTHER              -> Twins(m) # {}

Decide(m) ==
    /\ MatcherAt(m, "decide")
    /\ IF AlreadyMatched(m)
       THEN MatchEnds(m)
       ELSE matcher' = [matcher EXCEPT ![m].pc = "commit"]
    /\ UNCHANGED <<snap, last, old, prune, spent>>

\* The foreign keys must still resolve, and except for events the inputs are
\* unique per match.
MatchAccepted(m) ==
    /\ PinsRead(m) \subseteq Stored
    /\ m = "eventMatch" \/ Twins(m) = {}

\* The opinion matcher's relations PROTECT the documents they cite.
Citable(m) == IF m = "opinionMatch"
              THEN {s \in PinsRead(m) : snap[s].family \in {"catalogue", "public"}}
              ELSE {}

\* The match transaction: snapshot, rows, retirement of the previous match.
CommitMatch(m) ==
    /\ MatcherAt(m, "commit")
    /\ MatchAccepted(m)
    /\ Overlap \/ prune.pc # "delete"
    /\ \E cites \in SUBSET Citable(m) : PublishCurrent(m, PinsRead(m), cites)
    /\ MatchEnds(m)
    /\ UNCHANGED <<old, prune, spent>>

\* The transaction raises and rolls back.
CommitFails(m) ==
    /\ MatcherAt(m, "commit")
    /\ ~MatchAccepted(m)
    /\ MatchEnds(m)
    /\ UNCHANGED <<snap, last, old, prune, spent>>

\* A dry run, or a match command that dies, stores nothing.
MatchAbandoned(m) ==
    /\ MatcherAt(m, "commit")
    /\ spent.failures < MaxFailures
    /\ spent' = [spent EXCEPT !.failures = @ + 1]
    /\ MatchEnds(m)
    /\ UNCHANGED <<snap, last, old, prune>>

-----------------------------------------------------------------------------
(* The prune command. *)

PlanFamily(f) == {s \in Of(f) : s <= old /\ ~IsCurrent(s) /\ s \notin ProtectedIds}

\* Mutant of DeletedFirst: registry order.
RegisteredFirst(families) ==
    CHOOSE f \in families : \A g \in families : POSITION[f] <= POSITION[g]

\* Reversed order: whatever holds a reference is deleted first.
DeletedFirst(families) ==
    CHOOSE f \in families : \A g \in families : POSITION[g] <= POSITION[f]

\* Plan every family (or the one named by --source) before deleting anything.
BeginPrune(families, full) ==
    /\ prune.pc = "idle"
    /\ spent.prunes < MaxPrunes
    /\ spent' = [spent EXCEPT !.prunes = @ + 1]
    /\ prune' = [IdlePrune EXCEPT
                    !.pc = "recheck",
                    !.todo = families,
                    !.planned = UNION {PlanFamily(f) : f \in families},
                    !.full = full]
    /\ UNCHANGED <<snap, last, old, matcher>>

\* The protection the delete transaction works with, computed anew.
FreshProtection == ProtectedIds

\* The candidates of family f the re-check leaves.
SafeIds(f) == {s \in Of(f) \cap prune.planned :
                  ~IsCurrent(s) /\ s \notin FreshProtection}

\* The family whose turn it is.
Turn == DeletedFirst(prune.todo)

NextFamily == [prune EXCEPT !.pc = "recheck", !.todo = @ \ {Turn}, !.safe = {}]

\* Re-check the protection of the next family inside its transaction.
Recheck ==
    /\ prune.pc = "recheck"
    /\ prune.todo # {}
    /\ LET safe == SafeIds(Turn)
       IN  prune' = IF safe = {} THEN NextFamily
                    ELSE [prune EXCEPT !.pc = "delete", !.safe = safe]
    /\ UNCHANGED <<snap, last, old, matcher, spent>>

\* ... and delete what it left, with everything that cascades.
DeleteFamily ==
    /\ prune.pc = "delete"
    /\ ~ProtectedError(prune.safe)
    /\ LET gone == Cascade(prune.safe)
       IN  snap' = [s \in Id |-> IF s \in gone THEN NoSnapshot ELSE snap[s]]
    /\ prune' = NextFamily
    /\ UNCHANGED <<last, old, matcher, spent>>

\* A PROTECT key refuses: the family is reported failed and the rest goes on.
DeleteRefused ==
    /\ prune.pc = "delete"
    /\ ProtectedError(prune.safe)
    /\ prune' = [NextFamily EXCEPT !.refused = @ \cup {Turn}]
    /\ UNCHANGED <<snap, last, old, matcher, spent>>

\* A family's transaction fails for a reason outside the policy.
DeleteFails ==
    /\ prune.pc = "delete"
    /\ spent.failures < MaxFailures
    /\ spent' = [spent EXCEPT !.failures = @ + 1]
    /\ prune' = [NextFamily EXCEPT !.failed = @ \cup {Turn}]
    /\ UNCHANGED <<snap, last, old, matcher>>

EndPrune ==
    /\ prune.pc = "recheck"
    /\ prune.todo = {}
    /\ prune' = IdlePrune
    /\ UNCHANGED <<snap, last, old, matcher, spent>>

PruneStep == Recheck \/ DeleteFamily \/ DeleteRefused \/ EndPrune

MatchStep(m) == ReadInput(m) \/ Decide(m) \/ CommitMatch(m) \/ CommitFails(m)

Next ==
    \/ TimePasses
    \/ \E f \in Sources : PublishSource(f)
    \/ \E m \in Matchers : StartMatch(m) \/ MatchStep(m) \/ MatchAbandoned(m)
    \/ BeginPrune(Modelled, TRUE)
    \/ \E f \in Modelled : BeginPrune({f}, FALSE)
    \/ PruneStep
    \/ DeleteFails

Spec == Init /\ [][Next]_vars

(***************************************************************************)
(* Fairness: the scheduler starts every matcher every morning, and a       *)
(* command that runs takes its next step.  Nothing is assumed of the       *)
(* collectors, of time, or of the prune being started.                     *)
(***************************************************************************)
Fairness ==
    /\ \A m \in Matchers : WF_vars(StartMatch(m) \/ MatchStep(m))
    /\ WF_vars(PruneStep)

FairSpec == Spec /\ Fairness

-----------------------------------------------------------------------------
(* Properties. *)

\* The foreign keys hold: everything a stored match names is stored (CASCADE on
\* every pin, and the matchers' inserts failing on a deleted input).
PinsResolve ==
    \A s \in Stored :
        /\ snap[s].pins \subseteq Stored
        /\ snap[s].cites \subseteq snap[s].pins

\* The retention decision: whatever is current or inside the window outlives
\* any prune, the ones a CASCADE would reach through their inputs included
\* ("protection is re-evaluated inside each family's transaction, so a matcher
\* that publishes between the plan and the delete cannot lose its inputs").
SurvivalStep == \A s \in Stored : (IsCurrent(s) \/ s > old) => s \in Stored'

RetainedOutlives == [][SurvivalStep]_vars

\* A prune of all the families never meets ProtectedError by itself: a match
\* always goes before the documents it cites (the reversed order of _prune).
PruneIsNotRefused == prune.full /\ prune.failed = {} => prune.refused = {}

\* The foreign keys hold through cascades and deleted inputs, and a whole prune
\* never trips over the PROTECT keys unless an earlier family failed.
PruneIsClean == PinsResolve /\ PruneIsNotRefused

\* The links a viewer is offered come from a match that is current together
\* with everything it was computed from (resolve_topic_links,
\* resolve_archive_links).
Resolves(m) ==
    /\ Current(m) # NoId
    /\ \A s \in snap[Current(m)].pins : IsCurrent(s)

\* Whatever interleaving of collectors, matchers and prunes: once the inputs of
\* a matcher exist and the collectors have finished, its links come back and
\* stay.
InputsExist(m) ==
    \A i \in DOMAIN Inputs(m) : Inputs(m)[i] \in Modelled => Current(Inputs(m)[i]) # NoId

=============================================================================
