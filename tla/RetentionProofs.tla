--------------------------- MODULE RetentionProofs ----------------------------
(***************************************************************************)
(* Proofs about what is kept: the snapshots and the documents they show.   *)
(*                                                                         *)
(* SnapshotRetention, for any set of families, any number of snapshots and *)
(* any bounds: the keys between snapshots resolve, and, as long as no      *)
(* match commits between a prune's re-check and its DELETE, nothing        *)
(* current or recent is deleted and a whole prune is not refused.          *)
(*                                                                         *)
(* OpinionCorpus, for every inbox, site, budget and number of versions.    *)
(* The builder and the crawler hold different advisory locks and write one *)
(* store. A published snapshot can be served because a file is written     *)
(* before its row and a row before its text, nothing is ever taken out of  *)
(* the store, and what a run believes to be there is there - although the  *)
(* other run may have put it there, or may make this one fail.             *)
(***************************************************************************)
EXTENDS SnapshotRetention, OpinionCorpus, WellFoundedInduction, TLAPS

-----------------------------------------------------------------------------
(* The snapshots: the inductive invariant. *)

\* How far a family stands from the sources: a match pins only what is nearer.
Level(f) == IF f = "archiveMatch" THEN 2
            ELSE IF f \in {"topicMatch", "opinionMatch", "eventMatch"} THEN 1 ELSE 0

\* Keys are never handed out twice.
KeysAreSpent == \A s \in Stored : s <= last

\* Pins go down the levels, and none leads to an opinion match.
PinsGoDown ==
    \A s \in Stored : \A t \in snap[s].pins :
        Level(snap[t].family) < Level(snap[s].family) /\ snap[t].family # "opinionMatch"

\* Only opinion matches cite, and only documents.
CitesAreDocuments ==
    \A s \in Stored : \A c \in snap[s].cites :
        snap[s].family = "opinionMatch" /\ snap[c].family \in {"catalogue", "public"}

\* What a matcher has read is a snapshot of the input it was read for, as long
\* as it is there.
ReadsAreInputs ==
    \A m \in Matchers :
        /\ matcher[m].pc = "read" => Len(matcher[m].read) < Len(Inputs(m))
        /\ Len(matcher[m].read) <= Len(Inputs(m))
        /\ \A i \in DOMAIN matcher[m].read :
              /\ matcher[m].read[i] <= last
              /\ matcher[m].read[i] \in Stored
                    => snap[matcher[m].read[i]].family = Inputs(m)[i]

StructInv == KeysAreSpent /\ PinsResolve /\ PinsGoDown /\ CitesAreDocuments /\ ReadsAreInputs

\* What is planned is old and retired, and stays so.
PlannedIsRetired ==
    \A s \in prune.planned : s <= old /\ (s \in Stored => ~snap[s].current)

\* A family's transaction is open only while the family has its turn.
HasTurn == prune.pc = "delete" => prune.todo # {}

\* What the re-check left is of the family whose turn it is, and deleting it
\* reaches nothing that is current or recent.
SafeIsSafe ==
    prune.pc = "delete" =>
        /\ prune.safe \subseteq prune.planned \cap Of(Turn)
        /\ \A s \in Stored : snap[s].current \/ s > old => s \notin Cascade(prune.safe)

\* A whole prune without a failure: the old matches that cite a planned document
\* are planned too, and gone once the turn of their family is over.
CitersGoFirst ==
    prune.full /\ prune.failed = {} =>
        /\ \A s \in Stored : snap[s].cites \cap prune.planned # {} /\ s <= old => s \in prune.planned
        /\ \A s \in prune.planned \cap Of("opinionMatch") :
              /\ "opinionMatch" \in prune.todo
              /\ prune.pc = "delete" /\ Turn = "opinionMatch" => s \in prune.safe

PruneInv ==
    /\ prune.pc = "idle" => prune = IdlePrune
    /\ PlannedIsRetired /\ SafeIsSafe /\ CitersGoFirst /\ PruneIsNotRefused


-----------------------------------------------------------------------------
(* Reading the tables. *)

\* What .first() returns is a stored current snapshot of the family, if anything.
LEMMA CurrentIsOf ==
  ASSUME NEW f
  PROVE  Current(f) = NoId \/ Current(f) \in Of(f)
  BY DEF Current

LEMMA CurrentIsId ==
  ASSUME NEW f
  PROVE  Current(f) \in Id \cup {NoId}
  BY CurrentIsOf DEF Of, Stored

\* A stored snapshot is a record of a modelled family.
LEMMA StoredIsSnapshot ==
  ASSUME TypeOK, NEW s \in Stored
  PROVE  s \in Id /\ snap[s] \in Snapshot
  BY DEF TypeOK, Stored

LEMMA LevelBounds ==
  ASSUME NEW f
  PROVE  Level(f) \in {0, 1, 2}
  BY DEF Level

\* Whoever pins what a cascade reaches is reached by it.
LEMMA CascadeClosed ==
  ASSUME TypeOK, PinsResolve, PinsGoDown, NEW S
  PROVE  Pinning(Cascade(S)) \subseteq Cascade(S)
<1> DEFINE round == S \cup Pinning(S)
<1>1. Cascade(S) = round \cup Pinning(round)
  BY DEF Cascade
<1> SUFFICES ASSUME NEW t \in Stored, NEW u \in snap[t].pins, u \in Cascade(S)
             PROVE  t \in Cascade(S)
  BY DEF Pinning
<1>2. CASE u \in round
  BY <1>1, <1>2 DEF Pinning
<1>3. CASE u \in Pinning(round)
  <2>1. PICK v \in snap[u].pins : u \in Stored /\ v \in round
    BY <1>3 DEF Pinning
  <2>2. CASE v \in S
    BY <2>1, <2>2, <1>2 DEF Pinning
  <2>3. CASE v \in Pinning(S)
    <3>1. PICK w \in snap[v].pins : v \in Stored /\ w \in S
      BY <2>3 DEF Pinning
    <3>2. /\ Level(snap[u].family) < Level(snap[t].family)
          /\ Level(snap[v].family) < Level(snap[u].family)
          /\ Level(snap[w].family) < Level(snap[v].family)
      BY <2>1, <3>1 DEF PinsGoDown
    <3>3. FALSE
      BY <3>2, LevelBounds, Z3
    <3> QED BY <3>3
  <2> QED BY <2>1, <2>2, <2>3
<1> QED BY <1>1, <1>2, <1>3

\* A whole prune's turn is the family registered last among those to do.
\* A set of numbers has a least one.
LEMMA NatHasLeast ==
  ASSUME NEW S, S \subseteq Nat, S # {}
  PROVE  \E x \in S : \A y \in S : x <= y
<1>1. IsWellFoundedOn(OpToRel(<, Nat), Nat)
  BY NatLessThanWellFounded, Zenon
<1>2. \E x \in S : \A y \in S : ~(<<y, x>> \in OpToRel(<, Nat))
  BY <1>1, WFMin, Zenon
<1>3. PICK x \in S : \A y \in S : ~(<<y, x>> \in OpToRel(<, Nat))
  BY <1>2
<1>4. \A y \in S : ~(y < x)
  BY <1>3, Zenon DEF OpToRel
<1> QED BY <1>4

\* The turn is the family registered last among those to do.
LEMMA TurnIsLast ==
  ASSUME BoundAssumption, NEW F \in SUBSET Modelled, F # {}
  PROVE  /\ DeletedFirst(F) \in F
         /\ \A g \in F : POSITION[g] <= POSITION[DeletedFirst(F)]
<1>1. \A g \in F : POSITION[g] \in 1..13
  BY DEF BoundAssumption, POSITION
<1> DEFINE Back == {13 - POSITION[g] : g \in F}
<1>2. Back \subseteq Nat /\ Back # {}
  BY <1>1
<1>3. PICK k \in Back : \A j \in Back : k <= j
  BY <1>2, NatHasLeast
<1>4. PICK f \in F : k = 13 - POSITION[f]
  OBVIOUS
<1>5. ASSUME NEW g \in F PROVE POSITION[g] <= POSITION[f]
  <2>1. 13 - POSITION[g] \in Back
    OBVIOUS
  <2>2. 13 - POSITION[f] <= 13 - POSITION[g]
    BY <2>1, <1>3, <1>4
  <2>3. POSITION[g] \in 1..13 /\ POSITION[f] \in 1..13
    BY <1>1
  <2> QED BY <2>2, <2>3
<1> QED BY <1>5 DEF DeletedFirst

-----------------------------------------------------------------------------
(* Types. *)

LEMMA PinsReadAreIds ==
  ASSUME TypeOK, NEW m \in Matchers
  PROVE  PinsRead(m) \subseteq Id
<1>1. matcher[m].read \in Seq(Id \cup {NoId})
  BY DEF TypeOK, MatcherState
<1>2. \A i \in DOMAIN matcher[m].read : matcher[m].read[i] \in Id \cup {NoId}
  BY <1>1
<1> QED BY <1>2 DEF PinsRead, ToSet

LEMMA PublishType ==
  ASSUME TypeOK, BoundAssumption, NEW f \in Modelled, NEW pins \in SUBSET Id, NEW cites \in SUBSET Id,
         PublishCurrent(f, pins, cites)
  PROVE  snap' \in [Id -> Snapshot \cup {NoSnapshot}] /\ last' \in 0..MaxId /\ old \in 0..last'
<1>1. ASSUME NEW s \in Stored
      PROVE  [snap[s] EXCEPT !.current = FALSE] \in Snapshot
  BY StoredIsSnapshot DEF Snapshot
<1>2. [family |-> f, current |-> TRUE, pins |-> pins, cites |-> cites] \in Snapshot
  BY DEF Snapshot
<1>3. \A s \in Id : snap[s] \in Snapshot \cup {NoSnapshot}
  BY DEF TypeOK
<1>4. snap' \in [Id -> Snapshot \cup {NoSnapshot}]
  BY <1>1, <1>2, <1>3 DEF PublishCurrent, Of
<1>5. last' \in 0..MaxId /\ old \in 0..last'
  BY DEF PublishCurrent, TypeOK, BoundAssumption
<1> QED BY <1>4, <1>5

LEMMA NextFamilyType ==
  ASSUME TypeOK
  PROVE  NextFamily \in PruneState
  BY DEF TypeOK, NextFamily, PruneState

LEMMA TurnStep ==
  ASSUME TypeOK, HasTurn, [Next]_vars
  PROVE  HasTurn'
<1> USE DEF HasTurn
<1>1. CASE UNCHANGED prune
  BY <1>1
<1>2. CASE Recheck
  BY <1>2 DEF Recheck, NextFamily
<1>3. CASE DeleteFamily \/ DeleteRefused \/ DeleteFails \/ EndPrune
  <2>1. NextFamily.pc = "recheck" /\ IdlePrune.pc = "idle"
    BY DEF NextFamily, IdlePrune, TypeOK, PruneState
  <2> DEFINE n == NextFamily
  <2>2. n \in PruneState /\ n.pc = "recheck"
    BY <2>1, NextFamilyType
  <2>3. \/ prune' = n \/ prune' = IdlePrune
        \/ prune' = [n EXCEPT !.refused = @ \cup {Turn}]
        \/ prune' = [n EXCEPT !.failed = @ \cup {Turn}]
    BY <1>3 DEF DeleteFamily, DeleteRefused, DeleteFails, EndPrune
  <2> HIDE DEF n
  <2>4. prune'.pc # "delete"
    BY <2>1, <2>2, <2>3 DEF PruneState
  <2> QED BY <2>4
<1>4. ASSUME NEW F, NEW full, BeginPrune(F, full) PROVE HasTurn'
  BY <1>4 DEF BeginPrune, IdlePrune
<1>5. CASE \E f \in Sources : PublishSource(f)
  BY <1>1, <1>5 DEF PublishSource
<1>6. CASE \E m \in Matchers : StartMatch(m) \/ MatchStep(m) \/ MatchAbandoned(m)
  BY <1>1, <1>6 DEF StartMatch, MatchStep, ReadInput, Decide, CommitMatch, CommitFails, MatchAbandoned
<1>7. CASE TimePasses \/ UNCHANGED vars
  BY <1>1, <1>7 DEF TimePasses, vars
<1> QED BY <1>2, <1>3, <1>4, <1>5, <1>6, <1>7 DEF Next, PruneStep

LEMMA TypeStep ==
  ASSUME TypeOK, HasTurn, BoundAssumption, [Next]_vars
  PROVE  TypeOK'
<1>0. prune.pc = "delete" => Turn \in Modelled
  BY TurnIsLast DEF HasTurn, Turn, TypeOK, PruneState
<1>1. CASE TimePasses
  BY <1>1 DEF TimePasses, TypeOK
<1>2. ASSUME NEW f \in Sources, PublishSource(f) PROVE TypeOK'
  <2>1. PublishCurrent(f, {}, {}) /\ f \in Modelled
    BY <1>2 DEF PublishSource, Sources
  <2>2. spent' \in [sources : 0..MaxSources, prunes : 0..MaxPrunes, failures : 0..MaxFailures]
    BY <1>2 DEF PublishSource, TypeOK, BoundAssumption
  <2>3. UNCHANGED <<old, matcher, prune>>
    BY <1>2 DEF PublishSource
  <2> QED BY <2>1, <2>2, <2>3, PublishType DEF TypeOK
<1>3. ASSUME NEW m \in Matchers, StartMatch(m) PROVE TypeOK'
  BY <1>3 DEF StartMatch, TypeOK, MatcherState
<1>4. ASSUME NEW m \in Matchers, MatchEnds(m) PROVE matcher' \in [Matchers -> MatcherState]
  BY <1>4 DEF MatchEnds, TypeOK, MatcherState, IdleMatcher
<1>5. ASSUME NEW m \in Matchers, ReadInput(m) PROVE TypeOK'
  <2> DEFINE f    == Inputs(m)[Len(matcher[m].read) + 1]
             read == Append(matcher[m].read, Current(f))
  <2>1. matcher[m].read \in Seq(Id \cup {NoId})
    BY DEF TypeOK, MatcherState
  <2>2. read \in Seq(Id \cup {NoId})
    BY <2>1, CurrentIsId
  <2>3. CASE InputUsable(m, f, Current(f))
    <3>1. matcher' = [matcher EXCEPT ![m] =
                   [pc |-> IF Len(read) = Len(Inputs(m)) THEN "decide" ELSE "read",
                    read |-> read]]
      BY <1>5, <2>3 DEF ReadInput
    <3>2. [pc |-> IF Len(read) = Len(Inputs(m)) THEN "decide" ELSE "read", read |-> read]
            \in MatcherState
      BY <2>2 DEF MatcherState
    <3> HIDE DEF read, f
    <3>3. matcher' \in [Matchers -> MatcherState]
      BY <3>1, <3>2 DEF TypeOK
    <3> QED BY <1>5, <3>3 DEF ReadInput, TypeOK
  <2>4. CASE ~InputUsable(m, f, Current(f))
    BY <1>5, <2>4, <1>4 DEF ReadInput, TypeOK
  <2> QED BY <2>3, <2>4
<1>6. ASSUME NEW m \in Matchers, Decide(m) PROVE TypeOK'
  <2>1. CASE AlreadyMatched(m)
    BY <1>6, <2>1, <1>4 DEF Decide, TypeOK
  <2>2. CASE ~AlreadyMatched(m)
    <3>1. matcher' = [matcher EXCEPT ![m].pc = "commit"]
      BY <1>6, <2>2 DEF Decide
    <3>2. [matcher[m] EXCEPT !.pc = "commit"] \in MatcherState
      BY DEF TypeOK, MatcherState
    <3>3. matcher' \in [Matchers -> MatcherState]
      BY <3>1, <3>2 DEF TypeOK
    <3> QED BY <1>6, <3>3 DEF Decide, TypeOK
  <2> QED BY <2>1, <2>2
<1>7. ASSUME NEW m \in Matchers, CommitMatch(m) PROVE TypeOK'
  <2>1. PICK cites \in SUBSET Citable(m) : PublishCurrent(m, PinsRead(m), cites)
    BY <1>7 DEF CommitMatch
  <2>2. cites \in SUBSET Id
    BY <2>1, PinsReadAreIds DEF Citable
  <2>3. m \in Modelled
    BY DEF Matchers
  <2>4. snap' \in [Id -> Snapshot \cup {NoSnapshot}] /\ last' \in 0..MaxId /\ old \in 0..last'
    BY <2>1, <2>2, <2>3, PinsReadAreIds, PublishType
  <2> QED BY <1>7, <1>4, <2>4 DEF CommitMatch, TypeOK
<1>8. ASSUME NEW m \in Matchers, CommitFails(m) \/ MatchAbandoned(m) PROVE TypeOK'
  <2>1. matcher' \in [Matchers -> MatcherState]
    BY <1>8, <1>4 DEF CommitFails, MatchAbandoned
  <2> QED BY <1>8, <2>1 DEF CommitFails, MatchAbandoned, TypeOK, BoundAssumption
<1>9. ASSUME NEW F \in SUBSET Modelled, NEW full \in BOOLEAN, BeginPrune(F, full) PROVE TypeOK'
  <2> DEFINE P == UNION {PlanFamily(f) : f \in F}
  <2>1. P \subseteq Id
    BY DEF PlanFamily, Of, Stored
  <2>2. prune' = [IdlePrune EXCEPT !.pc = "recheck", !.todo = F, !.planned = P, !.full = full]
    BY <1>9 DEF BeginPrune
  <2> HIDE DEF P
  <2>3. prune' \in PruneState
    BY <2>1, <2>2 DEF PruneState, IdlePrune
  <2> QED BY <1>9, <2>3 DEF BeginPrune, TypeOK, BoundAssumption
<1>10. CASE Recheck
  <2>1. SafeIds(Turn) \subseteq Id
    BY DEF SafeIds, Of, Stored
  <2>2. prune' = NextFamily \/ prune' = [prune EXCEPT !.pc = "delete", !.safe = SafeIds(Turn)]
    BY <1>10 DEF Recheck
  <2>3. prune' \in PruneState
    BY <2>1, <2>2, NextFamilyType DEF TypeOK, PruneState
  <2> QED BY <1>10, <2>3 DEF Recheck, TypeOK
<1>11. CASE DeleteFamily
  <2>1. snap' \in [Id -> Snapshot \cup {NoSnapshot}]
    BY <1>11 DEF DeleteFamily, TypeOK
  <2> QED BY <1>11, <2>1, NextFamilyType DEF DeleteFamily, TypeOK
<1>12. CASE DeleteRefused \/ DeleteFails
  <2> DEFINE n == NextFamily
  <2>1. n \in PruneState
    BY NextFamilyType
  <2>2. \/ prune' = [n EXCEPT !.refused = @ \cup {Turn}]
        \/ prune' = [n EXCEPT !.failed = @ \cup {Turn}]
    BY <1>12 DEF DeleteRefused, DeleteFails
  <2>3. Turn \in Modelled
    BY <1>0, <1>12 DEF DeleteRefused, DeleteFails
  <2> HIDE DEF n
  <2>4. prune' \in PruneState
    BY <2>1, <2>2, <2>3 DEF PruneState
  <2> QED BY <1>12, <2>4 DEF DeleteRefused, DeleteFails, TypeOK, BoundAssumption
<1>13. CASE EndPrune
  BY <1>13 DEF EndPrune, TypeOK, PruneState, IdlePrune
<1>14. CASE UNCHANGED vars
  BY <1>14 DEF vars, TypeOK
<1> QED
  BY <1>1, <1>2, <1>3, <1>5, <1>6, <1>7, <1>8, <1>9, <1>10, <1>11, <1>12, <1>13, <1>14
     DEF Next, MatchStep, PruneStep

-----------------------------------------------------------------------------
(* The structure of the tables: keys, pins, cites and what a matcher has     *)
(* read.                                                                     *)

\* Publishing stores one snapshot under a new key and touches nothing of the
\* others but their being current.
LEMMA PublishEffect ==
  ASSUME TypeOK, BoundAssumption, KeysAreSpent, NEW f \in Modelled, NEW pins, NEW cites,
         PublishCurrent(f, pins, cites)
  PROVE  /\ last + 1 \in Id /\ last + 1 \notin Stored /\ last' = last + 1
         /\ Stored' = Stored \cup {last + 1}
         /\ snap'[last + 1] = [family |-> f, current |-> TRUE, pins |-> pins, cites |-> cites]
         /\ \A s \in Stored : /\ snap'[s].family = snap[s].family
                              /\ snap'[s].pins = snap[s].pins
                              /\ snap'[s].cites = snap[s].cites
                              /\ snap'[s].current => snap[s].current
<1> DEFINE n == last + 1
<1>1. n \in Id /\ n \notin Stored /\ last' = n /\ last \in Nat
  BY DEF TypeOK, BoundAssumption, PublishCurrent, Id, KeysAreSpent
<1>2. snap' = [s \in Id |->
          IF s = n THEN [family |-> f, current |-> TRUE, pins |-> pins, cites |-> cites]
          ELSE IF s \in Of(f) THEN [snap[s] EXCEPT !.current = FALSE]
          ELSE snap[s]]
  BY DEF PublishCurrent
<1> HIDE DEF n
<1>3. snap'[n] = [family |-> f, current |-> TRUE, pins |-> pins, cites |-> cites]
  BY <1>1, <1>2
<1>4. f # "none"
  BY DEF BoundAssumption, POSITION
<1>5. snap'[n] # NoSnapshot
  BY <1>3, <1>4 DEF NoSnapshot
<1>6. ASSUME NEW s \in Stored
      PROVE  /\ snap'[s] # NoSnapshot
             /\ snap'[s].family = snap[s].family
             /\ snap'[s].pins = snap[s].pins
             /\ snap'[s].cites = snap[s].cites
             /\ snap'[s].current => snap[s].current
  <2>1. s \in Id /\ snap[s] \in Snapshot /\ s # n
    BY StoredIsSnapshot, <1>1
  <2>2. snap'[s] = snap[s] \/ snap'[s] = [snap[s] EXCEPT !.current = FALSE]
    BY <2>1, <1>2
  <2>3. snap[s].family # "none"
    BY <2>1 DEF Snapshot, BoundAssumption, POSITION
  <2> DEFINE r == snap[s]
  <2>4. r \in Snapshot /\ r.family # "none"
    BY <2>1, <2>3
  <2>5. snap'[s] = r \/ snap'[s] = [r EXCEPT !.current = FALSE]
    BY <2>2
  <2> HIDE DEF r
  <2>6. /\ snap'[s].family = r.family /\ snap'[s].pins = r.pins
        /\ snap'[s].cites = r.cites /\ (snap'[s].current => r.current)
    BY <2>4, <2>5 DEF Snapshot
  <2>7. snap'[s].family # "none"
    BY <2>4, <2>6
  <2>8. snap'[s] # NoSnapshot
    BY <2>7 DEF NoSnapshot
  <2>9. r = snap[s]
    BY DEF r
  <2> QED BY <2>6, <2>8, <2>9
<1>7. ASSUME NEW s \in Id, s \notin Stored, s # n
      PROVE  snap'[s] = NoSnapshot
  BY <1>2, <1>7 DEF Of, Stored
<1>8. Stored' = Stored \cup {n}
  BY <1>1, <1>5, <1>6, <1>7 DEF Stored
<1> QED BY <1>1, <1>3, <1>6, <1>8 DEF n

\* A delete leaves the others as they are.
LEMMA DeleteEffect ==
  ASSUME DeleteFamily
  PROVE  /\ Stored' = Stored \ Cascade(prune.safe)
         /\ \A s \in Stored' : snap'[s] = snap[s]
<1> DEFINE gone == Cascade(prune.safe)
<1>1. snap' = [s \in Id |-> IF s \in gone THEN NoSnapshot ELSE snap[s]]
  BY DEF DeleteFamily
<1> HIDE DEF gone
<1>2. Stored' = Stored \ gone
  BY <1>1 DEF Stored
<1>3. \A s \in Stored' : snap'[s] = snap[s]
  BY <1>1 DEF Stored
<1> QED BY <1>2, <1>3 DEF gone

\* The inputs of a matcher stand below it, and no opinion match is one.
LEMMA InputsGoDown ==
  ASSUME NEW m, NEW i \in DOMAIN Inputs(m)
  PROVE  Level(Inputs(m)[i]) < Level(m) /\ Inputs(m)[i] # "opinionMatch"
  BY DEF Inputs, Level

LEMMA InputsAreSequences ==
  ASSUME NEW m
  PROVE  Len(Inputs(m)) \in Nat /\ DOMAIN Inputs(m) = 1..Len(Inputs(m))
<1>1. CASE m = "topicMatch"
  BY <1>1 DEF Inputs
<1>2. CASE m = "archiveMatch"
  BY <1>2 DEF Inputs
<1>5. CASE m = "opinionMatch"
  BY <1>5 DEF Inputs
<1>3. CASE m = "eventMatch"
  BY <1>3 DEF Inputs
<1>4. CASE m \notin {"topicMatch", "archiveMatch", "opinionMatch", "eventMatch"}
  BY <1>4 DEF Inputs
<1> QED BY <1>1, <1>2, <1>3, <1>4, <1>5

\* The structure depends on the tables and on the matchers alone.
LEMMA StructFrame ==
  ASSUME StructInv, UNCHANGED <<snap, last, matcher>>
  PROVE  StructInv'
  BY DEF StructInv, KeysAreSpent, PinsResolve, PinsGoDown, CitesAreDocuments, ReadsAreInputs, Stored

\* Publishing keeps the tables in order when the new pins resolve and go down.
LEMMA PublishKeepsTables ==
  ASSUME TypeOK, BoundAssumption, StructInv, NEW f \in Modelled, NEW pins \in SUBSET Stored,
         NEW cites \in SUBSET pins, PublishCurrent(f, pins, cites),
         \A t \in pins : Level(snap[t].family) < Level(f) /\ snap[t].family # "opinionMatch",
         \A c \in cites : f = "opinionMatch" /\ snap[c].family \in {"catalogue", "public"}
  PROVE  (KeysAreSpent /\ PinsResolve /\ PinsGoDown /\ CitesAreDocuments)'
<1> DEFINE n == last + 1
<1>1. /\ n \notin Stored /\ last' = n /\ last \in Nat
      /\ Stored' = Stored \cup {n}
      /\ snap'[n] = [family |-> f, current |-> TRUE, pins |-> pins, cites |-> cites]
      /\ \A s \in Stored : /\ snap'[s].family = snap[s].family
                           /\ snap'[s].pins = snap[s].pins
                           /\ snap'[s].cites = snap[s].cites
  BY PublishEffect DEF StructInv, TypeOK
<1> HIDE DEF n
<1>2. KeysAreSpent'
  <2>1. \A s \in Stored : s <= last /\ s \in Nat
    BY DEF StructInv, KeysAreSpent, Stored, Id
  <2>2. n = last + 1
    BY DEF n
  <2>3. ASSUME NEW s \in Stored' PROVE s <= last'
    BY <1>1, <2>1, <2>2
  <2> QED BY <2>3 DEF KeysAreSpent
<1>3. /\ snap'[n].family = f /\ snap'[n].pins = pins /\ snap'[n].cites = cites
  BY <1>1
<1>4. PinsResolve'
  BY <1>1, <1>3 DEF StructInv, PinsResolve
<1>5. PinsGoDown'
  <2>1. ASSUME NEW s \in Stored', NEW t \in snap'[s].pins
        PROVE  Level(snap'[t].family) < Level(snap'[s].family) /\ snap'[t].family # "opinionMatch"
    <3>1. CASE s = n
      BY <3>1, <2>1, <1>1, <1>3
    <3>2. CASE s \in Stored
      BY <3>2, <2>1, <1>1 DEF StructInv, PinsResolve, PinsGoDown
    <3> QED BY <3>1, <3>2, <2>1, <1>1
  <2> QED BY <2>1 DEF PinsGoDown, Level
<1>6. CitesAreDocuments'
  <2>1. ASSUME NEW s \in Stored', NEW c \in snap'[s].cites
        PROVE  snap'[s].family = "opinionMatch" /\ snap'[c].family \in {"catalogue", "public"}
    <3>1. CASE s = n
      BY <3>1, <2>1, <1>1, <1>3
    <3>2. CASE s \in Stored
      BY <3>2, <2>1, <1>1 DEF StructInv, PinsResolve, CitesAreDocuments
    <3> QED BY <3>1, <3>2, <2>1, <1>1
  <2> QED BY <2>1 DEF CitesAreDocuments
<1> QED BY <1>2, <1>4, <1>5, <1>6

\* What one matcher has read, as ReadsAreInputs says it of all of them.
ReadIsInput(m) ==
    /\ matcher[m].pc = "read" => Len(matcher[m].read) < Len(Inputs(m))
    /\ Len(matcher[m].read) <= Len(Inputs(m))
    /\ \A i \in DOMAIN matcher[m].read :
          /\ matcher[m].read[i] <= last
          /\ matcher[m].read[i] \in Stored
                => snap[matcher[m].read[i]].family = Inputs(m)[i]

\* A matcher that does not move keeps what it has read: keys are not reused.
LEMMA ReadIsKept ==
  ASSUME TypeOK, BoundAssumption, NEW m \in Matchers, ReadIsInput(m), matcher'[m] = matcher[m],
         last' \in Nat, last <= last',
         \A s \in Stored' : s <= last => s \in Stored /\ snap'[s].family = snap[s].family
  PROVE  ReadIsInput(m)'
<1>1. matcher[m].read \in Seq(Id \cup {NoId})
  BY DEF TypeOK, MatcherState
<1>2. last \in Nat
  BY DEF TypeOK, BoundAssumption
<1>3. ASSUME NEW i \in DOMAIN matcher[m].read
      PROVE  /\ matcher[m].read[i] <= last'
             /\ matcher[m].read[i] \in Stored'
                   => snap'[matcher[m].read[i]].family = Inputs(m)[i]
  <2>1. matcher[m].read[i] \in Nat
    BY <1>1 DEF Id, NoId
  <2>2. matcher[m].read[i] <= last
    BY DEF ReadIsInput
  <2>3. matcher[m].read[i] <= last'
    BY <2>1, <2>2, <1>2
  <2> QED BY <2>2, <2>3 DEF ReadIsInput
<1> QED BY <1>3 DEF ReadIsInput, Inputs

LEMMA IdleReadsNothing ==
  ASSUME NEW m \in Matchers, matcher'[m] = IdleMatcher \/ matcher'[m] = [pc |-> "read", read |-> <<>>]
  PROVE  ReadIsInput(m)'
<1>1. Len(Inputs(m)) \in {1, 2, 3}
  BY DEF Matchers, Inputs
<1>2. matcher'[m].read = <<>>
  BY DEF IdleMatcher
<1> QED BY <1>1, <1>2 DEF ReadIsInput, Inputs

LEMMA StructStep ==
  ASSUME TypeOK, TypeOK', BoundAssumption, StructInv, [Next]_vars
  PROVE  StructInv'
<1>1. \A m \in Matchers : ReadIsInput(m)
  BY DEF StructInv, ReadsAreInputs, ReadIsInput
<1>2. (\A m \in Matchers : ReadIsInput(m)') => ReadsAreInputs'
  BY DEF ReadsAreInputs, ReadIsInput
<1>3. last \in Nat /\ last' \in Nat
  BY DEF TypeOK, BoundAssumption
<1>4. CASE UNCHANGED <<snap, last, matcher>>
  BY <1>4, StructFrame
<1>5. ASSUME NEW m \in Matchers, UNCHANGED <<snap, last>>,
             \A k \in Matchers \ {m} : matcher'[k] = matcher[k], ReadIsInput(m)'
      PROVE  StructInv'
  <2>1. (KeysAreSpent /\ PinsResolve /\ PinsGoDown /\ CitesAreDocuments)'
    BY <1>5 DEF StructInv, KeysAreSpent, PinsResolve, PinsGoDown, CitesAreDocuments, Stored
  <2>2. ASSUME NEW k \in Matchers PROVE ReadIsInput(k)'
    BY <1>1, <1>3, <1>5, ReadIsKept DEF Stored
  <2> QED BY <1>2, <2>1, <2>2 DEF StructInv
<1>6. ASSUME NEW m \in Matchers, MatchEnds(m) \/ StartMatch(m)
      PROVE  ReadIsInput(m)' /\ \A k \in Matchers \ {m} : matcher'[k] = matcher[k]
  <2>1. \/ matcher' = [matcher EXCEPT ![m] = IdleMatcher]
        \/ matcher' = [matcher EXCEPT ![m] = [pc |-> "read", read |-> <<>>]]
    BY <1>6 DEF MatchEnds, StartMatch
  <2>2. \/ matcher'[m] = IdleMatcher
        \/ matcher'[m] = [pc |-> "read", read |-> <<>>]
    BY <2>1 DEF TypeOK
  <2>3. \A k \in Matchers \ {m} : matcher'[k] = matcher[k]
    BY <2>1 DEF TypeOK
  <2> QED BY <2>2, <2>3, IdleReadsNothing
<1>7. ASSUME NEW f \in Sources, PublishSource(f) PROVE StructInv'
  <2>1. PublishCurrent(f, {}, {}) /\ f \in Modelled /\ UNCHANGED matcher
    BY <1>7 DEF PublishSource, Sources
  <2>2. (KeysAreSpent /\ PinsResolve /\ PinsGoDown /\ CitesAreDocuments)'
    BY <2>1, PublishKeepsTables
  <2>3. /\ last' = last + 1 /\ Stored' = Stored \cup {last + 1}
        /\ \A s \in Stored : snap'[s].family = snap[s].family
    BY <2>1, PublishEffect DEF StructInv
  <2>4. \A s \in Stored' : s <= last => s \in Stored /\ snap'[s].family = snap[s].family
    BY <2>3, <1>3
  <2>5. ASSUME NEW k \in Matchers PROVE ReadIsInput(k)'
    BY <1>1, <1>3, <2>1, <2>3, <2>4, ReadIsKept
  <2> QED BY <1>2, <2>2, <2>5 DEF StructInv
<1>8. ASSUME NEW m \in Matchers, StartMatch(m) PROVE StructInv'
  BY <1>5, <1>6, <1>8 DEF StartMatch
<1>9. ASSUME NEW m \in Matchers, ReadInput(m) PROVE StructInv'
  <2> DEFINE r    == matcher[m].read
             f    == Inputs(m)[Len(r) + 1]
             read == Append(r, Current(f))
  <2>1. UNCHANGED <<snap, last>>
    BY <1>9 DEF ReadInput
  <2>2. CASE ~InputUsable(m, f, Current(f))
    BY <1>5, <1>6, <1>9, <2>1, <2>2 DEF ReadInput
  <2>3. CASE InputUsable(m, f, Current(f))
    <3>1. matcher' = [matcher EXCEPT ![m] =
                   [pc |-> IF Len(read) = Len(Inputs(m)) THEN "decide" ELSE "read",
                    read |-> read]]
      BY <1>9, <2>3 DEF ReadInput
    <3>2. r \in Seq(Id \cup {NoId}) /\ Len(r) < Len(Inputs(m))
      BY <1>1, <1>9 DEF TypeOK, MatcherState, ReadInput, MatcherAt, ReadIsInput
    <3>3. /\ Len(read) = Len(r) + 1 /\ DOMAIN read = 1..Len(r) + 1
          /\ \A i \in 1..Len(r) : read[i] = r[i]
          /\ read[Len(r) + 1] = Current(f)
      BY <3>2, CurrentIsId
    <3>4. Len(Inputs(m)) \in Nat
      BY InputsAreSequences
    <3>12. DOMAIN r = 1..Len(r)
      BY <3>2
    <3>5. ASSUME NEW i \in DOMAIN read
          PROVE  read[i] <= last /\ (read[i] \in Stored => snap[read[i]].family = Inputs(m)[i])
      <4>1. CASE i \in 1..Len(r)
        <5>1. r[i] <= last /\ (r[i] \in Stored => snap[r[i]].family = Inputs(m)[i])
          BY <1>1, <3>2, <3>12, <4>1 DEF ReadIsInput
        <5> QED BY <5>1, <3>3, <4>1
      <4>2. CASE i = Len(r) + 1
        <5>1. Current(f) = NoId \/ (Current(f) \in Stored /\ snap[Current(f)].family = f)
          BY CurrentIsOf DEF Of
        <5>2. Current(f) <= last
          BY <5>1, <1>3 DEF StructInv, KeysAreSpent, NoId
        <5>3. NoId \notin Stored
          BY DEF NoId, Stored, Id
        <5> QED BY <5>1, <5>2, <5>3, <3>3, <4>2
      <4> QED BY <4>1, <4>2, <3>2, <3>3
    <3>6. /\ matcher'[m].read = read
          /\ matcher'[m].pc = "read" => Len(read) # Len(Inputs(m))
      BY <3>1 DEF TypeOK
    <3>7. \A k \in Matchers \ {m} : matcher'[k] = matcher[k]
      BY <3>1 DEF TypeOK
    <3>8. Stored' = Stored
      BY <2>1 DEF Stored
    <3>9. Len(r) \in Nat
      BY <3>2
    <3> HIDE DEF read, f
    <3>10. /\ matcher'[m].pc = "read" => Len(read) < Len(Inputs(m))
           /\ Len(read) <= Len(Inputs(m))
      BY <3>2, <3>3, <3>4, <3>6, <3>9
    <3>11. ReadIsInput(m)'
      BY <2>1, <3>5, <3>6, <3>8, <3>10 DEF ReadIsInput, Inputs
    <3> QED BY <1>5, <2>1, <3>7, <3>11
  <2> QED BY <2>2, <2>3
<1>10. ASSUME NEW m \in Matchers, Decide(m) PROVE StructInv'
  <2>1. CASE AlreadyMatched(m)
    BY <1>5, <1>6, <1>10, <2>1 DEF Decide
  <2>2. CASE ~AlreadyMatched(m)
    <3>1. matcher' = [matcher EXCEPT ![m].pc = "commit"] /\ UNCHANGED <<snap, last>>
      BY <1>10, <2>2 DEF Decide
    <3>2. \A k \in Matchers \ {m} : matcher'[k] = matcher[k]
      BY <3>1 DEF TypeOK
    <3>3. matcher'[m].pc = "commit" /\ matcher'[m].read = matcher[m].read
      BY <3>1 DEF TypeOK, MatcherState
    <3>4. ReadIsInput(m)'
      BY <3>1, <3>3, <1>1 DEF ReadIsInput, Inputs, Stored
    <3> QED BY <1>5, <3>1, <3>2, <3>4
  <2> QED BY <2>1, <2>2
<1>11. ASSUME NEW m \in Matchers, CommitMatch(m) PROVE StructInv'
  <2>1. PICK cites \in SUBSET Citable(m) : PublishCurrent(m, PinsRead(m), cites)
    BY <1>11 DEF CommitMatch
  <2>2. PinsRead(m) \in SUBSET Stored /\ cites \in SUBSET PinsRead(m) /\ m \in Modelled
    BY <1>11, <2>1 DEF CommitMatch, MatchAccepted, Citable, Matchers
  <2>3. ASSUME NEW t \in PinsRead(m)
        PROVE  Level(snap[t].family) < Level(m) /\ snap[t].family # "opinionMatch"
    <3>1. matcher[m].read \in Seq(Id \cup {NoId})
      BY DEF TypeOK, MatcherState
    <3>2. PICK i \in DOMAIN matcher[m].read : t = matcher[m].read[i]
      BY DEF PinsRead, ToSet
    <3>3. snap[t].family = Inputs(m)[i]
      BY <1>1, <2>2, <3>2 DEF ReadIsInput
    <3>4. DOMAIN matcher[m].read = 1..Len(matcher[m].read) /\ Len(matcher[m].read) \in Nat
      BY <3>1
    <3>5. DOMAIN Inputs(m) = 1..Len(Inputs(m)) /\ Len(Inputs(m)) \in Nat
      BY InputsAreSequences
    <3>6. Len(matcher[m].read) <= Len(Inputs(m))
      BY <1>1 DEF ReadIsInput
    <3>7. i \in DOMAIN Inputs(m)
      BY <3>2, <3>4, <3>5, <3>6
    <3> QED BY <3>3, <3>7, InputsGoDown
  <2>4. \A c \in cites : m = "opinionMatch" /\ snap[c].family \in {"catalogue", "public"}
    BY <2>1 DEF Citable
  <2>5. (KeysAreSpent /\ PinsResolve /\ PinsGoDown /\ CitesAreDocuments)'
    BY <2>1, <2>2, <2>3, <2>4, PublishKeepsTables
  <2>6. /\ last' = last + 1 /\ Stored' = Stored \cup {last + 1}
        /\ \A s \in Stored : snap'[s].family = snap[s].family
    BY <2>1, <2>2, PublishEffect DEF StructInv
  <2>7. \A s \in Stored' : s <= last => s \in Stored /\ snap'[s].family = snap[s].family
    BY <2>6, <1>3
  <2>8. ReadIsInput(m)' /\ \A k \in Matchers \ {m} : matcher'[k] = matcher[k]
    BY <1>6, <1>11 DEF CommitMatch
  <2>9. ASSUME NEW k \in Matchers PROVE ReadIsInput(k)'
    BY <1>1, <1>3, <2>6, <2>7, <2>8, ReadIsKept
  <2> QED BY <1>2, <2>5, <2>9 DEF StructInv
<1>12. ASSUME NEW m \in Matchers, CommitFails(m) \/ MatchAbandoned(m) PROVE StructInv'
  BY <1>5, <1>6, <1>12 DEF CommitFails, MatchAbandoned
<1>13. CASE DeleteFamily
  <2> DEFINE gone == Cascade(prune.safe)
  <2>1. Stored' = Stored \ gone /\ \A s \in Stored' : snap'[s] = snap[s]
    BY <1>13, DeleteEffect
  <2>2. UNCHANGED <<last, matcher>>
    BY <1>13 DEF DeleteFamily
  <2>3. Pinning(gone) \subseteq gone
    BY <1>13, CascadeClosed DEF StructInv
  <2> HIDE DEF gone
  <2>4. \A s \in Stored' : snap'[s].pins \subseteq Stored'
    BY <2>1, <2>3 DEF StructInv, PinsResolve, Pinning
  <2>5. PinsResolve'
    BY <2>1, <2>4 DEF StructInv, PinsResolve
  <2>6. PinsGoDown'
    <3>1. ASSUME NEW s \in Stored', NEW t \in snap'[s].pins
          PROVE  Level(snap'[t].family) < Level(snap'[s].family) /\ snap'[t].family # "opinionMatch"
      BY <2>1, <2>4, <3>1 DEF StructInv, PinsGoDown
    <3> QED BY <3>1 DEF PinsGoDown, Level
  <2>7. KeysAreSpent' /\ CitesAreDocuments'
    <3>1. KeysAreSpent'
      BY <2>1, <2>2 DEF StructInv, KeysAreSpent
    <3>2. CitesAreDocuments'
      BY <2>1, <2>4, <2>5 DEF StructInv, CitesAreDocuments, PinsResolve
    <3> QED BY <3>1, <3>2
  <2>8. ASSUME NEW k \in Matchers PROVE ReadIsInput(k)'
    BY <1>1, <1>3, <2>1, <2>2, ReadIsKept
  <2> QED BY <1>2, <2>5, <2>6, <2>7, <2>8 DEF StructInv
<1>14. CASE TimePasses \/ Recheck \/ DeleteRefused \/ EndPrune \/ DeleteFails \/ UNCHANGED vars
  BY <1>4, <1>14 DEF TimePasses, Recheck, DeleteRefused, EndPrune, DeleteFails, vars
<1>15. ASSUME NEW F, NEW full, BeginPrune(F, full) PROVE StructInv'
  BY <1>4, <1>15 DEF BeginPrune
<1> QED
  BY <1>7, <1>8, <1>9, <1>10, <1>11, <1>12, <1>13, <1>14, <1>15 DEF Next, MatchStep, PruneStep

-----------------------------------------------------------------------------
(* The prune. *)

\* Nothing current or recent is reached by a cascade from what is unprotected:
\* two rounds of the protection meet two rounds of the cascade.
LEMMA UnprotectedIsUnneeded ==
  ASSUME NEW S, S \cap ProtectedIds = {}, NEW s \in Stored, IsCurrent(s) \/ s > old
  PROVE  s \notin Cascade(S)
<1> DEFINE seed  == {x \in Stored : IsCurrent(x)} \cup Recent
           near  == seed \cup PinnedBy(seed)
           round == S \cup Pinning(S)
<1>1. ProtectedIds = near \cup PinnedBy(near)
  BY DEF ProtectedIds
<1>2. Cascade(S) = round \cup Pinning(round)
  BY DEF Cascade
<1>3. s \in seed
  BY DEF Recent
<1> HIDE DEF seed
<1>4. s \notin S
  BY <1>1, <1>3
<1>5. s \notin Pinning(S)
  BY <1>1, <1>3 DEF Pinning, PinnedBy
<1>6. ASSUME NEW u \in snap[s].pins, u \in Pinning(S) PROVE FALSE
  <2>1. PICK t \in snap[u].pins : t \in S
    BY <1>6 DEF Pinning
  <2>2. u \in near
    BY <1>3, <1>6 DEF PinnedBy
  <2>3. t \in PinnedBy(near)
    BY <2>1, <2>2 DEF PinnedBy
  <2> QED BY <1>1, <2>1, <2>3
<1>7. s \notin Pinning(round)
  BY <1>5, <1>6 DEF Pinning
<1> QED BY <1>2, <1>4, <1>5, <1>7

\* An opinion match that is old and retired is not protected: nothing pins it.
LEMMA OldMatchIsUnprotected ==
  ASSUME PinsResolve, PinsGoDown, NEW s \in Of("opinionMatch"), ~IsCurrent(s), ~(s > old)
  PROVE  s \notin ProtectedIds
<1> DEFINE seed  == {x \in Stored : IsCurrent(x)} \cup Recent
           near  == seed \cup PinnedBy(seed)
<1>1. ProtectedIds = near \cup PinnedBy(near)
  BY DEF ProtectedIds
<1>2. s \in Stored /\ snap[s].family = "opinionMatch"
  BY DEF Of
<1>3. s \notin seed
  BY DEF Recent
<1>4. seed \subseteq Stored
  BY DEF Recent
<1> HIDE DEF seed
<1>5. \A x \in Stored : s \notin snap[x].pins
  BY <1>2 DEF PinsGoDown
<1>6. s \notin near
  BY <1>3, <1>4, <1>5 DEF PinnedBy
<1>8. near \subseteq Stored
  BY <1>4 DEF PinsResolve, PinnedBy
<1>7. ASSUME NEW x \in near, s \in snap[x].pins PROVE FALSE
  BY <1>5, <1>7, <1>8
<1> QED BY <1>1, <1>6, <1>7 DEF PinnedBy

\* A planned document is not cited by a match that has to stay: what refuses a
\* delete would be an old match whose turn has not come.
LEMMA WholePruneIsAccepted ==
  ASSUME TypeOK, BoundAssumption, HasTurn, StructInv, PruneInv,
         prune.pc = "delete", prune.full, prune.failed = {}
  PROVE  ~ProtectedError(prune.safe)
<1>1. SUFFICES ASSUME NEW s \in Stored, NEW c \in snap[s].cites, c \in Cascade(prune.safe)
               PROVE  FALSE
  BY DEF ProtectedError
<1>2. /\ snap[s].family = "opinionMatch" /\ snap[c].family \in {"catalogue", "public"}
      /\ c \in snap[s].pins /\ c \in Stored
  BY DEF StructInv, CitesAreDocuments, PinsResolve
<1>3. \A t \in snap[c].pins : FALSE
  <2>1. Level(snap[c].family) = 0
    BY <1>2 DEF Level
  <2>2. \A t \in snap[c].pins : Level(snap[t].family) < 0
    BY <1>2, <2>1 DEF StructInv, PinsGoDown
  <2> QED BY <2>2, LevelBounds
<1>4. c \in prune.safe
  BY <1>1, <1>3 DEF Cascade, Pinning
<1>5. /\ prune.safe \subseteq prune.planned \cap Of(Turn)
      /\ s \notin Cascade(prune.safe) \/ ~(snap[s].current \/ s > old)
  BY DEF PruneInv, SafeIsSafe
<1>6. s \in Cascade(prune.safe)
  BY <1>2, <1>4 DEF Cascade, Pinning
<1>7. s <= old
  BY <1>5, <1>6 DEF TypeOK, Stored, Id, BoundAssumption
<1>8. s \in prune.planned \cap Of("opinionMatch")
  BY <1>2, <1>4, <1>5, <1>7 DEF PruneInv, CitersGoFirst, Of
<1>9. "opinionMatch" \in prune.todo
  BY <1>8 DEF PruneInv, CitersGoFirst
<1>10. Turn \in {"catalogue", "public"}
  BY <1>2, <1>4, <1>5 DEF Of
<1>11. POSITION["opinionMatch"] <= POSITION[Turn]
  BY <1>9, TurnIsLast DEF TypeOK, PruneState, Turn
<1> QED BY <1>10, <1>11 DEF POSITION

\* The invariant of the prune depends on the tables, the window and the prune.
LEMMA PruneFrame ==
  ASSUME PruneInv, UNCHANGED <<snap, old, prune>>
  PROVE  PruneInv'
<1>1. Turn' = Turn /\ Stored' = Stored /\ Of(Turn)' = Of(Turn) /\ Of("opinionMatch")' = Of("opinionMatch")
  BY DEF Turn, Stored, Of, DeletedFirst, POSITION
<1>2. Cascade(prune.safe)' = Cascade(prune.safe)
  BY DEF Cascade, Pinning, Stored
<1> QED BY <1>1, <1>2 DEF PruneInv, PlannedIsRetired, SafeIsSafe, CitersGoFirst, PruneIsNotRefused, IdlePrune

LEMMA IdlePruneHolds ==
  ASSUME prune' = IdlePrune
  PROVE  PruneInv'
<1>1. /\ prune'.pc = "idle" /\ prune'.planned = {} /\ prune'.refused = {}
  BY DEF IdlePrune
<1> QED BY <1>1 DEF PruneInv, PlannedIsRetired, SafeIsSafe, CitersGoFirst, PruneIsNotRefused, IdlePrune

\* A publication during a prune: the new snapshot is neither planned nor old, and
\* while a family is being deleted from it pins nothing.
LEMMA PublishKeepsPrune ==
  ASSUME TypeOK, BoundAssumption, KeysAreSpent, PruneInv, NEW f \in Modelled, NEW pins, NEW cites,
         PublishCurrent(f, pins, cites), UNCHANGED <<old, prune>>,
         prune.pc = "delete" => pins = {}
  PROVE  PruneInv'
<1> DEFINE n == last + 1
<1>1. /\ n \notin Stored /\ Stored' = Stored \cup {n}
      /\ snap'[n] = [family |-> f, current |-> TRUE, pins |-> pins, cites |-> cites]
      /\ \A s \in Stored : /\ snap'[s].family = snap[s].family
                           /\ snap'[s].pins = snap[s].pins
                           /\ snap'[s].cites = snap[s].cites
                           /\ snap'[s].current => snap[s].current
  BY PublishEffect
<1>2. n \in Nat /\ old \in Nat /\ n > old
  BY DEF TypeOK, BoundAssumption
<1> HIDE DEF n
<1>3. n \notin prune.planned
  BY <1>2 DEF PruneInv, PlannedIsRetired
<1>4. PlannedIsRetired'
  BY <1>1, <1>3 DEF PruneInv, PlannedIsRetired
<1>5. Turn' = Turn
  BY DEF Turn, DeletedFirst, POSITION
<1>6. \A g : Of(g) \subseteq Of(g)' /\ Of(g)' \subseteq Of(g) \cup {n}
  BY <1>1 DEF Of
<1>7. SafeIsSafe'
  <2> SUFFICES ASSUME prune.pc = "delete"
               PROVE  /\ prune.safe \subseteq prune.planned \cap Of(Turn)'
                      /\ \A s \in Stored' : snap'[s].current \/ s > old => s \notin Cascade(prune.safe)'
    BY <1>5 DEF SafeIsSafe
  <2>1. prune.safe \subseteq prune.planned \cap Of(Turn)
    BY DEF PruneInv, SafeIsSafe
  <2>2. prune.safe \subseteq prune.planned \cap Of(Turn)'
    BY <2>1, <1>1, <1>5 DEF Of
  <2>3. snap'[n].pins = {} /\ n \notin prune.safe
    BY <1>1, <1>3, <2>1
  <2>4. ASSUME NEW S PROVE Pinning(S)' = Pinning(S)
    BY <1>1, <2>3 DEF Pinning
  <2>5. Cascade(prune.safe)' = Cascade(prune.safe)
    BY <2>4 DEF Cascade
  <2>6. n \notin Cascade(prune.safe)
    BY <1>1, <2>3 DEF Cascade, Pinning
  <2>7. \A s \in Stored : snap[s].current \/ s > old => s \notin Cascade(prune.safe)
    BY DEF PruneInv, SafeIsSafe
  <2> QED BY <1>1, <2>2, <2>5, <2>6, <2>7
<1>8. CitersGoFirst'
  <2> SUFFICES ASSUME prune.full, prune.failed = {}
               PROVE  /\ \A s \in Stored' : snap'[s].cites \cap prune.planned # {} /\ s <= old
                                                => s \in prune.planned
                      /\ \A s \in prune.planned \cap Of("opinionMatch")' :
                            /\ "opinionMatch" \in prune.todo
                            /\ prune.pc = "delete" /\ Turn = "opinionMatch" => s \in prune.safe
    BY <1>5 DEF CitersGoFirst
  <2>1. prune.planned \cap Of("opinionMatch")' \subseteq prune.planned \cap Of("opinionMatch")
    BY <1>3, <1>6
  <2>2. \A s \in Stored' : s <= old => s \in Stored /\ snap'[s].cites = snap[s].cites
    BY <1>1, <1>2
  <2> QED BY <2>1, <2>2 DEF PruneInv, CitersGoFirst
<1> QED BY <1>4, <1>7, <1>8 DEF PruneInv, PruneIsNotRefused, IdlePrune

\* The next family's turn: nothing is open, and the opinion matches that were
\* planned are gone or still to come.
LEMMA NextFamilyKeepsPrune ==
  ASSUME TypeOK, PruneInv, prune.pc # "idle", prune' = NextFamily, old' = old,
         Stored' \subseteq Stored, \A s \in Stored' : snap'[s] = snap[s],
         prune.full /\ prune.failed = {} /\ Turn = "opinionMatch"
            => prune.planned \cap Of("opinionMatch")' = {}
  PROVE  PruneInv'
<1>1. /\ prune'.pc = "recheck" /\ prune'.todo = prune.todo \ {Turn}
      /\ prune'.planned = prune.planned /\ prune'.full = prune.full
      /\ prune'.failed = prune.failed /\ prune'.refused = prune.refused
  BY DEF NextFamily, TypeOK, PruneState
<1>2. PlannedIsRetired'
  BY <1>1 DEF PruneInv, PlannedIsRetired
<1>3. SafeIsSafe'
  BY <1>1 DEF SafeIsSafe
<1>4. Of("opinionMatch")' \subseteq Of("opinionMatch")
  BY DEF Of
<1>5. CitersGoFirst'
  BY <1>1, <1>4 DEF PruneInv, CitersGoFirst
<1> QED BY <1>1, <1>2, <1>3, <1>5 DEF PruneInv, PruneIsNotRefused

LEMMA PruneInvStep ==
  ASSUME Overlap = FALSE, BoundAssumption, TypeOK, HasTurn, StructInv, PruneInv, [Next]_vars
  PROVE  PruneInv'
<1>1. CASE UNCHANGED <<snap, old, prune>>
  BY <1>1, PruneFrame
<1>2. CASE TimePasses
  BY <1>2, IdlePruneHolds DEF TimePasses, PruneInv
<1>3. ASSUME NEW f \in Sources, PublishSource(f) PROVE PruneInv'
  BY <1>3, PublishKeepsPrune DEF PublishSource, Sources, StructInv
<1>4. ASSUME NEW m \in Matchers, CommitMatch(m) PROVE PruneInv'
  <2>1. PICK cites : PublishCurrent(m, PinsRead(m), cites)
    BY <1>4 DEF CommitMatch
  <2>2. prune.pc # "delete" /\ m \in Modelled /\ UNCHANGED <<old, prune>>
    BY <1>4 DEF CommitMatch, Matchers
  <2> QED BY <2>1, <2>2, PublishKeepsPrune DEF StructInv
<1>5. ASSUME NEW m \in Matchers,
             StartMatch(m) \/ ReadInput(m) \/ Decide(m) \/ CommitFails(m) \/ MatchAbandoned(m)
      PROVE  PruneInv'
  BY <1>1, <1>5 DEF StartMatch, ReadInput, Decide, CommitFails, MatchAbandoned
<1>6. ASSUME NEW F \in SUBSET Modelled, NEW full, full => F = Modelled, BeginPrune(F, full)
      PROVE  PruneInv'
  <2> DEFINE P == UNION {PlanFamily(f) : f \in F}
  <2>1. /\ prune' = [IdlePrune EXCEPT !.pc = "recheck", !.todo = F, !.planned = P, !.full = full]
        /\ UNCHANGED <<snap, old>>
    BY <1>6 DEF BeginPrune
  <2>2. \A s \in P : s \in Stored /\ s <= old /\ ~IsCurrent(s) /\ s \notin ProtectedIds
    BY DEF PlanFamily, Of
  <2>3. ASSUME full, NEW s \in Stored, NEW c \in snap[s].cites, c \in P, s <= old
        PROVE  s \in P
    <3>1. snap[s].family = "opinionMatch" /\ c \in snap[s].pins
      BY DEF StructInv, CitesAreDocuments, PinsResolve
    <3>2. snap[s].family \in F
      BY <1>6, <2>3, StoredIsSnapshot DEF Snapshot
    <3>3. ~IsCurrent(s)
      <4>1. SUFFICES ASSUME IsCurrent(s) PROVE FALSE
        OBVIOUS
      <4>2. c \in ProtectedIds
        BY <3>1, <4>1 DEF ProtectedIds, PinnedBy
      <4> QED BY <2>2, <2>3, <4>2
    <3>4. ~(s > old)
      BY <2>3 DEF TypeOK, BoundAssumption, Stored, Id
    <3>5. s \notin ProtectedIds
      BY <3>1, <3>3, <3>4, OldMatchIsUnprotected DEF StructInv, Of
    <3>6. s \in PlanFamily(snap[s].family)
      BY <2>3, <3>3, <3>5 DEF PlanFamily, Of
    <3> QED BY <3>2, <3>6
  <2>4. full => \A s \in P \cap Of("opinionMatch") : "opinionMatch" \in F
    BY <1>6, StoredIsSnapshot DEF Of, Snapshot
  <2> HIDE DEF P
  <2>5. /\ prune'.pc = "recheck" /\ prune'.todo = F /\ prune'.planned = P /\ prune'.full = full
        /\ prune'.refused = {}
    BY <2>1 DEF IdlePrune
  <2>6. Stored' = Stored /\ Of("opinionMatch")' = Of("opinionMatch")
    BY <2>1 DEF Stored, Of
  <2>7. PlannedIsRetired'
    BY <2>1, <2>2, <2>5, <2>6 DEF PlannedIsRetired, IsCurrent
  <2>8. SafeIsSafe'
    BY <2>5 DEF SafeIsSafe
  <2>9. CitersGoFirst'
    <3>1. full => \A s \in Stored : snap[s].cites \cap P # {} /\ s <= old => s \in P
      BY <2>3
    <3> QED BY <2>1, <2>4, <2>5, <2>6, <3>1 DEF CitersGoFirst
  <2> QED BY <2>5, <2>7, <2>8, <2>9 DEF PruneInv, PruneIsNotRefused
<1>7. CASE Recheck
  <2> DEFINE safe == SafeIds(Turn)
  <2>1. prune.pc = "recheck" /\ prune.todo # {} /\ UNCHANGED <<snap, old>>
    BY <1>7 DEF Recheck
  <2>2. Stored' = Stored /\ \A g : Of(g)' = Of(g)
    BY <2>1 DEF Stored, Of
  <2>3. ASSUME Turn = "opinionMatch", NEW s \in prune.planned \cap Of("opinionMatch")
        PROVE  s \in safe
    <3>1. ~IsCurrent(s) /\ ~(s > old)
      BY DEF PruneInv, PlannedIsRetired, IsCurrent, TypeOK, BoundAssumption, Of, Stored, Id
    <3>2. s \notin FreshProtection
      BY <3>1, OldMatchIsUnprotected DEF StructInv, FreshProtection
    <3> QED BY <2>3, <3>1, <3>2 DEF SafeIds
  <2>4. CASE safe = {}
    <3>1. prune' = NextFamily
      BY <1>7, <2>4 DEF Recheck
    <3>2. Turn = "opinionMatch" => prune.planned \cap Of("opinionMatch")' = {}
      BY <2>2, <2>3, <2>4
    <3> QED BY <2>1, <2>2, <3>1, <3>2, NextFamilyKeepsPrune
  <2>5. CASE safe # {}
    <3>1. prune' = [prune EXCEPT !.pc = "delete", !.safe = safe]
      BY <1>7, <2>5 DEF Recheck
    <3>2. safe \subseteq prune.planned \cap Of(Turn) /\ safe \cap ProtectedIds = {}
      BY DEF SafeIds, FreshProtection
    <3>3. \A s \in Stored : snap[s].current \/ s > old => s \notin Cascade(safe)
      BY <3>2, UnprotectedIsUnneeded DEF IsCurrent
    <3> HIDE DEF safe
    <3>4. /\ prune'.pc = "delete" /\ prune'.safe = safe /\ prune'.todo = prune.todo
          /\ prune'.planned = prune.planned /\ prune'.full = prune.full
          /\ prune'.failed = prune.failed /\ prune'.refused = prune.refused
      BY <3>1 DEF TypeOK, PruneState
    <3>5. Turn' = Turn
      BY <3>4 DEF Turn, DeletedFirst, POSITION
    <3>6. PlannedIsRetired'
      BY <2>1, <2>2, <3>4 DEF PruneInv, PlannedIsRetired
    <3>7. SafeIsSafe'
      <4>1. Cascade(prune.safe)' = Cascade(safe)
        BY <2>1, <2>2, <3>4 DEF Cascade, Pinning
      <4>2. Of(Turn)' = Of(Turn)
        BY <2>1, <2>2, <3>5 DEF Of
      <4> QED BY <2>1, <2>2, <3>2, <3>3, <3>4, <4>1, <4>2 DEF SafeIsSafe
    <3>8. CitersGoFirst'
      BY <2>1, <2>2, <2>3, <3>4, <3>5 DEF PruneInv, CitersGoFirst
    <3> QED BY <3>4, <3>6, <3>7, <3>8 DEF PruneInv, PruneIsNotRefused
  <2> QED BY <2>4, <2>5
<1>8. CASE DeleteFamily
  <2>1. /\ Stored' = Stored \ Cascade(prune.safe)
        /\ \A s \in Stored' : snap'[s] = snap[s]
    BY <1>8, DeleteEffect
  <2>2. prune.pc = "delete" /\ prune' = NextFamily /\ old' = old
    BY <1>8 DEF DeleteFamily
  <2>3. ASSUME prune.full, prune.failed = {}, Turn = "opinionMatch",
               NEW s \in prune.planned \cap Of("opinionMatch")'
        PROVE  FALSE
    <3>1. s \in Of("opinionMatch") /\ s \in Stored'
      BY <2>1 DEF Of
    <3>2. s \in prune.safe
      BY <2>2, <2>3, <3>1 DEF PruneInv, CitersGoFirst
    <3> QED BY <2>1, <3>1, <3>2 DEF Cascade
  <2> QED BY <2>1, <2>2, <2>3, NextFamilyKeepsPrune
<1>9. CASE DeleteRefused \/ DeleteFails
  <2> DEFINE n == NextFamily
  <2>1. /\ n \in PruneState /\ n.pc = "recheck" /\ n.planned = prune.planned /\ n.full = prune.full
        /\ n.failed = prune.failed
    BY NextFamilyType DEF NextFamily, TypeOK, PruneState
  <2>2. \/ prune' = [n EXCEPT !.refused = @ \cup {Turn}] /\ ~(prune.full /\ prune.failed = {})
        \/ prune' = [n EXCEPT !.failed = @ \cup {Turn}]
    BY <1>9, WholePruneIsAccepted DEF DeleteRefused, DeleteFails
  <2>3. UNCHANGED <<snap, old>>
    BY <1>9 DEF DeleteRefused, DeleteFails
  <2> HIDE DEF n
  <2>4. /\ prune'.pc = "recheck" /\ prune'.planned = prune.planned
        /\ ~(prune'.full /\ prune'.failed = {})
    BY <2>1, <2>2 DEF PruneState
  <2>5. PlannedIsRetired'
    BY <2>3, <2>4 DEF PruneInv, PlannedIsRetired, Stored
  <2> QED BY <2>4, <2>5 DEF PruneInv, SafeIsSafe, CitersGoFirst, PruneIsNotRefused
<1>10. CASE EndPrune
  BY <1>10, IdlePruneHolds DEF EndPrune
<1>11. CASE UNCHANGED vars
  BY <1>1, <1>11 DEF vars
<1>12. CASE BeginPrune(Modelled, TRUE) \/ \E f \in Modelled : BeginPrune({f}, FALSE)
  BY <1>6, <1>12
<1> QED
  BY <1>2, <1>3, <1>4, <1>5, <1>7, <1>8, <1>9, <1>10, <1>11, <1>12 DEF Next, MatchStep, PruneStep

-----------------------------------------------------------------------------
(* The theorems. *)

LEMMA InitHolds ==
  ASSUME BoundAssumption, Init
  PROVE  TypeOK /\ HasTurn /\ StructInv /\ PruneInv
<1>1. Stored = {}
  BY DEF Init, Stored
<1>2. TypeOK
  <2>1. IdleMatcher \in MatcherState /\ IdlePrune \in PruneState
    BY DEF IdleMatcher, MatcherState, IdlePrune, PruneState
  <2> QED BY <2>1 DEF Init, TypeOK, BoundAssumption
<1>3. ReadsAreInputs
  <2>1. ASSUME NEW m \in Matchers PROVE ReadIsInput(m)
    <3>1. matcher[m].pc = "idle" /\ matcher[m].read = <<>>
      BY DEF Init, IdleMatcher
    <3> QED BY <3>1, InputsAreSequences DEF ReadIsInput
  <2> QED BY <2>1 DEF ReadsAreInputs, ReadIsInput
<1>4. StructInv
  BY <1>1, <1>3 DEF StructInv, KeysAreSpent, PinsResolve, PinsGoDown, CitesAreDocuments
<1>5. HasTurn /\ PruneInv
  <2>1. prune = IdlePrune /\ prune.pc = "idle" /\ prune.planned = {} /\ prune.refused = {}
    BY DEF Init, IdlePrune
  <2> QED BY <2>1 DEF HasTurn, PruneInv, PlannedIsRetired, SafeIsSafe, CitersGoFirst, PruneIsNotRefused
<1> QED BY <1>2, <1>4, <1>5

\* The tables, the matchers and the prune keep their types, and a family's
\* transaction is open only in its turn.
THEOREM TypeCorrect ==
  ASSUME BoundAssumption
  PROVE  Spec => []TypeOK
<1>1. Init => TypeOK /\ HasTurn
  BY InitHolds
<1>2. TypeOK /\ HasTurn /\ [Next]_vars => TypeOK' /\ HasTurn'
  BY TypeStep, TurnStep
<1> QED BY <1>1, <1>2, PTL DEF Spec

\* The foreign keys between snapshots resolve whatever commits when, a match
\* between a prune's re-check and its DELETE included.
THEOREM KeysResolve ==
  ASSUME BoundAssumption
  PROVE  Spec => []PinsResolve
<1>1. Init => TypeOK /\ HasTurn /\ StructInv
  BY InitHolds
<1>2. TypeOK /\ HasTurn /\ StructInv /\ [Next]_vars => (TypeOK /\ HasTurn /\ StructInv)'
  BY TypeStep, TurnStep, StructStep
<1>3. StructInv => PinsResolve
  BY DEF StructInv
<1> QED BY <1>1, <1>2, <1>3, PTL DEF Spec

LEMMA RetentionInvariant ==
  ASSUME BoundAssumption, Overlap = FALSE
  PROVE  Spec => [](TypeOK /\ HasTurn /\ StructInv /\ PruneInv)
<1>1. Init => TypeOK /\ HasTurn /\ StructInv /\ PruneInv
  BY InitHolds
<1>2. TypeOK /\ HasTurn /\ StructInv /\ PruneInv /\ [Next]_vars
        => (TypeOK /\ HasTurn /\ StructInv /\ PruneInv)'
  BY TypeStep, TurnStep, StructStep, PruneInvStep
<1> QED BY <1>1, <1>2, PTL DEF Spec

\* Where no match commits between re-check and DELETE, a prune of all the
\* families meets no PROTECT key unless an earlier family failed: the reversed
\* order of _prune is enough.
THEOREM PruneStaysClean ==
  ASSUME BoundAssumption, Overlap = FALSE
  PROVE  Spec => []PruneIsClean
<1>1. StructInv /\ PruneInv => PruneIsClean
  BY DEF StructInv, PruneInv, PruneIsClean
<1> QED BY <1>1, RetentionInvariant, PTL

\* ... and no step deletes what is current or inside the window, through however
\* many keys a CASCADE would reach it.
THEOREM RetainedSurvivesPrunes ==
  ASSUME BoundAssumption, Overlap = FALSE
  PROVE  Spec => RetainedOutlives
<1>1. TypeOK /\ StructInv /\ PruneInv /\ [Next]_vars => [SurvivalStep]_vars
  <2> SUFFICES ASSUME TypeOK, StructInv, PruneInv, [Next]_vars PROVE SurvivalStep \/ UNCHANGED vars
    OBVIOUS
  <2>1. ASSUME UNCHANGED snap PROVE SurvivalStep
    BY <2>1 DEF SurvivalStep, Stored
  <2>2. ASSUME NEW f \in Modelled, NEW pins, NEW cites, PublishCurrent(f, pins, cites)
        PROVE  SurvivalStep
    BY <2>2, PublishEffect DEF StructInv, SurvivalStep
  <2>3. CASE DeleteFamily
    BY <2>3, DeleteEffect DEF DeleteFamily, PruneInv, SafeIsSafe, SurvivalStep, IsCurrent
  <2>4. ASSUME NEW f \in Sources, PublishSource(f) PROVE SurvivalStep
    BY <2>2, <2>4 DEF PublishSource, Sources
  <2>5. ASSUME NEW m \in Matchers, CommitMatch(m) PROVE SurvivalStep
    BY <2>2, <2>5 DEF CommitMatch, Matchers
  <2>6. ASSUME NEW m \in Matchers,
               StartMatch(m) \/ ReadInput(m) \/ Decide(m) \/ CommitFails(m) \/ MatchAbandoned(m)
        PROVE  SurvivalStep
    BY <2>1, <2>6 DEF StartMatch, ReadInput, Decide, CommitFails, MatchAbandoned
  <2>7. CASE TimePasses \/ Recheck \/ DeleteRefused \/ EndPrune \/ DeleteFails \/ UNCHANGED vars
    BY <2>1, <2>7 DEF TimePasses, Recheck, DeleteRefused, EndPrune, DeleteFails, vars
  <2>8. ASSUME NEW F, NEW full, BeginPrune(F, full) PROVE SurvivalStep
    BY <2>1, <2>8 DEF BeginPrune
  <2> QED
    BY <2>3, <2>4, <2>5, <2>6, <2>7, <2>8 DEF Next, MatchStep, PruneStep
<1> QED BY <1>1, RetentionInvariant, PTL DEF Spec, RetainedOutlives

-----------------------------------------------------------------------------
(* The documents: the inductive invariant. *)

\* What the two runs rely on: a row has its file, the builder's idea of what is
\* stored and read is never ahead of the store, and the crawler goes on to the
\* text of a letter that has its row.
StoreKeepsUp ==
    /\ rows \subseteq files
    /\ build.blobs \subseteq rows
    /\ \A d \in build.read : <<d, version>> \in texts
    /\ Building("row") => build.doc \in files
    /\ Crawling("row") => crawl.letter[2] \in files
    /\ Crawling("text") \/ Crawling("extract") => crawl.letter[2] \in rows

\* The two runs are at a document while they store it.
Occupied ==
    /\ live # {}
    /\ build.pc \in {"store", "row", "text"} => build.doc \in Doc
    /\ crawl.pc \in {"store", "row", "text", "extract"} => crawl.letter \in Page \X Doc

DraftIsServable == Servable({a[2] : a \in crawl.draft.stored})

CorpusInv == Occupied /\ StoreKeepsUp /\ DraftIsServable /\ PublishedIsServable

-----------------------------------------------------------------------------
(* The least and the greatest document or article. *)

LEMMA MinIsMember ==
  ASSUME NEW S, S \subseteq Nat, S # {}
  PROVE  Min(S) \in S
  BY NatHasLeast DEF Min

LEMMA MaxIsMember ==
  ASSUME NEW n \in Nat, NEW S, S \subseteq 1..n, S # {}
  PROVE  Max(S) \in S
<1> DEFINE T == {n - x : x \in S}
<1>1. T \subseteq Nat /\ T # {}
  <2>1. \A x \in S : n - x \in Nat
    OBVIOUS
  <2> QED
    BY <2>1
<1> HIDE DEF T
<1>2. PICK t \in T : \A u \in T : t <= u
  BY <1>1, NatHasLeast
<1>3. PICK x \in S : t = n - x
  BY DEF T
<1>4. ASSUME NEW y \in S
      PROVE  x >= y
  <2>1. n - y \in T
    BY DEF T
  <2> QED
    BY <1>2, <1>3, <2>1
<1> QED
  BY <1>4 DEF Max

-----------------------------------------------------------------------------
(* Types. *)

LEMMA IdleTypes == IdleBuild \in BuildState /\ IdleCrawl \in CrawlState /\ NoCorpus \in CorpusSnapshot
  BY DEF IdleBuild, BuildState, IdleCrawl, CrawlState, NoCorpus, CorpusSnapshot

\* Nothing a run looks for is outside the site and the corpus.
LEMMA CandidatesType ==
  ASSUME CorpusTypeOK, NEW full \in BOOLEAN
  PROVE  {p \in Candidates(full) : MustFetch(p, full)} \subseteq Page
<1>1. NewsEdge \subseteq live
  BY DEF NewsEdge, Newest
<1>2. Newest(PageSize, Editorial \cap live) \subseteq live
  BY DEF Newest
<1> QED
  BY <1>1, <1>2 DEF Candidates, CorpusTypeOK, CorpusSnapshot

LEMMA RereadType ==
  ASSUME CorpusTypeOK, NEW p \in Page, NEW c \in CorpusSnapshot
  PROVE  Reread(p, c) \in CorpusSnapshot /\ Reread(p, c).stored = c.stored
<1>1. On(p) \subseteq Page \X Doc
  BY DEF On, CorpusTypeOK
<1> QED
  BY <1>1 DEF Reread, CorpusSnapshot

\* The crawler's next state once the letter it is at has its document.
LEMMA StoredType ==
  ASSUME NEW c \in CrawlState, c.letter \in Page \X Doc
  PROVE  /\ LetterIsStored(c) \in CrawlState
         /\ LetterIsStored(c).pc = "letter"
         /\ LetterIsStored(c).draft.stored = c.draft.stored \cup {c.letter}
  BY DEF LetterIsStored, CrawlState, CorpusSnapshot

\* The crawler's next state once a page it knows has gone.
LEMMA GoneType ==
  ASSUME NEW c \in CrawlState, NEW p \in Page
  PROVE  /\ MarkGone(p, c) \in CrawlState /\ MarkGone(p, c).pc = c.pc
         /\ MarkGone(p, c).draft.stored = c.draft.stored
  BY DEF MarkGone, CrawlState, CorpusSnapshot

\* The builder's next state at another entry.
LEMMA EntryType ==
  ASSUME build \in BuildState, build.left > 0, NEW d \in Doc, NEW l \in {"store", "text", "entry"}
  PROVE  /\ AtEntry(d, l) \in BuildState
         /\ AtEntry(d, l).doc = d /\ AtEntry(d, l).pc = l
         /\ AtEntry(d, l).blobs = build.blobs /\ AtEntry(d, l).read = build.read
<1>1. build.left - 1 \in Nat
  BY DEF BuildState
<1>2. PICK n \in Nat : n = build.left - 1
  BY <1>1
<1>3. AtEntry(d, l) = [build EXCEPT !.doc = d, !.left = n, !.pc = l]
  BY <1>2 DEF AtEntry
<1> QED
  BY <1>3 DEF BuildState

LEMMA TakeEntryStep ==
  ASSUME TakeEntry
  PROVE  \/ build' = IdleBuild
         \/ \E l \in {"store", "text", "entry"} : build' = AtEntry(Min(Outstanding), l)
  BY DEF TakeEntry, StopBuild

\* Every step keeps the types, and both runs at a document or a letter.
LEMMA CorpusTypeStep ==
  ASSUME OpinionAssumption, CorpusTypeOK, Occupied, [CorpusNext]_corpusVars
  PROVE  CorpusTypeOK' /\ Occupied'
<1> USE DEF CorpusTypeOK, Occupied
<1>a. MaxChanges \in Nat /\ MaxVersion \in Nat /\ MaxPages \in Nat
  BY OpinionAssumption DEF OpinionAssumption
<1>b. Budget \in Nat
  BY OpinionAssumption DEF OpinionAssumption
<1>c. ASSUME Change
      PROVE  changes' \in 0..MaxChanges
  BY <1>a, <1>c DEF Change
<1>1. CASE UNCHANGED corpusVars
  BY <1>1 DEF corpusVars, outside, store, private, public
<1>2. ASSUME NEW d \in Doc, MoveDocument(d)
      PROVE  CorpusTypeOK' /\ Occupied'
  BY <1>2, <1>c DEF MoveDocument, outside, store, private, public
<1>3. ASSUME NEW attached \in SUBSET Doc, PublishArticle(attached)
      PROVE  CorpusTypeOK' /\ Occupied'
  <2>1. Max(live) + 1 \in Page
    BY <1>3, <1>a, MaxIsMember DEF PublishArticle, Page
  <2>2. letters' \subseteq Page \X Doc
    BY <1>3, <2>1 DEF PublishArticle
  <2> QED
    BY <1>3, <2>1, <2>2, <1>c DEF PublishArticle, outside, store, private, public
<1>4. ASSUME NEW p \in live, TakeDown(p)
      PROVE  CorpusTypeOK' /\ Occupied'
  BY <1>4, <1>c DEF TakeDown, outside, store, private, public
<1>5. ASSUME NEW p \in live, NEW d \in Doc, MoveLetter(p, d)
      PROVE  CorpusTypeOK' /\ Occupied'
  BY <1>5, <1>c DEF MoveLetter, outside, store, private, public
<1>6. CASE Upgrade
  BY <1>6, <1>a, IdleTypes DEF Upgrade, IdleBuild, IdleCrawl, outside, store, private, public
<1>7. ASSUME NEW full \in BOOLEAN, BeginBuild(full)
      PROVE  CorpusTypeOK' /\ Occupied'
  BY <1>7, <1>b DEF BeginBuild, BuildState, Manifest, outside, store, private, public
<1>8. CASE TakeEntry
  <2>1. Outstanding \subseteq Doc
    BY DEF Outstanding, BuildState
  <2>2. Min(Outstanding) \in Doc
    BY <1>8, <2>1, MinIsMember DEF TakeEntry, Doc
  <2>3. build.left > 0
    BY <1>8 DEF TakeEntry
  <2>4. build' \in BuildState /\ (build'.pc = "idle" \/ build'.doc \in Doc)
    <3>1. CASE build' = IdleBuild
      BY <3>1, IdleTypes DEF IdleBuild
    <3>2. CASE \E l \in {"store", "text", "entry"} : build' = AtEntry(Min(Outstanding), l)
      <4>1. PICK l \in {"store", "text", "entry"} : build' = AtEntry(Min(Outstanding), l)
        BY <3>2
      <4>2. AtEntry(Min(Outstanding), l) \in BuildState /\ AtEntry(Min(Outstanding), l).doc = Min(Outstanding)
        BY <2>2, <2>3, EntryType
      <4> QED
        BY <2>2, <4>1, <4>2
    <3> QED
      BY <1>8, <3>1, <3>2, TakeEntryStep
  <2> QED
    BY <1>8, <2>4 DEF TakeEntry, outside, store, private, public
<1>9. CASE StoreEntry
  BY <1>9 DEF StoreEntry, WriteFile, Building, BuildState, outside, store, private, public
<1>10. CASE CreateEntryRow
  BY <1>10 DEF CreateEntryRow, InsertRow, Building, BuildState, outside, store, private, public
<1>11. CASE ExtractEntry
  <2>1. build.doc \in Doc
    BY <1>11 DEF ExtractEntry, Building
  <2>2. build' \in BuildState /\ build'.pc = "entry"
    BY <1>11, <2>1 DEF ExtractEntry, BuildState
  <2>3. texts' \subseteq Doc \X (1..MaxVersion)
    BY <1>11, <2>1 DEF ExtractEntry, InsertText
  <2> QED
    BY <1>11, <2>2, <2>3 DEF ExtractEntry, outside, store, private, public
<1>12. CASE EntryFails \/ BuildPartly \/ CatalogueRefused
  <2>1. build' = IdleBuild /\ UNCHANGED <<outside, changes, store, catalogue, catalogued, public>>
    BY <1>12 DEF EntryFails, BuildPartly, CatalogueRefused, StopBuild
  <2> QED
    BY <2>1, IdleTypes DEF IdleBuild, outside, store, public
<1>13. CASE PublishCatalogue
  BY <1>13, IdleTypes DEF PublishCatalogue, CatalogueKey, StopBuild, IdleBuild, BuildState, outside, store, private, public
<1>14. ASSUME NEW full \in BOOLEAN, BeginCrawl(full)
      PROVE  CorpusTypeOK' /\ Occupied'
  <2>1. crawl' \in CrawlState /\ crawl'.pc = "page"
    BY <1>14, IdleTypes, CandidatesType DEF BeginCrawl, CrawlState
  <2> QED
    BY <1>14, <2>1 DEF BeginCrawl, outside, store, private, public
<1>15. ASSUME NEW p \in crawl.seen, ReadPage(p)
      PROVE  CorpusTypeOK' /\ Occupied'
  <2>1. p \in Page /\ On(p) \subseteq Page \X Doc
    BY DEF On, CrawlState
  <2>2. Reread(p, crawl.draft) \in CorpusSnapshot
    BY <2>1, RereadType DEF CrawlState
  <2>3. crawl' \in CrawlState /\ crawl'.pc \in {"page", "letter"}
    BY <1>15, <2>1, <2>2 DEF ReadPage, Crawling, CrawlState
  <2> QED
    BY <1>15, <2>3 DEF ReadPage, outside, store, private, public
<1>16. ASSUME NEW p \in crawl.seen, PageIsGone(p)
      PROVE  CorpusTypeOK' /\ Occupied'
  <2>1. p \in Page
    BY DEF CrawlState
  <2>2. \/ crawl' = IdleCrawl
        \/ crawl' = MarkGone(p, crawl)
    BY <1>16 DEF PageIsGone, StopCrawl
  <2>3. crawl.pc = "page"
    BY <1>16 DEF PageIsGone, Crawling
  <2>4. crawl' \in CrawlState /\ crawl'.pc \in {"page", "idle"}
    <3>1. CASE crawl' = IdleCrawl
      BY <3>1, IdleTypes DEF IdleCrawl
    <3>2. CASE crawl' = MarkGone(p, crawl)
      <4>1. crawl \in CrawlState
        BY DEF CorpusTypeOK
      <4>2. MarkGone(p, crawl) \in CrawlState /\ MarkGone(p, crawl).pc = crawl.pc
        BY <4>1, <2>1, GoneType
      <4> QED BY <4>2, <3>2, <2>3
    <3> QED BY <2>2, <3>1, <3>2
  <2> QED
    BY <1>16, <2>4 DEF PageIsGone, outside, store, private, public
<1>17. ASSUME NEW p \in crawl.seen, PageUnreadable(p)
      PROVE  CorpusTypeOK' /\ Occupied'
  <2>1. crawl' = IdleCrawl \/ crawl' = [crawl EXCEPT !.seen = @ \ {p}]
    BY <1>17 DEF PageUnreadable, StopCrawl
  <2>2. crawl' \in CrawlState /\ crawl'.pc \in {"page", "idle"}
    BY <1>17, <2>1, IdleTypes DEF PageUnreadable, Crawling, IdleCrawl, CrawlState
  <2> QED
    BY <1>17, <2>2, <1>c DEF PageUnreadable, outside, store, private, public
<1>18. ASSUME NEW a \in crawl.unresolved, FetchLetter(a)
      PROVE  CorpusTypeOK' /\ Occupied'
  <2> DEFINE fetched == [crawl EXCEPT !.unresolved = @ \ {a}, !.letter = a]
  <2>1. fetched \in CrawlState /\ fetched.letter = a /\ a \in Page \X Doc
    BY DEF CrawlState
  <2>2. crawl' \in {[fetched EXCEPT !.pc = "store"], [fetched EXCEPT !.pc = "text"], LetterIsStored(fetched)}
    BY <1>18 DEF FetchLetter
  <2>3. LetterIsStored(fetched) \in CrawlState /\ LetterIsStored(fetched).pc = "letter"
    BY <2>1, StoredType
  <2>4. \A l \in {"store", "text"} : /\ [fetched EXCEPT !.pc = l] \in CrawlState
                                   /\ [fetched EXCEPT !.pc = l].letter = a
    BY <2>1 DEF CrawlState
  <2>5. crawl' \in CrawlState /\ (crawl'.pc = "letter" \/ crawl'.letter \in Page \X Doc)
    BY <2>1, <2>2, <2>3, <2>4
  <2> QED
    BY <1>18, <2>5 DEF FetchLetter, outside, store, private, public
<1>19. ASSUME NEW a \in crawl.unresolved, LetterUnreadable(a)
      PROVE  CorpusTypeOK' /\ Occupied'
  BY <1>19, <1>c DEF LetterUnreadable, Crawling, CrawlState, outside, store, private, public
<1>20. CASE StoreLetter
  BY <1>20 DEF StoreLetter, WriteFile, Crawling, CrawlState, outside, store, private, public
<1>21. CASE CreateLetterRow
  <2>1. crawl.letter \in Page \X Doc
    BY <1>21 DEF CreateLetterRow, Crawling
  <2>2. LetterIsStored(crawl) \in CrawlState /\ LetterIsStored(crawl).pc = "letter"
    BY <2>1, StoredType
  <2>3. crawl' \in CrawlState /\ crawl'.pc \in {"letter", "text", "extract"}
           /\ (crawl'.pc = "letter" \/ crawl'.letter = crawl.letter)
    BY <1>21, <2>2 DEF CreateLetterRow, CrawlState
  <2> QED
    BY <1>21, <2>1, <2>3 DEF CreateLetterRow, InsertRow, outside, store, private, public
<1>22. CASE EnsureExtraction
  <2>1. crawl.letter \in Page \X Doc
    BY <1>22 DEF EnsureExtraction, Crawling
  <2>2. LetterIsStored(crawl) \in CrawlState /\ LetterIsStored(crawl).pc = "letter"
    BY <2>1, StoredType
  <2>3. crawl' \in CrawlState /\ crawl'.pc \in {"letter", "text", "extract"}
           /\ (crawl'.pc = "letter" \/ crawl'.letter = crawl.letter)
    BY <1>22, <2>2 DEF EnsureExtraction, CrawlState
  <2> QED
    BY <1>22, <2>1, <2>3 DEF EnsureExtraction, outside, store, private, public
<1>23. CASE ExtractLetter
  <2>1. crawl.letter \in Page \X Doc
    BY <1>23 DEF ExtractLetter, Crawling
  <2>2. LetterIsStored(crawl) \in CrawlState /\ LetterIsStored(crawl).pc = "letter"
    BY <2>1, StoredType
  <2>3. crawl' \in CrawlState /\ crawl'.pc \in {"letter", "text", "extract"}
           /\ (crawl'.pc = "letter" \/ crawl'.letter = crawl.letter)
    BY <1>23, <2>2 DEF ExtractLetter, CrawlState
  <2> QED
    BY <1>23, <2>1, <2>3 DEF ExtractLetter, InsertText, outside, store, private, public
<1>24. CASE LetterFails \/ NothingToPublish
  <2>1. crawl' = IdleCrawl /\ UNCHANGED <<outside, changes, store, private, corpus, published, backfilled>>
    BY <1>24 DEF LetterFails, NothingToPublish, StopCrawl
  <2> QED
    BY <2>1, IdleTypes DEF IdleCrawl, outside, store, private
<1>25. CASE PageDone
  BY <1>25 DEF PageDone, CrawlState, outside, store, private, public
<1>26. CASE PublishCorpus
  <2>1. crawl.draft \in CorpusSnapshot /\ crawl.full \in BOOLEAN
    BY DEF CrawlState
  <2> QED
    BY <1>26, <2>1, IdleTypes DEF PublishCorpus, StopCrawl, IdleCrawl, outside, store, private, public
<1>27. CASE Crash
  BY <1>27, <1>c, IdleTypes DEF Crash, IdleBuild, IdleCrawl, outside, store, private, public
<1> QED
  BY <1>1, <1>2, <1>3, <1>4, <1>5, <1>6, <1>7, <1>8, <1>9, <1>10, <1>11, <1>12, <1>13, <1>14, <1>15, <1>16, <1>17, <1>18, <1>19, <1>20, <1>21, <1>22, <1>23, <1>24, <1>25, <1>26, <1>27 DEF CorpusNext, BuildStep, CrawlStep

-----------------------------------------------------------------------------
(* The store only grows. *)

StoreGrows == files \subseteq files' /\ rows \subseteq rows' /\ texts \subseteq texts'

LEMMA NextGrows ==
  ASSUME [CorpusNext]_corpusVars
  PROVE  StoreGrows
<1> USE DEF StoreGrows
<1>1. CASE StoreEntry \/ CreateEntryRow \/ ExtractEntry
  BY <1>1 DEF StoreEntry, CreateEntryRow, ExtractEntry, WriteFile, InsertRow, InsertText
<1>2. CASE StoreLetter \/ CreateLetterRow \/ ExtractLetter
  BY <1>2 DEF StoreLetter, CreateLetterRow, ExtractLetter, WriteFile, InsertRow, InsertText
<1>3. CASE UNCHANGED store
  BY <1>3 DEF store
<1>4. CASE UNCHANGED corpusVars
  BY <1>4 DEF corpusVars, store
<1>5. ASSUME NEW d \in Doc, MoveDocument(d) \/ PublishArticle({d})
      PROVE  UNCHANGED store
  BY <1>5 DEF MoveDocument, PublishArticle
<1>6. CASE PublishArticle({}) \/ Upgrade \/ Crash
  BY <1>3, <1>6 DEF PublishArticle, Upgrade, Crash
<1>7. ASSUME NEW p \in live, TakeDown(p) \/ \E d \in Doc : MoveLetter(p, d)
      PROVE  UNCHANGED store
  BY <1>7 DEF TakeDown, MoveLetter
<1>8. ASSUME NEW full \in BOOLEAN, BeginBuild(full) \/ BeginCrawl(full)
      PROVE  UNCHANGED store
  BY <1>8 DEF BeginBuild, BeginCrawl
<1>9. CASE TakeEntry \/ EntryFails \/ BuildPartly \/ PublishCatalogue \/ CatalogueRefused
  BY <1>3, <1>9 DEF TakeEntry, EntryFails, BuildPartly, PublishCatalogue, CatalogueRefused
<1>10. ASSUME NEW p \in crawl.seen, ReadPage(p) \/ PageIsGone(p) \/ PageUnreadable(p)
       PROVE  UNCHANGED store
  BY <1>10 DEF ReadPage, PageIsGone, PageUnreadable
<1>11. ASSUME NEW a \in crawl.unresolved, FetchLetter(a) \/ LetterUnreadable(a)
       PROVE  UNCHANGED store
  BY <1>11 DEF FetchLetter, LetterUnreadable
<1>12. CASE EnsureExtraction \/ LetterFails \/ PageDone \/ PublishCorpus \/ NothingToPublish
  BY <1>3, <1>12 DEF EnsureExtraction, LetterFails, PageDone, PublishCorpus, NothingToPublish
<1> QED
  BY <1>1, <1>2, <1>3, <1>4, <1>5, <1>6, <1>7, <1>8, <1>9, <1>10, <1>11, <1>12
  DEF CorpusNext, BuildStep, CrawlStep

\* What can be served stays so.
LEMMA ServableGrows ==
  ASSUME NEW D, Servable(D), StoreGrows
  PROVE  Servable(D)'
  BY DEF Servable, HasText, StoreGrows

LEMMA PublishedFrame ==
  ASSUME PublishedIsServable, StoreGrows, UNCHANGED <<catalogue, corpus>>
  PROVE  PublishedIsServable'
  BY DEF PublishedIsServable, Servable, HasText, StoreGrows

LEMMA DraftFrame ==
  ASSUME DraftIsServable, StoreGrows, crawl'.draft.stored = crawl.draft.stored
  PROVE  DraftIsServable'
  BY DEF DraftIsServable, Servable, HasText, StoreGrows

\* The document of one more letter is there.
LEMMA DraftAdds ==
  ASSUME DraftIsServable, StoreGrows, NEW a,
         crawl'.draft.stored = crawl.draft.stored \cup {a},
         a[2] \in rows' /\ a[2] \in files',
         a[2] \in Invalid \/ \E v \in 1..MaxVersion : <<a[2], v>> \in texts'
  PROVE  DraftIsServable'
  BY DEF DraftIsServable, Servable, HasText, StoreGrows

LEMMA DraftEmpty ==
  ASSUME crawl' = IdleCrawl
  PROVE  DraftIsServable'
  BY DEF DraftIsServable, Servable, IdleCrawl, NoCorpus

-----------------------------------------------------------------------------
(* Every step keeps the invariant. *)

LEMMA InvStep ==
  ASSUME OpinionAssumption, CorpusTypeOK, CorpusInv, [CorpusNext]_corpusVars
  PROVE  StoreKeepsUp' /\ DraftIsServable' /\ PublishedIsServable'
<1>a. StoreGrows
  BY NextGrows
<1>b. Occupied /\ StoreKeepsUp /\ DraftIsServable /\ PublishedIsServable
  BY DEF CorpusInv
<1>c. build \in BuildState /\ crawl \in CrawlState /\ version \in 1..MaxVersion
  BY DEF CorpusTypeOK
<1>p. ASSUME UNCHANGED <<catalogue, corpus>>
      PROVE  PublishedIsServable'
  BY <1>a, <1>b, <1>p, PublishedFrame
<1>d. ASSUME crawl'.draft.stored = crawl.draft.stored
      PROVE  DraftIsServable'
  BY <1>a, <1>b, <1>d, DraftFrame
<1>1. CASE UNCHANGED <<version, store, build, crawl, catalogue, corpus>>
  BY <1>1, <1>b, <1>d, <1>p DEF StoreKeepsUp, Building, Crawling, store
<1>2. CASE build' = IdleBuild /\ crawl' = IdleCrawl /\ UNCHANGED <<store, catalogue, corpus>>
  BY <1>2, <1>b, <1>p, DraftEmpty DEF StoreKeepsUp, Building, Crawling, store, IdleBuild, IdleCrawl
<1>3. CASE build' = IdleBuild /\ UNCHANGED <<version, store, crawl, catalogue, corpus>>
  BY <1>3, <1>b, <1>p, <1>d DEF StoreKeepsUp, Building, Crawling, store, IdleBuild
<1>4. CASE crawl' = IdleCrawl /\ UNCHANGED <<version, store, build, catalogue, corpus>>
  BY <1>4, <1>b, <1>p, DraftEmpty DEF StoreKeepsUp, Building, Crawling, store, IdleCrawl
<1>5. ASSUME NEW full \in BOOLEAN, BeginBuild(full)
      PROVE  StoreKeepsUp' /\ DraftIsServable' /\ PublishedIsServable'
  <2>1. UNCHANGED <<version, store, crawl, catalogue, corpus>>
    BY <1>5 DEF BeginBuild, outside, public
  <2>2. build'.pc = "entry" /\ build'.blobs \subseteq rows /\ \A d \in build'.read : <<d, version>> \in texts
    BY <1>5 DEF BeginBuild
  <2> QED
    BY <2>1, <2>2, <1>b, <1>d, <1>p DEF StoreKeepsUp, Building, Crawling, store
<1>6. CASE TakeEntry
  <2>1. UNCHANGED <<version, store, crawl, catalogue, corpus>>
    BY <1>6 DEF TakeEntry, outside, public
  <2>2. Outstanding \subseteq Doc /\ Outstanding # {} /\ build.left > 0
    BY <1>6, <1>c DEF TakeEntry, Outstanding, BuildState
  <2>3. Min(Outstanding) \in Doc
    <3>1. Outstanding \subseteq Nat
      BY <2>2 DEF Doc
    <3>2. Min(Outstanding) \in Outstanding
      BY <2>2, <3>1, MinIsMember
    <3> QED
      BY <2>2, <3>2
  <2>4. CASE \E l \in {"store", "text", "entry"} : build' = AtEntry(Min(Outstanding), l)
    <3>1. PICK l \in {"store", "text", "entry"} : build' = AtEntry(Min(Outstanding), l)
      BY <2>4
    <3>2. build'.pc = l /\ build'.blobs = build.blobs /\ build'.read = build.read
      BY <1>c, <2>2, <2>3, <3>1, EntryType
    <3> QED
      BY <2>1, <3>2, <1>b, <1>d, <1>p DEF StoreKeepsUp, Building, Crawling, store
  <2> QED
    BY <1>6, <1>3, <2>1, <2>4, TakeEntryStep
<1>7. CASE StoreEntry
  <2>1. build'.pc = "row" /\ build'.blobs = build.blobs /\ build'.read = build.read /\ build'.doc = build.doc
    BY <1>7, <1>c DEF StoreEntry, BuildState
  <2>2. UNCHANGED <<version, rows, texts, crawl, catalogue, corpus>> /\ files' = files \cup {build.doc}
    BY <1>7 DEF StoreEntry, WriteFile, outside, public
  <2> QED
    BY <2>1, <2>2, <1>b, <1>d, <1>p DEF StoreKeepsUp, Building, Crawling
<1>8. CASE CreateEntryRow
  <2>1. build'.pc \in {"text", "entry"} /\ build'.blobs = build.blobs \cup {build.doc} /\ build'.read = build.read
    BY <1>8, <1>c DEF CreateEntryRow, BuildState
  <2>2. UNCHANGED <<version, files, texts, crawl, catalogue, corpus>> /\ rows' = rows \cup {build.doc}
    BY <1>8 DEF CreateEntryRow, InsertRow, outside, public
  <2>3. build.doc \in files
    BY <1>8, <1>b DEF CreateEntryRow, StoreKeepsUp, Building, Crawling
  <2> QED
    BY <2>1, <2>2, <2>3, <1>b, <1>d, <1>p DEF StoreKeepsUp, Building, Crawling
<1>9. CASE ExtractEntry
  <2>1. build'.pc = "entry" /\ build'.blobs = build.blobs /\ build'.read = build.read \cup {build.doc}
    BY <1>9, <1>c DEF ExtractEntry, BuildState
  <2>2. UNCHANGED <<version, files, rows, crawl, catalogue, corpus>> /\ texts' = texts \cup {<<build.doc, version>>}
    BY <1>9 DEF ExtractEntry, InsertText, outside, public
  <2> QED
    BY <2>1, <2>2, <1>b, <1>d, <1>p DEF StoreKeepsUp, Building, Crawling
<1>10. CASE PublishCatalogue
  <2>1. UNCHANGED <<version, store, crawl, corpus>> /\ build' = IdleBuild
    BY <1>10 DEF PublishCatalogue, StopBuild, outside, public
  <2>2. catalogue' = [manifest |-> build.manifest, version |-> version] /\ Outstanding = {}
    BY <1>10 DEF PublishCatalogue
  <2>3. ASSUME NEW d \in build.manifest
        PROVE  d \in rows /\ d \in files /\ (d \in Invalid \/ <<d, version>> \in texts)
    BY <2>2, <1>b DEF Outstanding, IsValid, StoreKeepsUp
  <2>4. PublishedIsServable'
    BY <2>1, <2>2, <2>3, <1>b, <1>c DEF PublishedIsServable, Servable, HasText, store
  <2> QED
    BY <2>1, <2>4, <1>b, <1>d DEF StoreKeepsUp, Building, Crawling, store, IdleBuild
<1>11. ASSUME NEW full \in BOOLEAN, BeginCrawl(full)
      PROVE  StoreKeepsUp' /\ DraftIsServable' /\ PublishedIsServable'
  <2>1. UNCHANGED <<version, store, build, catalogue, corpus>>
    BY <1>11 DEF BeginCrawl, outside, private
  <2>2. crawl'.pc = "page" /\ crawl'.draft = corpus
    BY <1>11 DEF BeginCrawl, IdleCrawl
  <2>3. DraftIsServable'
    BY <2>1, <2>2, <1>b DEF DraftIsServable, PublishedIsServable, Servable, HasText, store
  <2> QED
    BY <2>1, <2>2, <2>3, <1>b, <1>p DEF StoreKeepsUp, Building, Crawling, store
<1>12. ASSUME NEW p \in crawl.seen, ReadPage(p)
      PROVE  StoreKeepsUp' /\ DraftIsServable' /\ PublishedIsServable'
  <2>1. UNCHANGED <<version, store, build, catalogue, corpus>>
    BY <1>12 DEF ReadPage, outside, private
  <2>2. Reread(p, crawl.draft).stored = crawl.draft.stored
    BY <1>c, RereadType DEF CrawlState
  <2>3. crawl'.pc \in {"page", "letter"} /\ crawl'.draft.stored = crawl.draft.stored
    BY <1>12, <1>c, <2>2 DEF ReadPage, Crawling, CrawlState
  <2> QED
    BY <2>1, <2>3, <1>b, <1>d, <1>p DEF StoreKeepsUp, Building, Crawling, store
<1>13. ASSUME NEW p \in crawl.seen, PageIsGone(p)
      PROVE  StoreKeepsUp' /\ DraftIsServable' /\ PublishedIsServable'
  <2>1. UNCHANGED <<version, store, build, catalogue, corpus>>
    BY <1>13 DEF PageIsGone, outside, private
  <2>2. CASE crawl' = MarkGone(p, crawl)
    <3>1. crawl.pc = "page" /\ p \in Page
      BY <1>13, <1>c DEF PageIsGone, Crawling, CrawlState
    <3>2. crawl'.pc = "page" /\ crawl'.draft.stored = crawl.draft.stored
      BY <1>c, <2>2, <3>1, GoneType
    <3> QED
      BY <2>1, <3>2, <1>b, <1>d, <1>p DEF StoreKeepsUp, Building, Crawling, store
  <2> QED
    BY <1>13, <1>4, <2>1, <2>2 DEF PageIsGone, StopCrawl
<1>14. ASSUME NEW p \in crawl.seen, PageUnreadable(p)
      PROVE  StoreKeepsUp' /\ DraftIsServable' /\ PublishedIsServable'
  <2>1. UNCHANGED <<version, store, build, catalogue, corpus>>
    BY <1>14 DEF PageUnreadable, outside, private
  <2>2. CASE crawl' = [crawl EXCEPT !.seen = @ \ {p}]
    <3>1. crawl'.pc = crawl.pc /\ crawl'.draft = crawl.draft /\ crawl'.letter = crawl.letter
      BY <2>2, <1>c DEF CrawlState
    <3> QED
      BY <2>1, <3>1, <1>b, <1>d, <1>p DEF StoreKeepsUp, Building, Crawling, store
  <2> QED
    BY <1>14, <1>4, <2>1, <2>2 DEF PageUnreadable, StopCrawl
<1>15. ASSUME NEW a \in crawl.unresolved, FetchLetter(a)
      PROVE  StoreKeepsUp' /\ DraftIsServable' /\ PublishedIsServable'
  <2> DEFINE fetched == [crawl EXCEPT !.unresolved = @ \ {a}, !.letter = a]
  <2>1. UNCHANGED <<version, store, build, catalogue, corpus>>
    BY <1>15 DEF FetchLetter, outside, private
  <2>2. fetched \in CrawlState /\ fetched.letter = a /\ fetched.draft = crawl.draft /\ a \in Page \X Doc
    BY <1>c DEF CrawlState
  <2>3. CASE a[2] \notin rows
    <3>1. crawl' = [fetched EXCEPT !.pc = "store"]
      BY <1>15, <2>3 DEF FetchLetter
    <3>2. crawl'.pc = "store" /\ crawl'.draft = crawl.draft
      BY <3>1, <2>2 DEF CrawlState
    <3> QED
      BY <2>1, <3>2, <1>b, <1>d, <1>p DEF StoreKeepsUp, Building, Crawling, store
  <2>4. CASE a[2] \in rows /\ IsValid(a[2])
    <3>1. crawl' = [fetched EXCEPT !.pc = "text"]
      BY <1>15, <2>4 DEF FetchLetter
    <3>2. crawl'.pc = "text" /\ crawl'.draft = crawl.draft /\ crawl'.letter = a
      BY <3>1, <2>2 DEF CrawlState
    <3> QED
      BY <2>1, <2>4, <3>2, <1>b, <1>d, <1>p DEF StoreKeepsUp, Building, Crawling, store
  <2>5. CASE a[2] \in rows /\ ~IsValid(a[2])
    <3>1. crawl' = LetterIsStored(fetched)
      BY <1>15, <2>5 DEF FetchLetter
    <3>2. crawl'.pc = "letter" /\ crawl'.draft.stored = crawl.draft.stored \cup {a}
      BY <3>1, <2>2, StoredType
    <3>3. DraftIsServable'
      BY <2>1, <2>5, <3>2, <1>a, <1>b, DraftAdds DEF IsValid, StoreKeepsUp, store
    <3> QED
      BY <2>1, <3>2, <3>3, <1>b, <1>p DEF StoreKeepsUp, Building, Crawling, store
  <2> QED
    BY <2>3, <2>4, <2>5
<1>16. ASSUME NEW a \in crawl.unresolved, LetterUnreadable(a)
      PROVE  StoreKeepsUp' /\ DraftIsServable' /\ PublishedIsServable'
  <2>1. UNCHANGED <<version, store, build, catalogue, corpus>>
    BY <1>16 DEF LetterUnreadable, outside, private
  <2>2. crawl'.pc = crawl.pc /\ crawl'.draft = crawl.draft /\ crawl'.letter = crawl.letter
    BY <1>16, <1>c DEF LetterUnreadable, CrawlState
  <2> QED
    BY <2>1, <2>2, <1>b, <1>d, <1>p DEF StoreKeepsUp, Building, Crawling, store
<1>17. CASE StoreLetter
  <2>1. crawl'.pc = "row" /\ crawl'.draft = crawl.draft /\ crawl'.letter = crawl.letter
    BY <1>17, <1>c DEF StoreLetter, CrawlState
  <2>2. UNCHANGED <<version, rows, texts, build, catalogue, corpus>> /\ files' = files \cup {crawl.letter[2]}
    BY <1>17 DEF StoreLetter, WriteFile, outside, private
  <2> QED
    BY <2>1, <2>2, <1>b, <1>d, <1>p DEF StoreKeepsUp, Building, Crawling
<1>18. CASE CreateLetterRow
  <2>1. UNCHANGED <<version, files, texts, build, catalogue, corpus>> /\ rows' = rows \cup {crawl.letter[2]}
    BY <1>18 DEF CreateLetterRow, InsertRow, outside, private
  <2>2. crawl.letter \in Page \X Doc /\ crawl.letter[2] \in files
    BY <1>18, <1>b DEF CreateLetterRow, Occupied, StoreKeepsUp, Building, Crawling
  <2>3. CASE IsValid(crawl.letter[2])
    <3>1. crawl'.pc = "text" /\ crawl'.draft = crawl.draft /\ crawl'.letter = crawl.letter
      BY <1>18, <1>c, <2>3 DEF CreateLetterRow, CrawlState
    <3> QED
      BY <2>1, <2>2, <3>1, <1>b, <1>d, <1>p DEF StoreKeepsUp, Building, Crawling
  <2>4. CASE ~IsValid(crawl.letter[2])
    <3>1. crawl' = LetterIsStored(crawl)
      BY <1>18, <2>4 DEF CreateLetterRow
    <3>2. crawl'.pc = "letter" /\ crawl'.draft.stored = crawl.draft.stored \cup {crawl.letter}
      BY <3>1, <2>2, <1>c, StoredType
    <3>3. DraftIsServable'
      BY <2>1, <2>2, <2>4, <3>2, <1>a, <1>b, DraftAdds DEF IsValid
    <3> QED
      BY <2>1, <2>2, <3>2, <3>3, <1>b, <1>p DEF StoreKeepsUp, Building, Crawling
  <2> QED
    BY <2>3, <2>4
<1>19. CASE EnsureExtraction
  <2>1. UNCHANGED <<version, store, build, catalogue, corpus>>
    BY <1>19 DEF EnsureExtraction, outside, private
  <2>2. crawl.letter \in Page \X Doc /\ crawl.letter[2] \in rows
    BY <1>19, <1>b DEF EnsureExtraction, Occupied, StoreKeepsUp, Building, Crawling
  <2>3. CASE <<crawl.letter[2], version>> \in texts
    <3>1. crawl' = LetterIsStored(crawl)
      BY <1>19, <2>3 DEF EnsureExtraction
    <3>2. crawl'.pc = "letter" /\ crawl'.draft.stored = crawl.draft.stored \cup {crawl.letter}
      BY <3>1, <2>2, <1>c, StoredType
    <3>3. DraftIsServable'
      BY <2>1, <2>2, <2>3, <3>2, <1>a, <1>b, <1>c, DraftAdds DEF StoreKeepsUp, store
    <3> QED
      BY <2>1, <3>2, <3>3, <1>b, <1>p DEF StoreKeepsUp, Building, Crawling, store
  <2>4. CASE <<crawl.letter[2], version>> \notin texts
    <3>1. crawl'.pc = "extract" /\ crawl'.draft = crawl.draft /\ crawl'.letter = crawl.letter
      BY <1>19, <1>c, <2>4 DEF EnsureExtraction, CrawlState
    <3> QED
      BY <2>1, <2>2, <3>1, <1>b, <1>d, <1>p DEF StoreKeepsUp, Building, Crawling, store
  <2> QED
    BY <2>3, <2>4
<1>20. CASE ExtractLetter
  <2>1. UNCHANGED <<version, files, rows, build, catalogue, corpus>>
           /\ texts' = texts \cup {<<crawl.letter[2], version>>}
    BY <1>20 DEF ExtractLetter, InsertText, outside, private
  <2>2. crawl.letter \in Page \X Doc /\ crawl.letter[2] \in rows
    BY <1>20, <1>b DEF ExtractLetter, Occupied, StoreKeepsUp, Building, Crawling
  <2>3. crawl'.pc = "letter" /\ crawl'.draft.stored = crawl.draft.stored \cup {crawl.letter}
    BY <1>20, <2>2, <1>c, StoredType DEF ExtractLetter
  <2>4. DraftIsServable'
    BY <2>1, <2>2, <2>3, <1>a, <1>b, <1>c, DraftAdds DEF StoreKeepsUp
  <2> QED
    BY <2>1, <2>3, <2>4, <1>b, <1>p DEF StoreKeepsUp, Building, Crawling
<1>21. CASE PageDone
  <2>1. UNCHANGED <<version, store, build, catalogue, corpus>>
    BY <1>21 DEF PageDone, outside, private
  <2>2. crawl'.pc = "page" /\ crawl'.draft = crawl.draft
    BY <1>21, <1>c DEF PageDone, CrawlState
  <2> QED
    BY <2>1, <2>2, <1>b, <1>d, <1>p DEF StoreKeepsUp, Building, Crawling, store
<1>22. CASE PublishCorpus
  <2>1. UNCHANGED <<version, store, build, catalogue>> /\ crawl' = IdleCrawl /\ corpus' = crawl.draft
    BY <1>22 DEF PublishCorpus, StopCrawl, outside, private
  <2>2. PublishedIsServable'
    BY <2>1, <1>b DEF PublishedIsServable, DraftIsServable, Servable, HasText, store
  <2> QED
    BY <2>1, <2>2, <1>b, DraftEmpty DEF StoreKeepsUp, Building, Crawling, store, IdleCrawl
<1>23. CASE UNCHANGED corpusVars
  BY <1>1, <1>23 DEF corpusVars, outside, private, public
<1>24. ASSUME NEW d \in Doc, MoveDocument(d) \/ PublishArticle({d})
       PROVE  StoreKeepsUp' /\ DraftIsServable' /\ PublishedIsServable'
  BY <1>1, <1>24 DEF MoveDocument, PublishArticle, private, public
<1>25. CASE PublishArticle({})
  BY <1>1, <1>25 DEF PublishArticle, private, public
<1>26. ASSUME NEW p \in live, TakeDown(p) \/ \E d \in Doc : MoveLetter(p, d)
       PROVE  StoreKeepsUp' /\ DraftIsServable' /\ PublishedIsServable'
  BY <1>1, <1>26 DEF TakeDown, MoveLetter, private, public
<1>27. CASE Upgrade \/ Crash
  BY <1>2, <1>27 DEF Upgrade, Crash
<1>28. CASE EntryFails \/ BuildPartly \/ CatalogueRefused
  BY <1>3, <1>28 DEF EntryFails, BuildPartly, CatalogueRefused, StopBuild, outside, public
<1>29. CASE LetterFails \/ NothingToPublish
  BY <1>4, <1>29 DEF LetterFails, NothingToPublish, StopCrawl, outside, private
<1> QED
  BY <1>5, <1>6, <1>7, <1>8, <1>9, <1>10, <1>11, <1>12, <1>13, <1>14, <1>15, <1>16, <1>17, <1>18, <1>19, <1>20, <1>21, <1>22, <1>23, <1>24, <1>25, <1>26, <1>27, <1>28, <1>29
  DEF CorpusNext, BuildStep, CrawlStep

\* The types, and the documents both runs are at.
THEOREM CorpusTypeCorrect ==
  ASSUME OpinionAssumption
  PROVE  CorpusSpec => []CorpusTypeOK
<1>1. CorpusInit => CorpusTypeOK /\ Occupied
  <2>1. {1} \subseteq Doc /\ {1, 2} \subseteq Page /\ 1 \in 1..MaxVersion /\ 0 \in 0..MaxChanges
           /\ 0 \in 0..MaxVersion
    BY OpinionAssumption DEF OpinionAssumption, Doc, Page
  <2>2. CorpusInit => letters \subseteq Page \X Doc
    BY <2>1 DEF CorpusInit
  <2>3. CorpusInit => catalogue \in [manifest : SUBSET Doc, version : 0..MaxVersion]
    BY <2>1 DEF CorpusInit, NoCatalogue
  <2>4. CorpusInit => CorpusTypeOK
    BY <2>1, <2>2, <2>3, IdleTypes DEF CorpusInit, CorpusTypeOK
  <2> QED
    BY <2>4 DEF CorpusInit, Occupied, IdleBuild, IdleCrawl
<1>2. CorpusTypeOK /\ Occupied /\ [CorpusNext]_corpusVars => CorpusTypeOK' /\ Occupied'
  BY OpinionAssumption, CorpusTypeStep
<1> QED
  BY <1>1, <1>2, PTL DEF CorpusSpec

\* Whatever the builder and the crawler do at once, wherever a run ends and
\* whenever a new version is deployed, a document that the published catalogue
\* or corpus names has its file, its blob row and - unless it is quarantined -
\* its text, the catalogue's in the version it was published under
\* (opinion_catalogue_sync.py, public_opinion_sync.py).
THEOREM PublishedCanBeServed ==
  ASSUME OpinionAssumption
  PROVE  CorpusSpec => []PublishedIsServable
<1>1. CorpusInit => CorpusInv
  <2>1. CorpusInit => Occupied
    BY DEF CorpusInit, Occupied, IdleBuild, IdleCrawl
  <2>2. CorpusInit => StoreKeepsUp
    BY DEF CorpusInit, StoreKeepsUp, Building, Crawling, IdleBuild, IdleCrawl
  <2>3. CorpusInit => DraftIsServable /\ PublishedIsServable
    BY DEF CorpusInit, DraftIsServable, PublishedIsServable, Servable, IdleCrawl, NoCorpus, NoCatalogue
  <2> QED
    BY <2>1, <2>2, <2>3 DEF CorpusInv
<1>2. CorpusTypeOK /\ CorpusInv /\ [CorpusNext]_corpusVars => CorpusInv'
  BY OpinionAssumption, InvStep, CorpusTypeStep DEF CorpusInv
<1>3. CorpusInv => PublishedIsServable
  BY DEF CorpusInv
<1> QED
  BY <1>1, <1>2, <1>3, CorpusTypeCorrect, OpinionAssumption, PTL DEF CorpusSpec
=============================================================================
