-------------------------- MODULE AudienceFigures ---------------------------
(***************************************************************************)
(* Audience figures (apps/visibility): staff type follower counts          *)
(* (forms.py, manual.py), the Smaily synchronisation reads the newsletter  *)
(* lists (smaily_sync.py, smaily_segments.py, smaily.py), and both publish *)
(* into VisibilityObservation through publishing.py.                       *)
(*                                                                         *)
(* A typed submission is one READ COMMITTED transaction that replaces      *)
(* several rows, one lock at a time; its writes stay in the session until  *)
(* the commit.  The synchronisation runs alone under its advisory lock and *)
(* writes metrics nobody types.                                            *)
(***************************************************************************)
EXTENDS Naturals, Sequences, FiniteSets, FiniteSetsExt

CONSTANTS
    Typists,      \* browser sessions
    Submissions,  \* what may be typed: [date, values, boxes], values a function on
                  \* the metrics supplied, boxes the order they arrived in
    Social,       \* the metrics entered by hand, in the registry's order
    Newsletters,  \* newsletter metric -> the segments that make it up
    Readings,     \* what Smaily may report: segment -> its state ("read",
                  \* "missing" or "renamed") and its count
    MaxAttempts,  \* MAX_ATTEMPTS of a request
    LastDay,      \* bound: days
    MaxRows       \* bound: transactions and readings

SocialMetric == {Social[i] : i \in DOMAIN Social}
Metric == SocialMetric \cup DOMAIN Newsletters
Day == 1..LastDay

ASSUME AudienceAssumption ==
    /\ Social \in Seq(STRING)
    /\ \A i, j \in DOMAIN Social : Social[i] = Social[j] => i = j
    /\ SocialMetric \cap DOMAIN Newsletters = {}
    /\ Readings # {}
    /\ LastDay \in Nat \ {0} /\ MaxRows \in Nat /\ MaxAttempts \in Nat \ {0}
    /\ \A sub \in Submissions :
          /\ sub.date \in Nat \ {0}
          /\ DOMAIN sub.values \subseteq SocialMetric
          /\ sub.values \in [DOMAIN sub.values -> Nat]

VARIABLES
    today,        \* the calendar day
    figures,      \* committed VisibilityObservation rows
    submitted,    \* content identity of every committed VisibilityEntryBatch
    nextKey,      \* the next primary key
    session,      \* Typists -> the transaction of the request
    lists,        \* what Smaily reports now
    revisions,    \* Day -> the published readings; the last one is current
    smaily,       \* SmailyFeedState
    lookup        \* the Smaily run

audienceVars == <<today, figures, submitted, nextKey, session, lists, revisions, smaily, lookup>>
typedVars == <<submitted, session>>
smailyVars == <<revisions, smaily, lookup>>

NoRow == 0

\* A newsletter one of whose lists is missing or renamed has no figure.
IsAvailable(reading, m) == \A g \in Newsletters[m] : reading[g].state = "read"

\* NewsletterAudience.total.
Total(reading, m) == MapThenSumSet(LAMBDA g : reading[g].count, Newsletters[m])

Value == Nat \cup {Total(reading, m) : reading \in Readings, m \in DOMAIN Newsletters}

\* supersedes is the key of the row a correction replaces.
Row == [key : 1..MaxRows, metric : Metric, date : Day, value : Value,
        supersedes : 0..MaxRows, current : BOOLEAN]

NoSubmission == [date |-> 1, values |-> <<>>, boxes |-> <<>>]

\* at is the place in the registry of the figure being written; mine the rows
\* written so far; seen the row the running SELECT ... FOR UPDATE has found;
\* previous the row it holds; locked all rows held.
Session == [pc : {"idle", "batch", "look", "lock", "insert"},
            submission : Submissions \cup {NoSubmission}, key : 0..MaxRows,
            at : 0..Len(Social), mine : SUBSET Row, seen : 0..MaxRows,
            previous : 0..MaxRows, locked : SUBSET (SocialMetric \X (1..MaxRows))]

IdleSession == [pc |-> "idle", submission |-> NoSubmission, key |-> 0,
                at |-> 0, mine |-> {}, seen |-> NoRow, previous |-> NoRow,
                locked |-> {}]

IdleLookup == [pc |-> "idle", day |-> 1, dry_run |-> FALSE, attempt |-> 0,
               got |-> CHOOSE r \in Readings : TRUE]

AudienceTypeOK ==
    /\ today \in Day
    /\ figures \subseteq Row
    /\ nextKey \in 1..(MaxRows + 1)
    /\ session \in [Typists -> Session]
    /\ lists \in Readings
    /\ revisions \in [Day -> Seq(Readings)]
    /\ smaily \in [last_result : {"never_run", "imported", "unchanged", "failed"},
                   last_period_end : 0..LastDay]
    /\ lookup \in [pc : {"idle", "request", "publish"}, day : Day, dry_run : BOOLEAN,
                   attempt : 0..MaxAttempts, got : Readings]

AudienceInit ==
    /\ today = 1
    /\ figures = {} /\ submitted = {} /\ nextKey = 1
    /\ session = [s \in Typists |-> IdleSession]
    /\ lists \in Readings
    /\ revisions = [d \in Day |-> <<>>]
    /\ smaily = [last_result |-> "never_run", last_period_end |-> 0]
    /\ lookup = IdleLookup

DayEnds ==
    /\ today < LastDay
    /\ today' = today + 1
    /\ UNCHANGED <<figures, nextKey, lists, typedVars, smailyVars>>

-----------------------------------------------------------------------------
(* The table. *)

CurrentRows(R, m, d) == {r \in R : r.metric = m /\ r.date = d /\ r.current}

\* lock_current and find_current, on the committed table.
CurrentKey(m, d) ==
    IF CurrentRows(figures, m, d) = {} THEN NoRow
    ELSE (CHOOSE r \in CurrentRows(figures, m, d) : TRUE).key

\* supersede_observation retires the row each of them replaces, and
\* publish_observation marks the new ones current.
PublishObservations(R, new) ==
    {IF \E n \in new : n.metric = r.metric /\ n.supersedes = r.key
     THEN [r EXCEPT !.current = FALSE] ELSE r : r \in R} \cup new

-----------------------------------------------------------------------------
(* Typed figures. *)

TypistAt(s, label) == session[s].pc = label

Supplied(submission) == DOMAIN submission.values

\* Mutant of NextFigure: the order in which the figures arrived.
NextTyped(submission, at) ==
    LET place(m) == CHOOSE i \in DOMAIN Social : Social[i] = m
        boxes == submission.boxes
        now == IF at = 0 THEN 0 ELSE CHOOSE j \in DOMAIN boxes : place(boxes[j]) = at
    IN  IF now = Len(boxes) THEN 0 ELSE place(boxes[now + 1])

\* publish_submission goes through the sources in registry order, and
\* _publish_source through their metrics; 0 after the last.
NextFigure(submission, at) ==
    LET later == {i \in DOMAIN Social : i > at /\ Social[i] \in Supplied(submission)}
    IN  IF later = {} THEN 0 ELSE Min(later)

\* canonical_sha256: the date and the figures, in no particular order.
ContentIdentity(submission) == <<submission.date, submission.values>>

\* build_preview's refusals: nothing typed, or a date in the future.
Acceptable(submission) == Supplied(submission) # {} /\ submission.date <= today

\* The confirmation step validates again; a submission that is already there is
\* returned and nothing is written.
ConfirmFigures(s, submission) ==
    /\ TypistAt(s, "idle")
    /\ nextKey <= MaxRows
    /\ Acceptable(submission)
    /\ ContentIdentity(submission) \notin submitted
    /\ session' = [session EXCEPT ![s] = [IdleSession EXCEPT
                      !.pc = "batch", !.submission = submission]]
    /\ UNCHANGED <<today, figures, submitted, nextKey, lists, smailyVars>>

HoldsIdentity(s) == session[s].pc \in {"look", "lock", "insert"}

SameIdentity(s, t) ==
    ContentIdentity(session[s].submission) = ContentIdentity(session[t].submission)

\* Insert the batch, waiting for whoever is inserting the same identity; when
\* that one has committed, the savepoint gives way and its batch is returned.
CreateBatch(s) ==
    /\ TypistAt(s, "batch")
    /\ nextKey <= MaxRows
    /\ \A t \in Typists \ {s} : ~(HoldsIdentity(t) /\ SameIdentity(s, t))
    /\ IF ContentIdentity(session[s].submission) \in submitted
       THEN session' = [session EXCEPT ![s] = IdleSession] /\ UNCHANGED nextKey
       ELSE /\ session' = [session EXCEPT ![s].pc = "look", ![s].key = nextKey,
                                         ![s].at = NextFigure(session[s].submission, 0)]
            /\ nextKey' = nextKey + 1
    /\ UNCHANGED <<today, figures, submitted, lists, smailyVars>>

ThisMetric(s) == Social[session[s].at]
ThisDate(s) == session[s].submission.date

\* lock_current: the SELECT finds the committed current row ...
LookForCurrent(s) ==
    /\ TypistAt(s, "look")
    /\ session' = [session EXCEPT ![s].pc = "lock",
                                  ![s].seen = CurrentKey(ThisMetric(s), ThisDate(s))]
    /\ UNCHANGED <<today, figures, submitted, nextKey, lists, smailyVars>>

\* A row is locked as <<metric, key>>: keys number transactions.
SeenRow(s) == IF session[s].seen = NoRow THEN {} ELSE {<<ThisMetric(s), session[s].seen>>}

\* ... waits for its lock, and drops it when it is no longer current.  It does
\* not look for the row that has replaced it.
StillCurrent(s) ==
    IF session[s].seen = CurrentKey(ThisMetric(s), ThisDate(s))
    THEN session[s].seen ELSE NoRow

LockCurrent(s) ==
    /\ TypistAt(s, "lock")
    /\ \A t \in Typists \ {s} : SeenRow(s) \cap session[t].locked = {}
    /\ session' = [session EXCEPT ![s].pc = "insert",
                                  ![s].previous = StillCurrent(s),
                                  ![s].locked = @ \cup SeenRow(s)]
    /\ UNCHANGED <<today, figures, submitted, nextKey, lists, smailyVars>>

\* Another transaction has written an uncommitted current row for the slot.
SlotTakenBy(t, m, d) == \E r \in session[t].mine : r.metric = m /\ r.date = d

\* The unique index on the current row of a metric and date.
IndexAllows(s) ==
    CurrentKey(ThisMetric(s), ThisDate(s)) \in {NoRow, session[s].previous}

NewRow(s) ==
    [key |-> session[s].key, metric |-> ThisMetric(s), date |-> ThisDate(s),
     value |-> session[s].submission.values[ThisMetric(s)], supersedes |-> session[s].previous,
     current |-> TRUE]

NextAfter(s) == NextFigure(session[s].submission, session[s].at)

\* Save and publish one figure, once nobody else's is there uncommitted.
MayWrite(s) ==
    /\ TypistAt(s, "insert")
    /\ \A t \in Typists \ {s} : ~SlotTakenBy(t, ThisMetric(s), ThisDate(s))
    /\ IndexAllows(s)

WriteFigure(s) ==
    /\ MayWrite(s)
    /\ NextAfter(s) # 0
    /\ session' = [session EXCEPT ![s].pc = "look", ![s].at = NextAfter(s),
                                  ![s].mine = @ \cup {NewRow(s)},
                                  ![s].seen = NoRow, ![s].previous = NoRow]
    /\ UNCHANGED <<today, figures, submitted, nextKey, lists, smailyVars>>

\* The last figure, and the commit of them all.
WriteLastFigure(s) ==
    /\ MayWrite(s)
    /\ NextAfter(s) = 0
    /\ figures' = PublishObservations(figures, session[s].mine \cup {NewRow(s)})
    /\ submitted' = submitted \cup {ContentIdentity(session[s].submission)}
    /\ session' = [session EXCEPT ![s] = IdleSession]
    /\ UNCHANGED <<today, nextKey, lists, smailyVars>>

\* The index refuses, or the connection is lost: nothing of the batch stays.
RollBack(s) ==
    /\ session[s].pc \in {"batch", "look", "lock", "insert"}
    /\ session' = [session EXCEPT ![s] = IdleSession]
    /\ UNCHANGED <<today, figures, submitted, nextKey, lists, smailyVars>>

-----------------------------------------------------------------------------
(* The Smaily lists. *)

ListsChange(reading) ==
    /\ reading # lists
    /\ lists' = reading
    /\ UNCHANGED <<today, figures, nextKey, typedVars, smailyVars>>

BeginSync(dryRun) ==
    /\ lookup.pc = "idle"
    /\ lookup' = [IdleLookup EXCEPT !.pc = "request", !.day = today, !.dry_run = dryRun]
    /\ UNCHANGED <<today, figures, nextKey, lists, typedVars, revisions, smaily>>

\* SmailyApiClient._get: a transient status is asked again, a bounded number of
\* times; anything else that is not a readable answer ends the run.
RetryRequest ==
    /\ lookup.pc = "request"
    /\ lookup.attempt < MaxAttempts - 1
    /\ lookup' = [lookup EXCEPT !.attempt = @ + 1]
    /\ UNCHANGED <<today, figures, nextKey, lists, typedVars, revisions, smaily>>

Failed == smaily' = [smaily EXCEPT !.last_result = "failed"]

RequestFails ==
    /\ lookup.pc = "request"
    /\ lookup' = IdleLookup
    /\ Failed
    /\ UNCHANGED <<today, figures, nextKey, lists, typedVars, revisions>>

CollectSegments ==
    /\ lookup.pc = "request"
    /\ lookup' = [lookup EXCEPT !.pc = "publish", !.got = lists]
    /\ UNCHANGED <<today, figures, nextKey, lists, typedVars, revisions, smaily>>

Shown(d) == IF revisions[d] = <<>> THEN {} ELSE {revisions[d][Len(revisions[d])]}

\* _publish_newsletter_metrics, for one newsletter: an unread list publishes
\* nothing, an unchanged one no revision.
NewsletterRow(reading, m, d, key) ==
    [key |-> key, metric |-> m, date |-> d, value |-> Total(reading, m),
     supersedes |-> CurrentKey(m, d), current |-> TRUE]

HasFigure(m, d, value) == \E r \in CurrentRows(figures, m, d) : r.value = value

Moved(reading, d) ==
    {m \in DOMAIN Newsletters : IsAvailable(reading, m) /\ ~HasFigure(m, d, Total(reading, m))}

\* The reading of the day is what it was.
FinishUnchanged ==
    /\ lookup.pc = "publish"
    /\ Shown(lookup.day) = {lookup.got}
    /\ smaily' = IF lookup.dry_run THEN smaily
               ELSE [smaily EXCEPT !.last_result = "unchanged", !.last_period_end = lookup.day]
    /\ lookup' = IdleLookup
    /\ UNCHANGED <<today, figures, nextKey, lists, typedVars, revisions>>

FinishDryRun ==
    /\ lookup.pc = "publish"
    /\ lookup.dry_run
    /\ Shown(lookup.day) # {lookup.got}
    /\ lookup' = IdleLookup
    /\ UNCHANGED <<today, figures, nextKey, lists, typedVars, revisions, smaily>>

\* One transaction: the snapshot, its segments, the newsletters that moved, and
\* the success of the run, whose key is the day's reading.
PublishReading ==
    LET new == {NewsletterRow(lookup.got, m, lookup.day, nextKey) : m \in Moved(lookup.got, lookup.day)}
    IN  /\ lookup.pc = "publish"
        /\ ~lookup.dry_run
        /\ nextKey <= MaxRows
        /\ \A i \in DOMAIN revisions[lookup.day] : revisions[lookup.day][i] # lookup.got
        /\ revisions' = [revisions EXCEPT ![lookup.day] = Append(@, lookup.got)]
        /\ figures' = PublishObservations(figures, new)
        /\ nextKey' = nextKey + 1
        /\ smaily' = [last_result |-> "imported", last_period_end |-> lookup.day]
        /\ lookup' = IdleLookup
        /\ UNCHANGED <<today, lists, typedVars>>

\* The transaction fails: always when the day has had this reading before and
\* left it, because its import key is taken.
PublishFails ==
    /\ lookup.pc = "publish"
    /\ ~lookup.dry_run
    /\ Shown(lookup.day) # {lookup.got}
    /\ lookup' = IdleLookup
    /\ Failed
    /\ UNCHANGED <<today, figures, nextKey, lists, typedVars, revisions>>

CrashSync ==
    /\ lookup.pc # "idle"
    /\ lookup' = IdleLookup
    /\ UNCHANGED <<today, figures, nextKey, lists, typedVars, revisions, smaily>>

TypedNext ==
    \E s \in Typists :
       \/ \E submission \in Submissions : ConfirmFigures(s, submission)
       \/ CreateBatch(s) \/ LookForCurrent(s) \/ LockCurrent(s)
       \/ WriteFigure(s) \/ WriteLastFigure(s) \/ RollBack(s)

ListsNext ==
    \/ \E reading \in Readings : ListsChange(reading)
    \/ \E dryRun \in BOOLEAN : BeginSync(dryRun)
    \/ RetryRequest \/ RequestFails \/ CollectSegments
    \/ FinishUnchanged \/ FinishDryRun \/ PublishReading \/ PublishFails \/ CrashSync

AudienceNext == DayEnds \/ TypedNext \/ ListsNext

AudienceSpec == AudienceInit /\ [][AudienceNext]_audienceVars

-----------------------------------------------------------------------------
(* Properties. *)

\* Corrections form one line: a figure is replaced by at most one other, and
\* the current one is the end of the line.  Two requests that both found the
\* old row current may not both become its correction.
CorrectionsFormALine ==
    \A m \in Metric, d \in Day :
        LET slot == {r \in figures : r.metric = m /\ r.date = d}
        IN  /\ \A r1, r2 \in slot : r1.supersedes = r2.supersedes => r1 = r2
            /\ \A r \in slot : r.current <=> ~\E q \in slot : q.supersedes = r.key

Waits(s, t) ==
    \/ TypistAt(s, "batch") /\ HoldsIdentity(t) /\ SameIdentity(s, t)
    \/ TypistAt(s, "lock") /\ SeenRow(s) \cap session[t].locked # {}
    \/ TypistAt(s, "insert") /\ SlotTakenBy(t, ThisMetric(s), ThisDate(s))

\* Requests that correct several figures at once never wait for each other in a
\* circle, because all of them take the metrics in the registry's order.
NoCircularWait ==
    ~\E S \in SUBSET Typists : S # {} /\ \A s \in S : \E t \in S \ {s} : Waits(s, t)

\* "An accidental double submit is recognised": the figures of two transactions
\* never carry the same submission, even when both were sent at once.
SubmittedOnce ==
    \A k1, k2 \in {r.key : r \in {q \in figures : q.metric \in SocialMetric}} :
        LET content(k) == {<<r.metric, r.date, r.value>> : r \in {q \in figures : q.key = k}}
        IN  content(k1) = content(k2) => k1 = k2

\* Whatever lists went missing or came back during a day, every newsletter the
\* day's reading has a figure for shows exactly that figure.
FiguresMatchReading ==
    \A d \in Day : \A reading \in Shown(d) : \A m \in DOMAIN Newsletters :
        IsAvailable(reading, m) => HasFigure(m, d, Total(reading, m))

\* Corrections form one line, a submission counts once, requests never wait for
\* each other in a circle, and a newsletter shows exactly the figure of the
\* day's reading.
FiguresStand ==
    CorrectionsFormALine /\ SubmittedOnce /\ NoCircularWait /\ FiguresMatchReading
=============================================================================
