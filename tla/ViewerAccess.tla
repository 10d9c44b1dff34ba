---------------------------- MODULE ViewerAccess ----------------------------
(***************************************************************************)
(* The viewer PIN (apps/access): the middleware that guards every page,    *)
(* the login view, check_pin with its rate-limit bucket, logout, the purge *)
(* of old buckets and the change of the PIN version by a deployment.       *)
(*                                                                         *)
(* The browsers are the ones behind one address: they share one bucket,    *)
(* and the buckets of different addresses share nothing.  PostgreSQL runs  *)
(* READ COMMITTED; a row is invisible to others until its creator commits. *)
(***************************************************************************)
EXTENDS Naturals, Sequences, FiniteSets

CONSTANTS
    Browsers,         \* requests of one browser are sequential
    FAILURE_LIMIT,    \* failures that lock the address
    WINDOW_DURATION,  \* length of the counting window
    LOCK_DURATION,    \* length of the lock
    PurgeAge,         \* a bucket unused this long may be purged
    MaxTime,          \* bound: the clock
    MaxVersion        \* bound: PIN versions

NobodyHolds == "nobody"

AccessAssumption ==
    /\ NobodyHolds \notin Browsers
    /\ FAILURE_LIMIT \in Nat \ {0}
    /\ {WINDOW_DURATION, LOCK_DURATION, PurgeAge} \subseteq Nat \ {0}
    /\ LOCK_DURATION >= WINDOW_DURATION
    /\ PurgeAge > WINDOW_DURATION
    /\ {MaxTime, MaxVersion} \subseteq Nat \ {0}

VARIABLES
    clock,     \* the time of day
    version,   \* VIEWER_PIN_VERSION of the running deployment
    bucket,    \* the committed ViewerRateLimitBucket row, or NoBucket
    holder,    \* the request that holds the row's lock or has inserted it
    browser,   \* Browsers -> page and request state
    attempts   \* history: times of the failed checks since the last success

accessVars == <<clock, version, bucket, holder, browser, attempts>>

Time == 0..MaxTime
NoLock == 0

Bucket == [window_started_at : Time,
           failure_count : Nat,
           locked_until : 0..(MaxTime + LOCK_DURATION),
           updated_at : Time]

NoBucket == [window_started_at |-> 0, failure_count |-> 0,
             locked_until |-> NoLock, updated_at |-> 0]

NoSession == 0

\* pc: leaving for a page, looking at the login form or at the page, or inside
\* check_pin; row is the bucket as the request has read it.
Browser == [pc : {"visit", "form", "page", "fetch", "create", "refetch", "evaluate"},
            session : 0..MaxVersion,
            now : Time,
            right : BOOLEAN,
            row : Bucket \cup {NoBucket}]

\* A request that has not come to check_pin yet.
Outside == [pc |-> "visit", session |-> NoSession, now |-> 0, right |-> FALSE,
            row |-> NoBucket]

AccessTypeOK ==
    /\ clock \in Time
    /\ version \in 1..MaxVersion
    /\ bucket \in Bucket \cup {NoBucket}
    /\ holder \in Browsers \cup {NobodyHolds}
    /\ browser \in [Browsers -> Browser]
    /\ attempts \in Seq(Time)

AccessInit ==
    /\ clock = 1
    /\ version = 1
    /\ bucket = NoBucket
    /\ holder = NobodyHolds
    /\ browser = [b \in Browsers |-> Outside]
    /\ attempts = <<>>

BrowserAt(b, label) == browser[b].pc = label

BrowserGoes(b, label) == browser' = [browser EXCEPT ![b].pc = label]

\* authenticated is True and the version is the deployment's.
SessionIsValid(b) == browser[b].session = version

-----------------------------------------------------------------------------
(* Pages. *)

\* ViewerAccessMiddleware: serve, or drop the stale session and redirect.
Visit(b) ==
    /\ BrowserAt(b, "visit")
    /\ IF SessionIsValid(b)
       THEN BrowserGoes(b, "page")
       ELSE browser' = [browser EXCEPT ![b].pc = "form", ![b].session = NoSession]
    /\ UNCHANGED <<clock, version, bucket, holder, attempts>>

\* The viewer follows a link: every page is guarded anew.
Browse(b) ==
    /\ BrowserAt(b, "page")
    /\ BrowserGoes(b, "visit")
    /\ UNCHANGED <<clock, version, bucket, holder, attempts>>

\* A second tab or a bookmark leads to the login page.
OpenLogin(b) ==
    /\ BrowserAt(b, "page")
    /\ BrowserGoes(b, "form")
    /\ UNCHANGED <<clock, version, bucket, holder, attempts>>

Logout(b) ==
    /\ BrowserAt(b, "page")
    /\ browser' = [browser EXCEPT ![b].pc = "form", ![b].session = NoSession]
    /\ UNCHANGED <<clock, version, bucket, holder, attempts>>

\* login_view sends a viewer with a valid session on to the page.
AlreadyIn(b) == SessionIsValid(b)

RedirectFromLogin(b) ==
    /\ BrowserAt(b, "form")
    /\ AlreadyIn(b)
    /\ BrowserGoes(b, "visit")
    /\ UNCHANGED <<clock, version, bucket, holder, attempts>>

\* login_view with a well-formed PIN: check_pin starts by reading the clock.
\* Nobody mistypes so late that the lock would outlast the bounded clock.
SubmitPin(b, right) ==
    /\ BrowserAt(b, "form")
    /\ ~AlreadyIn(b)
    /\ right \/ clock + LOCK_DURATION <= MaxTime
    /\ browser' = [browser EXCEPT ![b].pc = "fetch", ![b].now = clock,
                                  ![b].right = right]
    /\ UNCHANGED <<clock, version, bucket, holder, attempts>>

-----------------------------------------------------------------------------
(* check_pin. *)

\* Mutant of RowIsFree: the row is read without FOR UPDATE.
RowIsRead == TRUE

RowIsFree == holder = NobodyHolds

TakeRow(b) ==
    /\ holder' = b
    /\ browser' = [browser EXCEPT ![b].pc = "evaluate", ![b].row = bucket]

\* get_or_create: SELECT ... FOR UPDATE waits for the row's lock; a row that is
\* not there, or not committed yet, is not found.
Fetch(b) ==
    /\ BrowserAt(b, "fetch")
    /\ IF bucket = NoBucket
       THEN BrowserGoes(b, "create") /\ UNCHANGED holder
       ELSE RowIsFree /\ TakeRow(b)
    /\ UNCHANGED <<clock, version, bucket, attempts>>

\* The defaults of a new bucket.
NewBucket(now) == [window_started_at |-> now, failure_count |-> 0,
                   locked_until |-> NoLock, updated_at |-> now]

\* ... INSERT waits for an uncommitted row with the same key, and fails when
\* there is a committed one.
Create(b) ==
    /\ BrowserAt(b, "create")
    /\ RowIsFree
    /\ IF bucket = NoBucket
       THEN /\ holder' = b
            /\ browser' = [browser EXCEPT ![b].pc = "evaluate",
                                          ![b].row = NewBucket(browser[b].now)]
       ELSE BrowserGoes(b, "refetch") /\ UNCHANGED holder
    /\ UNCHANGED <<clock, version, bucket, attempts>>

\* ... and get_or_create reads the row again; when a success has deleted it
\* meanwhile the request ends with an error page.
Refetch(b) ==
    /\ BrowserAt(b, "refetch")
    /\ IF bucket = NoBucket
       THEN BrowserGoes(b, "form") /\ UNCHANGED holder
       ELSE RowIsFree /\ TakeRow(b)
    /\ UNCHANGED <<clock, version, bucket, attempts>>

\* Release the row at the end of the transaction and answer.
Answer(b, label, session) ==
    /\ holder' = NobodyHolds
    /\ browser' = [browser EXCEPT ![b] = [Outside EXCEPT !.pc = label,
                                                         !.session = session]]

KeepSession(b) == browser[b].session

\* Mutant of IsLocked: a lock once set is not compared with the clock.
LockedForGood(row, now) == row.locked_until # NoLock

IsLocked(row, now) == row.locked_until # NoLock /\ row.locked_until > now

\* A locked address is turned away without looking at the PIN.
TurnAway(b) ==
    /\ BrowserAt(b, "evaluate")
    /\ IsLocked(browser[b].row, browser[b].now)
    /\ Answer(b, "form", KeepSession(b))
    /\ bucket' = browser[b].row
    /\ UNCHANGED <<clock, version, attempts>>

\* The right PIN deletes the bucket and opens a session.
Admit(b) ==
    /\ BrowserAt(b, "evaluate")
    /\ ~IsLocked(browser[b].row, browser[b].now)
    /\ browser[b].right
    /\ bucket' = NoBucket
    /\ attempts' = <<>>
    /\ Answer(b, "visit", version)
    /\ UNCHANGED <<clock, version>>

WindowIsOver(row, now) == now >= row.window_started_at + WINDOW_DURATION

\* The bucket after one more failure.
CountFailure(row, now) ==
    LET fresh == IF WindowIsOver(row, now) THEN NewBucket(now) ELSE row
        count == fresh.failure_count + 1
    IN  [fresh EXCEPT !.failure_count = count,
                      !.locked_until = IF count >= FAILURE_LIMIT
                                       THEN now + LOCK_DURATION ELSE @,
                      !.updated_at = clock]

Refuse(b) ==
    /\ BrowserAt(b, "evaluate")
    /\ ~IsLocked(browser[b].row, browser[b].now)
    /\ ~browser[b].right
    /\ bucket' = CountFailure(browser[b].row, browser[b].now)
    /\ attempts' = Append(attempts, browser[b].now)
    /\ Answer(b, "form", KeepSession(b))
    /\ UNCHANGED <<clock, version>>

CheckPin(b) ==
    Fetch(b) \/ Create(b) \/ Refetch(b) \/ TurnAway(b) \/ Admit(b) \/ Refuse(b)

-----------------------------------------------------------------------------
(* Time, the purge and deployments. *)

\* A request waits for the row for less than a unit of time, so the clock moves at
\* most once between its reading of the time and its commit.
Tick ==
    /\ clock < MaxTime
    /\ \A b \in Browsers : browser[b].pc \in {"fetch", "create", "refetch", "evaluate"}
                              => browser[b].now = clock
    /\ clock' = clock + 1
    /\ UNCHANGED <<version, bucket, holder, browser, attempts>>

\* purge_viewer_rate_limits: DELETE waits for a locked row and checks it again.
Purge ==
    /\ bucket # NoBucket
    /\ RowIsFree
    /\ bucket.updated_at + PurgeAge < clock
    /\ bucket.locked_until = NoLock \/ bucket.locked_until <= clock
    /\ bucket' = NoBucket
    /\ UNCHANGED <<clock, version, holder, browser, attempts>>

\* A deployment with a new PIN: requests in flight die and roll back.
RotatePin ==
    /\ version < MaxVersion
    /\ version' = version + 1
    /\ holder' = NobodyHolds
    /\ browser' = [b \in Browsers |->
          IF browser[b].pc \in {"visit", "form", "page"} THEN browser[b]
          ELSE [Outside EXCEPT !.pc = "form", !.session = KeepSession(b)]]
    /\ UNCHANGED <<clock, bucket, attempts>>

AccessNext ==
    \/ \E b \in Browsers :
          \/ Visit(b) \/ Browse(b) \/ OpenLogin(b) \/ Logout(b)
          \/ RedirectFromLogin(b)
          \/ \E right \in BOOLEAN : SubmitPin(b, right)
          \/ CheckPin(b)
    \/ Tick \/ Purge \/ RotatePin

AccessSpec == AccessInit /\ [][AccessNext]_accessVars

(***************************************************************************)
(* Fairness: time passes, a request that has begun goes on, a redirect is  *)
(* followed, and a viewer who is refused tries again with the right PIN.   *)
(* Waiting for the row is strongly fair: PostgreSQL queues the waiters.    *)
(***************************************************************************)
AccessFairness ==
    /\ WF_accessVars(Tick)
    /\ \A b \in Browsers :
          /\ WF_accessVars(Visit(b) \/ RedirectFromLogin(b))
          /\ WF_accessVars(SubmitPin(b, TRUE))
          /\ SF_accessVars(CheckPin(b))

AccessFairSpec == AccessSpec /\ AccessFairness

-----------------------------------------------------------------------------
(* Properties. *)

\* However requests interleave, purges and new PINs included: in any window at
\* most 2 * FAILURE_LIMIT - 1 wrong PINs are looked at (a window's worth less
\* one just before it ends, and a full one after it; FAILURE_LIMIT and the two
\* durations of rate_limit.py).  A request is judged by the time it arrived, so
\* the bound is out by the unit it may have waited for the row.
RateBound ==
    LET most == 2 * FAILURE_LIMIT - 1
    IN  \A i \in DOMAIN attempts :
           i + most \in DOMAIN attempts
              => attempts[i + most] + 1 >= attempts[i] + WINDOW_DURATION

\* A failure counted in the window in force is never lost to a concurrent
\* request (the FOR UPDATE of check_pin): once FAILURE_LIMIT of the failures
\* fall into the window of the bucket, the bucket is locked.
FailuresLock ==
    LET counted == {i \in DOMAIN attempts : attempts[i] >= bucket.window_started_at}
    IN  bucket # NoBucket /\ Cardinality(counted) >= FAILURE_LIMIT => bucket.locked_until # NoLock

PinIsGuarded == FailuresLock /\ RateBound

\* A viewer who keeps entering the right PIN gets to the page, although others
\* behind the address mistype, lock it, or the PIN version changes under an old
\* session: being turned away does not prolong the lock, and the login view and
\* the middleware agree on which session is valid.
EventuallyServed == \A b \in Browsers : []<>(BrowserAt(b, "page"))
=============================================================================
