----------------------------- MODULE ViewingProofs -----------------------------
(***************************************************************************)
(* Proofs about what a reader meets.                                       *)
(*                                                                         *)
(* ViewerAccess, whatever the limit, the durations and the number of       *)
(* browsers behind the address: no counted failure is lost and the wrong   *)
(* PINs that are looked at keep to the rate.  The rate is a fact about     *)
(* failures that may lie two windows apart, the bucket remembers one       *)
(* window.  The invariant therefore places every failure by what the       *)
(* bucket says of it: which failures the count stands for, how long before *)
(* the window the ones before it lie, and what a lock says of the last one.*)
(*                                                                         *)
(* EventMatching, for any programmes, pages and corrections: a link the    *)
(* Chamber did not enter is to a page the event deserved when it was       *)
(* matched.                                                                *)
(*                                                                         *)
(* OpinionMatching, for any registers, catalogues and corpora: an opinion  *)
(* is shown only where it answers the record alone, one record per letter, *)
(* under a key no two records share.                                       *)
(*                                                                         *)
(* TopicMatching, for any registers, listings and archives: a consultation *)
(* is offered only where the snapshots that are current single it out, and *)
(* the archive speaks only for what the judged listing left unanswered.    *)
(***************************************************************************)
EXTENDS ViewerAccess, EventMatching, OpinionMatching, TopicMatching,
        FiniteSetTheorems, NaturalsInduction, WellFoundedInduction, TLAPS

-----------------------------------------------------------------------------
(* The viewer PIN: the inductive invariant. *)

InCheck == {"fetch", "create", "refetch", "evaluate"}

\* A request has read the time now or a unit ago.
RequestsAreRecent ==
    \A b \in Browsers : browser[b].pc \in InCheck => browser[b].now <= clock /\ clock <= browser[b].now + 1

\* One request at a time evaluates the row, and it has the row as it is
\* committed or the one it has inserted itself.
OneEvaluates ==
    \A b \in Browsers :
        /\ browser[b].pc = "evaluate" <=> holder = b
        /\ browser[b].pc = "evaluate" =>
              IF bucket = NoBucket THEN browser[b].row = NewBucket(browser[b].now)
              ELSE browser[b].row = bucket

\* Without a bucket every failure is long past.
ForgottenAreOld == bucket = NoBucket => \A i \in DOMAIN attempts : attempts[i] + PurgeAge < clock

\* The failures before the ones the bucket counts.
Before == Len(attempts) - bucket.failure_count

\* The bucket counts the failures since its window began ...
CountsTheLast ==
    /\ bucket.failure_count \in 1..Len(attempts)
    /\ attempts[Before + 1] = bucket.window_started_at
    /\ \A i \in 1..Before : attempts[i] < bucket.window_started_at
    /\ \A i \in 1..Len(attempts) : attempts[i] < bucket.window_started_at + WINDOW_DURATION

\* ... of the ones before, all but FAILURE_LIMIT - 1 are a window older ...
EarlierAreRare ==
    \A i \in 1..(Before + 1 - FAILURE_LIMIT) :
        attempts[i] + WINDOW_DURATION <= bucket.window_started_at

\* ... a full count locks from the last failure on, and a failure beyond it
\* came after a lock.
FullLocks ==
    LET last == attempts[Len(attempts)]
    IN  /\ bucket.failure_count >= FAILURE_LIMIT => bucket.locked_until = last + LOCK_DURATION
        /\ bucket.failure_count > FAILURE_LIMIT =>
              \A i \in 1..(Len(attempts) - 1) : attempts[i] + WINDOW_DURATION <= last + 1

\* Neither the bucket nor a failure is of the future, and the last failure is
\* the latest but for the unit its request may have waited.
BucketIsPast ==
    /\ bucket.window_started_at <= clock /\ bucket.updated_at <= clock
    /\ \A i \in 1..Len(attempts) :
          attempts[i] <= bucket.updated_at /\ attempts[i] <= attempts[Len(attempts)] + 1

BucketStands ==
    bucket # NoBucket => CountsTheLast /\ EarlierAreRare /\ FullLocks /\ BucketIsPast

PinInv == RequestsAreRecent /\ OneEvaluates /\ ForgottenAreOld /\ BucketStands /\ RateBound

-----------------------------------------------------------------------------
(* Constants, types, and what one more failure does to the history. *)

LEMMA Constants ==
  ASSUME AccessAssumption
  PROVE  /\ FAILURE_LIMIT \in Nat /\ FAILURE_LIMIT >= 1
         /\ WINDOW_DURATION \in Nat /\ WINDOW_DURATION >= 1
         /\ LOCK_DURATION \in Nat /\ LOCK_DURATION >= WINDOW_DURATION
         /\ PurgeAge \in Nat /\ PurgeAge > WINDOW_DURATION
         /\ MaxTime \in Nat /\ MaxTime >= 1 /\ MaxVersion \in Nat /\ MaxVersion >= 1
         /\ NobodyHolds \notin Browsers
<1>1. FAILURE_LIMIT \in Nat \ {0} /\ WINDOW_DURATION \in Nat \ {0} /\ LOCK_DURATION \in Nat \ {0}
  BY DEF AccessAssumption
<1>2. PurgeAge \in Nat \ {0} /\ MaxTime \in Nat \ {0} /\ MaxVersion \in Nat \ {0}
  BY DEF AccessAssumption
<1> QED BY <1>1, <1>2 DEF AccessAssumption

LEMMA BucketTypes ==
  ASSUME AccessAssumption
  PROVE  NoBucket \in Bucket /\ \A t \in Time : NewBucket(t) \in Bucket
<1>1. 0 \in Time /\ 0 \in 0..(MaxTime + LOCK_DURATION)
  BY Constants DEF Time
<1> QED BY <1>1 DEF NoBucket, NewBucket, Bucket, NoLock

LEMMA BucketFields ==
  ASSUME AccessAssumption, AccessTypeOK
  PROVE  /\ bucket \in Bucket /\ clock \in Nat
         /\ bucket.failure_count \in Nat /\ bucket.window_started_at \in Nat
         /\ bucket.locked_until \in Nat /\ bucket.updated_at \in Nat
         /\ attempts \in Seq(Time) /\ DOMAIN attempts = 1..Len(attempts) /\ Len(attempts) \in Nat
         /\ \A i \in 1..Len(attempts) : attempts[i] \in Nat
<1>1. bucket \in Bucket
  BY BucketTypes DEF AccessTypeOK
<1>2. Time \subseteq Nat /\ 0..(MaxTime + LOCK_DURATION) \subseteq Nat
  BY Constants DEF Time
<1>3. attempts \in Seq(Time)
  BY DEF AccessTypeOK
<1>4. DOMAIN attempts = 1..Len(attempts) /\ Len(attempts) \in Nat
      /\ \A i \in 1..Len(attempts) : attempts[i] \in Time
  BY <1>3
<1>5. clock \in Nat
  BY <1>2 DEF AccessTypeOK
<1>6. /\ bucket.failure_count \in Nat /\ bucket.window_started_at \in Time
      /\ bucket.locked_until \in 0..(MaxTime + LOCK_DURATION) /\ bucket.updated_at \in Time
  BY <1>1 DEF Bucket
<1> QED BY <1>1, <1>2, <1>3, <1>4, <1>5, <1>6

\* One more failure stands at the end.
LEMMA OneMore ==
  ASSUME AccessAssumption, AccessTypeOK, NEW t \in Nat, attempts' = Append(attempts, t)
  PROVE  /\ Len(attempts') = Len(attempts) + 1 /\ DOMAIN attempts' = 1..(Len(attempts) + 1)
         /\ attempts'[Len(attempts) + 1] = t
         /\ \A i \in 1..Len(attempts) : attempts'[i] = attempts[i]
  BY BucketFields

\* What the rate asks of one more failure.
LEMMA RateOfOneMore ==
  ASSUME AccessAssumption, AccessTypeOK, RateBound, NEW t \in Nat, attempts' = Append(attempts, t),
         LET i == Len(attempts) + 2 - 2 * FAILURE_LIMIT
         IN  i >= 1 => t + 1 >= attempts[i] + WINDOW_DURATION
  PROVE  RateBound'
<1> DEFINE most == 2 * FAILURE_LIMIT - 1
           n == Len(attempts)
<1>0. FAILURE_LIMIT \in Nat /\ FAILURE_LIMIT >= 1
  BY Constants
<1>1. most \in Nat /\ most >= 1 /\ n \in Nat
  BY <1>0, BucketFields
<1>2. DOMAIN attempts' = 1..(n + 1) /\ DOMAIN attempts = 1..n
  BY OneMore, BucketFields
<1>3. SUFFICES ASSUME NEW i \in 1..(n + 1), i + most \in 1..(n + 1)
               PROVE  attempts'[i + most] + 1 >= attempts'[i] + WINDOW_DURATION
  BY <1>2 DEF RateBound
<1>4. i \in 1..n /\ attempts'[i] = attempts[i]
  BY <1>1, <1>3, OneMore
<1>5. CASE i + most = n + 1
  <2>1. i = n + 2 - 2 * FAILURE_LIMIT /\ i >= 1
    BY <1>0, <1>1, <1>3, <1>5
  <2>2. t + 1 >= attempts[i] + WINDOW_DURATION
    BY <2>1
  <2>3. attempts'[i + most] = t
    BY <1>5, OneMore
  <2> QED BY <1>4, <2>2, <2>3
<1>6. CASE i + most # n + 1
  <2>1. i + most \in 1..n
    BY <1>1, <1>3, <1>6
  <2>2. attempts'[i + most] = attempts[i + most]
    BY <2>1, OneMore
  <2>3. attempts[i + most] + 1 >= attempts[i] + WINDOW_DURATION
    BY <1>2, <1>4, <2>1 DEF RateBound
  <2> QED BY <1>4, <2>2, <2>3
<1> QED BY <1>5, <1>6

-----------------------------------------------------------------------------
(* A failure is counted. *)

\* The bucket after a failure that begins a window: every earlier failure lies
\* before it, all but FAILURE_LIMIT - 1 of them by a whole window.
LEMMA BeginsWindow ==
  ASSUME AccessAssumption, AccessTypeOK, RateBound, NEW t \in Time, t <= clock,
         attempts' = Append(attempts, t), clock' = clock,
         bucket'.window_started_at = t, bucket'.failure_count = 1, bucket'.updated_at = clock,
         bucket'.locked_until = IF 1 >= FAILURE_LIMIT THEN t + LOCK_DURATION ELSE NoLock,
         \A i \in 1..Len(attempts) : attempts[i] < t /\ attempts[i] <= clock,
         \A i \in 1..(Len(attempts) + 1 - FAILURE_LIMIT) : attempts[i] + WINDOW_DURATION <= t
  PROVE  BucketStands' /\ RateBound'
<1> DEFINE n == Len(attempts)
<1>0. /\ FAILURE_LIMIT \in Nat /\ FAILURE_LIMIT >= 1 /\ WINDOW_DURATION \in Nat /\ WINDOW_DURATION >= 1
      /\ LOCK_DURATION \in Nat /\ LOCK_DURATION >= WINDOW_DURATION /\ MaxTime \in Nat
  BY Constants
<1>1. t \in Nat /\ n \in Nat /\ clock \in Nat
  BY <1>0, BucketFields DEF Time, AccessTypeOK
<1>2. /\ Len(attempts') = n + 1 /\ DOMAIN attempts' = 1..(n + 1) /\ attempts'[n + 1] = t
      /\ \A i \in 1..n : attempts'[i] = attempts[i] /\ attempts[i] \in Nat
  BY <1>0, <1>1, OneMore, BucketFields
<1>5. Before' = n
  BY <1>0, <1>1, <1>2 DEF Before
<1>6. CountsTheLast'
  BY <1>0, <1>1, <1>2, <1>5 DEF CountsTheLast
<1>7. EarlierAreRare'
  <2>1. \A i \in 1..(n + 1 - FAILURE_LIMIT) : i \in 1..n
    BY <1>0, <1>1
  <2> QED BY <1>2, <1>5, <2>1 DEF EarlierAreRare
<1>8. FullLocks'
  <2>1. attempts'[Len(attempts')] = t /\ ~(1 > FAILURE_LIMIT)
    BY <1>0, <1>1, <1>2
  <2> QED BY <1>0, <2>1 DEF FullLocks
<1>9. BucketIsPast'
  <2>1. \A i \in 1..(n + 1) : attempts'[i] <= clock /\ attempts'[i] <= t + 1
    BY <1>0, <1>1, <1>2
  <2>2. attempts'[Len(attempts')] = t /\ Len(attempts') = n + 1
    BY <1>2
  <2> QED BY <1>1, <2>1, <2>2 DEF BucketIsPast
<1>10. RateBound'
  <2>1. n + 2 - 2 * FAILURE_LIMIT >= 1 => n + 2 - 2 * FAILURE_LIMIT \in 1..(n + 1 - FAILURE_LIMIT)
    BY <1>0, <1>1
  <2>2. \A i \in 1..(n + 1 - FAILURE_LIMIT) : i \in 1..n
    BY <1>0, <1>1
  <2>3. n + 2 - 2 * FAILURE_LIMIT >= 1 =>
          t + 1 >= attempts[n + 2 - 2 * FAILURE_LIMIT] + WINDOW_DURATION
    BY <1>0, <1>1, <1>2, <2>1, <2>2
  <2> QED BY <1>0, <1>1, <2>3, RateOfOneMore
<1> QED BY <1>6, <1>7, <1>8, <1>9, <1>10 DEF BucketStands

\* The bucket after a failure in the window in force: a full bucket's lock has
\* expired, and a bucket that is not full has few failures before it.
LEMMA GoesOn ==
  ASSUME AccessAssumption, AccessTypeOK, RateBound, BucketStands, bucket # NoBucket,
         NEW t \in Time, t <= clock, clock <= t + 1,
         attempts' = Append(attempts, t), clock' = clock,
         ~IsLocked(bucket, t), ~WindowIsOver(bucket, t),
         bucket'.window_started_at = bucket.window_started_at,
         bucket'.failure_count = bucket.failure_count + 1, bucket'.updated_at = clock,
         bucket'.locked_until = IF bucket.failure_count + 1 >= FAILURE_LIMIT
                                THEN t + LOCK_DURATION ELSE bucket.locked_until
  PROVE  BucketStands' /\ RateBound'
<1> DEFINE n == Len(attempts)
           k == bucket.failure_count
           ws == bucket.window_started_at
<1>0. /\ FAILURE_LIMIT \in Nat /\ FAILURE_LIMIT >= 1 /\ WINDOW_DURATION \in Nat /\ WINDOW_DURATION >= 1
      /\ LOCK_DURATION \in Nat /\ LOCK_DURATION >= WINDOW_DURATION /\ MaxTime \in Nat
  BY Constants
<1>1. t \in Nat /\ n \in Nat /\ clock \in Nat /\ k \in Nat /\ ws \in Nat
  BY <1>0, BucketFields DEF Time, AccessTypeOK
<1>2. /\ Len(attempts') = n + 1 /\ DOMAIN attempts' = 1..(n + 1) /\ attempts'[n + 1] = t
      /\ \A i \in 1..n : attempts'[i] = attempts[i] /\ attempts[i] \in Nat
  BY <1>0, <1>1, OneMore, BucketFields
<1>3. bucket'.window_started_at = ws /\ bucket'.failure_count = k + 1
  OBVIOUS
<1>5. Before' = Before /\ Before \in Nat /\ Before = n - k /\ k >= 1 /\ k <= n
  <2>1. k \in 1..n
    BY DEF BucketStands, CountsTheLast
  <2>2. Before = n - k
    BY DEF Before
  <2>3. Before' = (n + 1) - (k + 1)
    BY <1>2, <1>3 DEF Before
  <2> QED BY <1>1, <2>1, <2>2, <2>3
<1>6. /\ attempts[Before + 1] = ws
      /\ \A i \in 1..Before : attempts[i] < ws
      /\ \A i \in 1..n : attempts[i] < ws + WINDOW_DURATION
      /\ \A i \in 1..(Before + 1 - FAILURE_LIMIT) : attempts[i] + WINDOW_DURATION <= ws
      /\ ws <= clock /\ \A i \in 1..n : attempts[i] <= clock /\ attempts[i] <= attempts[n] + 1
  <2>1. \A i \in 1..n : attempts[i] <= bucket.updated_at /\ attempts[i] \in Nat
    BY <1>2, BucketFields DEF BucketStands, BucketIsPast
  <2>2. bucket.updated_at \in Nat /\ bucket.updated_at <= clock
    BY BucketFields DEF BucketStands, BucketIsPast
  <2>3. \A i \in 1..n : attempts[i] <= clock
    BY <1>0, <1>1, <2>1, <2>2
  <2>4. \A i \in 1..n : attempts[i] <= attempts[n] + 1
    BY DEF BucketStands, BucketIsPast
  <2> QED BY <2>3, <2>4 DEF BucketStands, CountsTheLast, EarlierAreRare, BucketIsPast
<1>7. t < ws + WINDOW_DURATION
  BY <1>0, <1>1 DEF WindowIsOver
<1>8. CountsTheLast'
  <2>1. bucket'.failure_count \in 1..Len(attempts')
    BY <1>1, <1>2, <1>3, <1>5
  <2>2. Before + 1 \in 1..n /\ 1..Before \subseteq 1..n
    BY <1>1, <1>5
  <2>3. attempts'[Before' + 1] = bucket'.window_started_at
    BY <1>2, <1>3, <1>5, <1>6, <2>2
  <2>4. \A i \in 1..Before' : attempts'[i] < bucket'.window_started_at
    BY <1>2, <1>3, <1>5, <1>6, <2>2
  <2>5. \A i \in 1..(n + 1) : attempts'[i] < ws + WINDOW_DURATION
    BY <1>1, <1>2, <1>6, <1>7
  <2> QED BY <1>2, <1>3, <2>1, <2>3, <2>4, <2>5 DEF CountsTheLast
<1>9. EarlierAreRare'
  <2>1. \A i \in 1..(Before + 1 - FAILURE_LIMIT) : i \in 1..n
    BY <1>0, <1>1, <1>5
  <2> QED BY <1>2, <1>3, <1>5, <1>6, <2>1 DEF EarlierAreRare
<1>10. k >= FAILURE_LIMIT => \A i \in 1..n : attempts[i] + WINDOW_DURATION <= t + 1
  <2> SUFFICES ASSUME k >= FAILURE_LIMIT, NEW i \in 1..n PROVE attempts[i] + WINDOW_DURATION <= t + 1
    OBVIOUS
  <2>1. bucket.locked_until = attempts[n] + LOCK_DURATION /\ n \in 1..n
    BY <1>0, <1>1, <1>5 DEF BucketStands, FullLocks
  <2>2. attempts[n] + LOCK_DURATION <= t
    BY <1>0, <1>1, <1>2, <2>1 DEF IsLocked, NoLock
  <2>3. attempts[i] <= attempts[n] + 1 /\ attempts[n] \in Nat /\ attempts[i] \in Nat
    BY <1>2, <1>6, <2>1
  <2> QED BY <1>0, <1>1, <2>2, <2>3
<1>11. FullLocks'
  <2>1. (Len(attempts))' - 1 = n
    BY <1>0, <1>1, <1>2
  <2>2. k + 1 > FAILURE_LIMIT => k >= FAILURE_LIMIT
    BY <1>0, <1>1
  <2> QED BY <1>2, <1>3, <1>10, <2>1, <2>2 DEF FullLocks
<1>12. BucketIsPast'
  <2>1. \A i \in 1..(n + 1) : attempts'[i] <= clock /\ attempts'[i] <= t + 1
    BY <1>0, <1>1, <1>2, <1>6
  <2>2. attempts'[Len(attempts')] = t /\ Len(attempts') = n + 1
    BY <1>2
  <2> QED BY <1>1, <1>3, <1>6, <2>1, <2>2 DEF BucketIsPast
<1>13. RateBound'
  <2> DEFINE i == n + 2 - 2 * FAILURE_LIMIT
  <2>1. SUFFICES ASSUME i >= 1 PROVE t + 1 >= attempts[i] + WINDOW_DURATION
    BY <1>0, <1>1, RateOfOneMore
  <2>2. i \in 1..n
    BY <1>0, <1>1, <2>1
  <2>3. attempts[i] \in Nat
    BY <1>2, <2>2
  <2>4. CASE k >= FAILURE_LIMIT
    BY <1>0, <1>1, <1>10, <2>2, <2>3, <2>4
  <2>5. CASE k < FAILURE_LIMIT
    <3>1. i \in 1..(Before + 1 - FAILURE_LIMIT)
      BY <1>0, <1>1, <1>5, <2>1, <2>5
    <3>2. attempts[i] + WINDOW_DURATION <= ws
      BY <1>6, <3>1
    <3> QED BY <1>0, <1>1, <1>6, <2>3, <3>2
  <2> QED BY <1>0, <1>1, <2>4, <2>5
<1> QED BY <1>8, <1>9, <1>11, <1>12, <1>13 DEF BucketStands

\* What was said of the failures when they were counted places them before a
\* window that begins now.
LEMMA WindowEnds ==
  ASSUME AccessAssumption, AccessTypeOK, BucketStands, bucket # NoBucket, NEW t \in Time, t <= clock,
         ~IsLocked(bucket, t), WindowIsOver(bucket, t)
  PROVE  /\ \A i \in 1..Len(attempts) : attempts[i] < t /\ attempts[i] <= clock
         /\ \A i \in 1..(Len(attempts) + 1 - FAILURE_LIMIT) : attempts[i] + WINDOW_DURATION <= t
<1> DEFINE n == Len(attempts)
           k == bucket.failure_count
           ws == bucket.window_started_at
<1>0. /\ FAILURE_LIMIT \in Nat /\ FAILURE_LIMIT >= 1 /\ WINDOW_DURATION \in Nat /\ WINDOW_DURATION >= 1
      /\ LOCK_DURATION \in Nat /\ LOCK_DURATION >= WINDOW_DURATION /\ MaxTime \in Nat
  BY Constants
<1>1. /\ t \in Nat /\ n \in Nat /\ clock \in Nat /\ k \in Nat /\ ws \in Nat
      /\ \A i \in 1..n : attempts[i] \in Nat
  BY <1>0, BucketFields DEF Time
<1>2. k >= 1 /\ k <= n /\ Before = n - k
  BY DEF BucketStands, CountsTheLast, Before
<1>3. /\ attempts[n - k + 1] = ws
      /\ \A i \in 1..(n - k) : attempts[i] < ws
      /\ \A i \in 1..n : attempts[i] < ws + WINDOW_DURATION
  BY <1>2 DEF BucketStands, CountsTheLast
<1>4. ws + WINDOW_DURATION <= t
  BY <1>0, <1>1 DEF WindowIsOver
<1>5. \A i \in 1..n : attempts[i] < t /\ attempts[i] <= clock
  BY <1>0, <1>1, <1>3, <1>4
<1>6. ASSUME NEW i \in 1..(n + 1 - FAILURE_LIMIT)
      PROVE  attempts[i] + WINDOW_DURATION <= t
  <2>1. i \in 1..n /\ attempts[i] \in Nat
    BY <1>0, <1>1
  <2>2. CASE i <= n - k
    <3>1. attempts[i] < ws
      BY <1>1, <1>2, <1>3, <2>1, <2>2
    <3> QED BY <1>0, <1>1, <1>4, <2>1, <3>1
  <2>3. CASE i = n - k + 1
    BY <1>0, <1>1, <1>3, <1>4, <2>1, <2>3
  <2>4. CASE i > n - k + 1
    <3>1. k > FAILURE_LIMIT
      BY <1>0, <1>1, <1>2, <2>1, <2>4
    <3>2. bucket.locked_until = attempts[n] + LOCK_DURATION
      BY <1>0, <1>1, <3>1 DEF BucketStands, FullLocks
    <3>3. attempts[n] \in Nat /\ attempts[n] + LOCK_DURATION <= t
      BY <1>0, <1>1, <1>2, <3>2 DEF IsLocked, NoLock
    <3>4. attempts[i] <= attempts[n] + 1
      BY <2>1 DEF BucketStands, BucketIsPast
    <3>5. i # n => attempts[i] + WINDOW_DURATION <= attempts[n] + 1
      BY <1>1, <2>1, <3>1 DEF BucketStands, FullLocks
    <3>6. CASE i = n
      BY <1>0, <1>1, <3>3, <3>6
    <3>7. CASE i # n
      BY <1>0, <1>1, <2>1, <3>3, <3>5, <3>7
    <3> QED BY <3>6, <3>7
  <2> QED BY <1>1, <1>2, <2>1, <2>2, <2>3, <2>4
<1> QED BY <1>5, <1>6

\* So long after a purge every failure lies far before a window that begins now.
LEMMA NothingCounts ==
  ASSUME AccessAssumption, AccessTypeOK, ForgottenAreOld, bucket = NoBucket,
         NEW t \in Time, t <= clock, clock <= t + 1
  PROVE  /\ \A i \in 1..Len(attempts) : attempts[i] < t /\ attempts[i] <= clock
         /\ \A i \in 1..(Len(attempts) + 1 - FAILURE_LIMIT) : attempts[i] + WINDOW_DURATION <= t
<1>0. /\ FAILURE_LIMIT \in Nat /\ FAILURE_LIMIT >= 1 /\ WINDOW_DURATION \in Nat /\ WINDOW_DURATION >= 1
      /\ PurgeAge \in Nat /\ PurgeAge > WINDOW_DURATION /\ MaxTime \in Nat
  BY Constants
<1>1. /\ t \in Nat /\ Len(attempts) \in Nat /\ clock \in Nat
      /\ \A i \in 1..Len(attempts) : attempts[i] \in Nat /\ attempts[i] + PurgeAge < clock
  <2>1. DOMAIN attempts = 1..Len(attempts) /\ \A i \in 1..Len(attempts) : attempts[i] \in Nat
    BY BucketFields
  <2>2. \A i \in DOMAIN attempts : attempts[i] + PurgeAge < clock
    BY DEF ForgottenAreOld
  <2>3. t \in Nat /\ Len(attempts) \in Nat /\ clock \in Nat
    BY <1>0, BucketFields DEF Time
  <2> QED BY <2>1, <2>2, <2>3
<1>2. \A i \in 1..Len(attempts) : attempts[i] + WINDOW_DURATION <= t
  BY <1>0, <1>1
<1>3. \A i \in 1..(Len(attempts) + 1 - FAILURE_LIMIT) : i \in 1..Len(attempts)
  BY <1>0, <1>1
<1> QED BY <1>0, <1>1, <1>2, <1>3

\* check_pin counts a wrong PIN.
LEMMA RefuseCounts ==
  ASSUME AccessAssumption, AccessTypeOK, PinInv, NEW b \in Browsers, Refuse(b)
  PROVE  bucket' \in Bucket /\ bucket'.failure_count >= 1 /\ BucketStands' /\ RateBound'
<1> DEFINE t == browser[b].now
           row == browser[b].row
           over == WindowIsOver(row, t)
           count == IF over THEN 1 ELSE row.failure_count + 1
           lock == IF count >= FAILURE_LIMIT THEN t + LOCK_DURATION
                   ELSE IF over THEN NoLock ELSE row.locked_until
           start == IF over THEN t ELSE row.window_started_at
<1>0. /\ FAILURE_LIMIT \in Nat /\ FAILURE_LIMIT >= 1 /\ WINDOW_DURATION \in Nat /\ WINDOW_DURATION >= 1
      /\ LOCK_DURATION \in Nat /\ MaxTime \in Nat
  BY Constants
<1>1. /\ browser[b].pc = "evaluate" /\ ~IsLocked(row, t) /\ bucket' = CountFailure(row, t)
      /\ attempts' = Append(attempts, t) /\ clock' = clock
  BY DEF Refuse, BrowserAt
<1>2. browser[b] \in Browser
  BY DEF AccessTypeOK
<1>3. t \in Time /\ row \in Bucket /\ clock \in Time
  BY <1>2, BucketTypes DEF Browser, AccessTypeOK
<1>4. t <= clock /\ clock <= t + 1
  BY <1>1 DEF PinInv, RequestsAreRecent, InCheck
<1>5. IF bucket = NoBucket THEN row = NewBucket(t) ELSE row = bucket
  BY <1>1 DEF PinInv, OneEvaluates
<1>6. /\ row.failure_count \in Nat /\ row.window_started_at \in Time
      /\ row.locked_until \in 0..(MaxTime + LOCK_DURATION)
  BY <1>3 DEF Bucket
<1>61. bucket # NoBucket => /\ row.failure_count = bucket.failure_count /\ row.locked_until = bucket.locked_until
                            /\ row.window_started_at = bucket.window_started_at
  BY <1>5
<1> HIDE DEF t, row
<1>7. bucket' = [window_started_at |-> start, failure_count |-> count, locked_until |-> lock,
                 updated_at |-> clock]
  <2>1. CASE over
    <3>1. NewBucket(t) \in Bucket /\ NewBucket(t).failure_count = 0 /\ NewBucket(t).locked_until = NoLock
          /\ NewBucket(t).window_started_at = t
      BY <1>3, BucketTypes DEF NewBucket
    <3>2. CountFailure(row, t) =
             [NewBucket(t) EXCEPT !.failure_count = NewBucket(t).failure_count + 1,
                                  !.locked_until = IF NewBucket(t).failure_count + 1 >= FAILURE_LIMIT
                                                   THEN t + LOCK_DURATION ELSE NewBucket(t).locked_until,
                                  !.updated_at = clock]
      BY <2>1 DEF CountFailure
    <3>3. NewBucket(t).failure_count + 1 = 1 /\ count = 1 /\ start = t
          /\ lock = IF 1 >= FAILURE_LIMIT THEN t + LOCK_DURATION ELSE NoLock
      BY <2>1, <3>1
    <3> HIDE DEF lock, count, start, over
    <3>4. CountFailure(row, t) = [NewBucket(t) EXCEPT !.failure_count = count, !.locked_until = lock,
                                                      !.updated_at = clock]
      BY <3>1, <3>2, <3>3
    <3> QED BY <1>1, <3>1, <3>3, <3>4 DEF Bucket
  <2>2. CASE ~over
    BY <1>1, <1>3, <2>2 DEF CountFailure, Bucket
  <2> QED BY <2>1, <2>2
<1>8. start \in Time /\ count \in Nat /\ count >= 1 /\ lock \in 0..(MaxTime + LOCK_DURATION)
  <2>1. start \in Time
    BY <1>3, <1>6
  <2>2. count \in Nat /\ count >= 1
    BY <1>6
  <2>3. t + LOCK_DURATION \in 0..(MaxTime + LOCK_DURATION) /\ NoLock \in 0..(MaxTime + LOCK_DURATION)
    BY <1>0, <1>3 DEF NoLock, Time
  <2>4. lock \in 0..(MaxTime + LOCK_DURATION)
    BY <1>6, <2>3
  <2> QED BY <2>1, <2>2, <2>4
<1>9. bucket' \in Bucket /\ bucket'.failure_count >= 1
  BY <1>3, <1>7, <1>8 DEF Bucket
<1>10. /\ bucket'.window_started_at = start /\ bucket'.failure_count = count
       /\ bucket'.locked_until = lock /\ bucket'.updated_at = clock
  BY <1>7
<1>11. CASE bucket = NoBucket
  <2>1. row = NewBucket(t) /\ row.failure_count = 0 /\ row.window_started_at = t /\ row.locked_until = NoLock
    BY <1>5, <1>11 DEF NewBucket
  <2>2. start = t /\ count = 1 /\ lock = IF 1 >= FAILURE_LIMIT THEN t + LOCK_DURATION ELSE NoLock
    BY <2>1
  <2> HIDE DEF start, count, lock
  <2>3. /\ \A i \in 1..Len(attempts) : attempts[i] < t /\ attempts[i] <= clock
        /\ \A i \in 1..(Len(attempts) + 1 - FAILURE_LIMIT) : attempts[i] + WINDOW_DURATION <= t
    BY <1>3, <1>4, <1>11, NothingCounts DEF PinInv
  <2>4. BucketStands' /\ RateBound'
    BY <1>1, <1>3, <1>4, <1>10, <2>2, <2>3, BeginsWindow DEF PinInv
  <2> QED BY <1>9, <2>4
<1>12. CASE bucket # NoBucket /\ over
  <2>1. start = t /\ count = 1 /\ lock = IF 1 >= FAILURE_LIMIT THEN t + LOCK_DURATION ELSE NoLock
    BY <1>12
  <2>2. ~IsLocked(bucket, t) /\ WindowIsOver(bucket, t)
    BY <1>1, <1>5, <1>12
  <2> HIDE DEF start, count, lock, over
  <2>3. /\ \A i \in 1..Len(attempts) : attempts[i] < t /\ attempts[i] <= clock
        /\ \A i \in 1..(Len(attempts) + 1 - FAILURE_LIMIT) : attempts[i] + WINDOW_DURATION <= t
    BY <1>3, <1>4, <1>12, <2>2, WindowEnds DEF PinInv
  <2>4. BucketStands' /\ RateBound'
    BY <1>1, <1>3, <1>4, <1>10, <2>1, <2>3, BeginsWindow DEF PinInv
  <2> QED BY <1>9, <2>4
<1>13. CASE bucket # NoBucket /\ ~over
  <2>1. /\ start = bucket.window_started_at /\ count = bucket.failure_count + 1
        /\ lock = IF bucket.failure_count + 1 >= FAILURE_LIMIT THEN t + LOCK_DURATION ELSE bucket.locked_until
    <3>1. start = row.window_started_at /\ count = row.failure_count + 1
      BY <1>13
    <3>2. lock = IF row.failure_count + 1 >= FAILURE_LIMIT THEN t + LOCK_DURATION ELSE row.locked_until
      BY <1>13, <3>1
    <3> HIDE DEF start, count, lock, over
    <3> QED BY <1>13, <1>61, <3>1, <3>2
  <2>2. ~IsLocked(bucket, t) /\ ~WindowIsOver(bucket, t)
    BY <1>1, <1>5, <1>13
  <2> HIDE DEF start, count, lock, over
  <2>3. BucketStands' /\ RateBound'
    BY <1>1, <1>3, <1>4, <1>10, <1>13, <2>1, <2>2, GoesOn DEF PinInv
  <2> QED BY <1>9, <2>3
<1> QED BY <1>11, <1>12, <1>13

-----------------------------------------------------------------------------
(* The other steps. *)

\* A step that leaves bucket and failures alone leaves the account alone, time
\* included.
LEMMA AccountStays ==
  ASSUME AccessAssumption, AccessTypeOK, PinInv, UNCHANGED <<bucket, attempts>>, clock' \in Nat, clock <= clock'
  PROVE  ForgottenAreOld' /\ BucketStands' /\ RateBound'
<1>1. /\ clock \in Nat /\ PurgeAge \in Nat /\ bucket.window_started_at \in Nat /\ bucket.updated_at \in Nat
      /\ DOMAIN attempts = 1..Len(attempts) /\ \A i \in 1..Len(attempts) : attempts[i] \in Nat
  BY Constants, BucketFields
<1>2. ForgottenAreOld'
  BY <1>1 DEF PinInv, ForgottenAreOld
<1>3. BucketStands'
  <2> SUFFICES ASSUME bucket # NoBucket
               PROVE  CountsTheLast' /\ EarlierAreRare' /\ FullLocks' /\ BucketIsPast'
    BY DEF BucketStands
  <2>1. Before' = Before
    BY DEF Before
  <2>2. CountsTheLast' /\ EarlierAreRare' /\ FullLocks'
    BY <2>1 DEF PinInv, BucketStands, CountsTheLast, EarlierAreRare, FullLocks
  <2>3. BucketIsPast'
    BY <1>1 DEF PinInv, BucketStands, BucketIsPast
  <2> QED BY <2>2, <2>3
<1>4. RateBound'
  BY DEF PinInv, RateBound
<1> QED BY <1>2, <1>3, <1>4

\* A step of one request outside the row, or the one with which it takes it.
LEMMA RequestStep ==
  ASSUME AccessAssumption, PinInv, NEW b \in Browsers, UNCHANGED <<clock, bucket>>,
         \A c \in Browsers : c # b => browser'[c] = browser[c],
         browser'[b].pc \in InCheck => browser'[b].now <= clock /\ clock <= browser'[b].now + 1,
         \/ holder' = holder /\ browser[b].pc # "evaluate" /\ browser'[b].pc # "evaluate"
         \/ /\ holder = NobodyHolds /\ holder' = b /\ browser'[b].pc = "evaluate"
            /\ IF bucket = NoBucket THEN browser'[b].row = NewBucket(browser'[b].now)
               ELSE browser'[b].row = bucket
  PROVE  RequestsAreRecent' /\ OneEvaluates'
<1>1. RequestsAreRecent'
  BY DEF PinInv, RequestsAreRecent
<1>2. ASSUME NEW c \in Browsers
      PROVE  /\ (browser'[c].pc = "evaluate" <=> holder' = c)
             /\ browser'[c].pc = "evaluate" =>
                  IF bucket' = NoBucket THEN browser'[c].row = NewBucket(browser'[c].now)
                  ELSE browser'[c].row = bucket'
  <2>1. browser[c].pc = "evaluate" <=> holder = c
    BY DEF PinInv, OneEvaluates
  <2>2. browser[c].pc = "evaluate" =>
           IF bucket = NoBucket THEN browser[c].row = NewBucket(browser[c].now) ELSE browser[c].row = bucket
    BY DEF PinInv, OneEvaluates
  <2>3. NobodyHolds # c
    BY Constants
  <2>4. CASE c = b
    BY <2>1, <2>4
  <2>5. CASE c # b
    BY <2>1, <2>2, <2>3, <2>5
  <2> QED BY <2>4, <2>5
<1>3. OneEvaluates'
  BY <1>2 DEF OneEvaluates
<1> QED BY <1>1, <1>3

\* The request that has the row answers and lets it go.
LEMMA AnswerStep ==
  ASSUME AccessAssumption, AccessTypeOK, PinInv, NEW b \in Browsers, browser[b].pc = "evaluate",
         NEW label \in {"form", "visit"}, NEW session \in 0..MaxVersion, Answer(b, label, session),
         clock' = clock
  PROVE  /\ browser' \in [Browsers -> Browser] /\ holder' = NobodyHolds
         /\ RequestsAreRecent' /\ OneEvaluates'
<1> DEFINE gone == [Outside EXCEPT !.pc = label, !.session = session]
<1>1. holder' = NobodyHolds /\ browser' = [browser EXCEPT ![b] = gone]
  BY DEF Answer
<1>2. gone \in Browser /\ gone.pc = label
  <2>1. 0 \in Time /\ NoBucket \in Bucket \cup {NoBucket}
    BY Constants DEF Time
  <2> QED BY <2>1 DEF Outside, Browser
<1> HIDE DEF gone
<1>3. browser' \in [Browsers -> Browser] /\ browser'[b] = gone
      /\ \A c \in Browsers : c # b => browser'[c] = browser[c]
  BY <1>1, <1>2 DEF AccessTypeOK
<1>4. RequestsAreRecent'
  BY <1>2, <1>3 DEF PinInv, RequestsAreRecent, InCheck
<1>5. \A c \in Browsers : browser'[c].pc # "evaluate" /\ holder' # c
  <2> SUFFICES ASSUME NEW c \in Browsers PROVE browser'[c].pc # "evaluate" /\ holder' # c
    OBVIOUS
  <2>1. (browser[c].pc = "evaluate" <=> holder = c) /\ holder = b
    BY DEF PinInv, OneEvaluates
  <2>2. holder' # c
    BY <1>1, Constants
  <2> QED BY <1>2, <1>3, <2>1, <2>2
<1>6. OneEvaluates'
  BY <1>5 DEF OneEvaluates
<1> QED BY <1>1, <1>3, <1>4, <1>6

\* A request that only moves on.
LEMMA GotoStep ==
  ASSUME AccessAssumption, AccessTypeOK, PinInv, NEW b \in Browsers, NEW label \in {"visit", "form", "page", "create", "refetch"},
         BrowserGoes(b, label), browser[b].pc # "evaluate",
         label \in InCheck => browser[b].pc \in InCheck,
         UNCHANGED <<clock, version, bucket, holder, attempts>>
  PROVE  AccessTypeOK' /\ PinInv'
<1> DEFINE next == [browser[b] EXCEPT !.pc = label]
<1>1. browser[b] \in Browser
  BY DEF AccessTypeOK
<1>2. browser' = [browser EXCEPT ![b] = next]
  BY DEF BrowserGoes
<1>3. next \in Browser /\ next.pc = label /\ next.now = browser[b].now
  BY <1>1 DEF Browser
<1> HIDE DEF next
<1>4. browser' \in [Browsers -> Browser] /\ browser'[b] = next
      /\ \A c \in Browsers : c # b => browser'[c] = browser[c]
  BY <1>2, <1>3 DEF AccessTypeOK
<1>5. browser[b].pc \in InCheck => browser[b].now <= clock /\ clock <= browser[b].now + 1
  BY DEF PinInv, RequestsAreRecent
<1>6. RequestsAreRecent' /\ OneEvaluates'
  BY <1>3, <1>4, <1>5, RequestStep
<1>7. ForgottenAreOld' /\ BucketStands' /\ RateBound'
  <2>1. clock \in Nat
    BY BucketFields
  <2> QED BY <2>1, AccountStays
<1> QED BY <1>4, <1>6, <1>7 DEF AccessTypeOK, PinInv

\* A request that takes the row.
LEMMA TakeStep ==
  ASSUME AccessAssumption, AccessTypeOK, PinInv, NEW b \in Browsers, NEW row \in Bucket,
         browser[b].pc \in InCheck, holder = NobodyHolds, holder' = b,
         browser' = [browser EXCEPT ![b].pc = "evaluate", ![b].row = row],
         IF bucket = NoBucket THEN row = NewBucket(browser[b].now) ELSE row = bucket,
         UNCHANGED <<clock, version, bucket, attempts>>
  PROVE  AccessTypeOK' /\ PinInv'
<1> DEFINE next == [browser[b] EXCEPT !.pc = "evaluate", !.row = row]
<1>1. browser[b] \in Browser
  BY DEF AccessTypeOK
<1>2. browser' = [browser EXCEPT ![b] = next]
  BY DEF AccessTypeOK
<1>3. next \in Browser /\ next.pc = "evaluate" /\ next.now = browser[b].now /\ next.row = row
  BY <1>1 DEF Browser
<1> HIDE DEF next
<1>4. browser' \in [Browsers -> Browser] /\ browser'[b] = next
      /\ \A c \in Browsers : c # b => browser'[c] = browser[c]
  BY <1>2, <1>3 DEF AccessTypeOK
<1>5. browser[b].now <= clock /\ clock <= browser[b].now + 1
  BY DEF PinInv, RequestsAreRecent
<1>6. RequestsAreRecent' /\ OneEvaluates'
  BY <1>3, <1>4, <1>5, RequestStep
<1>7. ForgottenAreOld' /\ BucketStands' /\ RateBound'
  <2>1. clock \in Nat
    BY BucketFields
  <2> QED BY <2>1, AccountStays
<1> QED BY <1>4, <1>6, <1>7 DEF AccessTypeOK, PinInv

\* A page drops a session.
LEMMA DropStep ==
  ASSUME AccessAssumption, AccessTypeOK, PinInv, NEW b \in Browsers, browser[b].pc \in {"visit", "page"},
         browser' = [browser EXCEPT ![b].pc = "form", ![b].session = NoSession],
         UNCHANGED <<clock, version, bucket, holder, attempts>>
  PROVE  AccessTypeOK' /\ PinInv'
<1> DEFINE next == [browser[b] EXCEPT !.pc = "form", !.session = NoSession]
<1>1. browser[b] \in Browser /\ NoSession \in 0..MaxVersion
  BY Constants DEF AccessTypeOK, NoSession
<1>2. browser' = [browser EXCEPT ![b] = next]
  BY DEF AccessTypeOK
<1>3. next \in Browser /\ next.pc = "form"
  BY <1>1 DEF Browser
<1> HIDE DEF next
<1>4. browser' \in [Browsers -> Browser] /\ browser'[b] = next
      /\ \A c \in Browsers : c # b => browser'[c] = browser[c]
  BY <1>2, <1>3 DEF AccessTypeOK
<1>5. RequestsAreRecent' /\ OneEvaluates'
  BY <1>3, <1>4, RequestStep DEF InCheck
<1>6. ForgottenAreOld' /\ BucketStands' /\ RateBound'
  <2>1. clock \in Nat
    BY BucketFields
  <2> QED BY <2>1, AccountStays
<1> QED BY <1>4, <1>5, <1>6 DEF AccessTypeOK, PinInv

\* A PIN is entered.
LEMMA SubmitStep ==
  ASSUME AccessAssumption, AccessTypeOK, PinInv, NEW b \in Browsers, NEW right \in BOOLEAN, SubmitPin(b, right)
  PROVE  AccessTypeOK' /\ PinInv'
<1> DEFINE next == [browser[b] EXCEPT !.pc = "fetch", !.now = clock, !.right = right]
<1>1. browser[b] \in Browser /\ clock \in Time /\ clock \in Nat
  BY BucketFields DEF AccessTypeOK
<1>2. /\ browser[b].pc = "form" /\ browser' = [browser EXCEPT ![b] = next]
      /\ UNCHANGED <<clock, version, bucket, holder, attempts>>
  BY DEF SubmitPin, BrowserAt
<1>3. next \in Browser /\ next.pc = "fetch" /\ next.now = clock
  BY <1>1 DEF Browser
<1> HIDE DEF next
<1>4. browser' \in [Browsers -> Browser] /\ browser'[b] = next
      /\ \A c \in Browsers : c # b => browser'[c] = browser[c]
  BY <1>2, <1>3 DEF AccessTypeOK
<1>5. RequestsAreRecent' /\ OneEvaluates'
  BY <1>1, <1>2, <1>3, <1>4, RequestStep
<1>6. ForgottenAreOld' /\ BucketStands' /\ RateBound'
  BY <1>1, <1>2, AccountStays
<1> QED BY <1>2, <1>4, <1>5, <1>6 DEF AccessTypeOK, PinInv

\* The row is fetched or created.
LEMMA FetchStep ==
  ASSUME AccessAssumption, AccessTypeOK, PinInv, NEW b \in Browsers, Fetch(b) \/ Create(b) \/ Refetch(b)
  PROVE  AccessTypeOK' /\ PinInv'
<1>1. /\ browser[b].pc \in {"fetch", "create", "refetch"}
      /\ UNCHANGED <<clock, version, bucket, attempts>>
  BY DEF Fetch, Create, Refetch, BrowserAt
<1>2. \/ /\ \E label \in {"create", "refetch", "form"} : BrowserGoes(b, label)
         /\ UNCHANGED holder
      \/ holder = NobodyHolds /\ bucket # NoBucket /\ TakeRow(b)
      \/ /\ holder = NobodyHolds /\ bucket = NoBucket /\ holder' = b
         /\ browser' = [browser EXCEPT ![b].pc = "evaluate", ![b].row = NewBucket(browser[b].now)]
  BY DEF Fetch, Create, Refetch, RowIsFree
<1>3. browser[b].pc \in InCheck /\ browser[b].pc # "evaluate"
  BY <1>1 DEF InCheck
<1>4. ASSUME NEW label \in {"create", "refetch", "form"}, BrowserGoes(b, label), UNCHANGED holder
      PROVE  AccessTypeOK' /\ PinInv'
  BY <1>1, <1>3, <1>4, GotoStep
<1>5. CASE holder = NobodyHolds /\ bucket # NoBucket /\ TakeRow(b)
  <2>1. holder' = b /\ browser' = [browser EXCEPT ![b].pc = "evaluate", ![b].row = bucket] /\ bucket \in Bucket
    BY <1>5, BucketFields DEF TakeRow
  <2> QED BY <1>1, <1>3, <1>5, <2>1, TakeStep
<1>6. CASE /\ holder = NobodyHolds /\ bucket = NoBucket /\ holder' = b
           /\ browser' = [browser EXCEPT ![b].pc = "evaluate", ![b].row = NewBucket(browser[b].now)]
  <2>1. NewBucket(browser[b].now) \in Bucket
    <3>1. browser[b] \in Browser
      BY DEF AccessTypeOK
    <3>2. browser[b].now \in Time
      BY <3>1 DEF Browser
    <3> QED BY <3>2, BucketTypes
  <2> QED BY <1>1, <1>3, <1>6, <2>1, TakeStep
<1> QED BY <1>2, <1>4, <1>5, <1>6

\* The row is evaluated.
LEMMA EvaluateStep ==
  ASSUME AccessAssumption, AccessTypeOK, PinInv, NEW b \in Browsers, TurnAway(b) \/ Admit(b) \/ Refuse(b)
  PROVE  AccessTypeOK' /\ PinInv'
<1>1. browser[b].pc = "evaluate" /\ UNCHANGED <<clock, version>>
  BY DEF TurnAway, Admit, Refuse, BrowserAt
<1>2. browser[b] \in Browser /\ browser[b].session \in 0..MaxVersion /\ version \in 0..MaxVersion
      /\ browser[b].now \in Time
  <2>1. browser[b] \in Browser
    BY DEF AccessTypeOK
  <2>2. version \in 0..MaxVersion
    BY Constants DEF AccessTypeOK
  <2> QED BY <2>1, <2>2 DEF Browser
<1>3. \E label \in {"form", "visit"}, session \in 0..MaxVersion : Answer(b, label, session)
  BY <1>2 DEF TurnAway, Admit, Refuse, KeepSession
<1>4. /\ browser' \in [Browsers -> Browser] /\ holder' = NobodyHolds
      /\ RequestsAreRecent' /\ OneEvaluates'
  BY <1>1, <1>3, AnswerStep
<1>5. clock \in Nat
  BY BucketFields
<1>6. CASE TurnAway(b)
  <2>1. IsLocked(browser[b].row, browser[b].now) /\ bucket' = browser[b].row /\ UNCHANGED attempts
    BY <1>6 DEF TurnAway
  <2>2. IF bucket = NoBucket THEN browser[b].row = NewBucket(browser[b].now) ELSE browser[b].row = bucket
    BY <1>1 DEF PinInv, OneEvaluates
  <2>3. ~IsLocked(NewBucket(browser[b].now), browser[b].now)
    BY DEF IsLocked, NewBucket
  <2>4. bucket' = bucket
    BY <2>1, <2>2, <2>3
  <2>5. ForgottenAreOld' /\ BucketStands' /\ RateBound'
    BY <1>1, <1>5, <2>1, <2>4, AccountStays
  <2> QED BY <1>1, <1>4, <2>1, <2>4, <2>5 DEF AccessTypeOK, PinInv
<1>7. CASE Admit(b)
  <2>1. bucket' = NoBucket /\ attempts' = <<>>
    BY <1>7 DEF Admit
  <2>2. DOMAIN attempts' = {} /\ attempts' \in Seq(Time)
    BY <2>1
  <2>3. ForgottenAreOld' /\ BucketStands' /\ RateBound'
    BY <2>1, <2>2 DEF ForgottenAreOld, BucketStands, RateBound
  <2> QED BY <1>1, <1>4, <2>1, <2>2, <2>3 DEF AccessTypeOK, PinInv
<1>8. CASE Refuse(b)
  <2>1. bucket' \in Bucket /\ bucket'.failure_count >= 1 /\ BucketStands' /\ RateBound'
    BY <1>8, RefuseCounts
  <2>2. bucket' # NoBucket
    BY <2>1 DEF NoBucket
  <2>3. ForgottenAreOld'
    BY <2>2 DEF ForgottenAreOld
  <2>4. attempts' \in Seq(Time)
    BY <1>2, <1>8 DEF Refuse, AccessTypeOK
  <2> QED BY <1>1, <1>4, <2>1, <2>3, <2>4 DEF AccessTypeOK, PinInv
<1> QED BY <1>6, <1>7, <1>8

\* Every step keeps the invariant.
LEMMA PinStep ==
  ASSUME AccessAssumption, AccessTypeOK, PinInv, [AccessNext]_accessVars
  PROVE  AccessTypeOK' /\ PinInv'
<1>1. ASSUME NEW b \in Browsers, Visit(b) \/ Logout(b)
      PROVE  AccessTypeOK' /\ PinInv'
  <2>1. browser[b].pc \in {"visit", "page"} /\ UNCHANGED <<clock, version, bucket, holder, attempts>>
    BY <1>1 DEF Visit, Logout, BrowserAt
  <2>2. \/ BrowserGoes(b, "page")
        \/ browser' = [browser EXCEPT ![b].pc = "form", ![b].session = NoSession]
    BY <1>1 DEF Visit, Logout
  <2>3. "page" \notin InCheck
    BY DEF InCheck
  <2> QED BY <2>1, <2>2, <2>3, GotoStep, DropStep
<1>2. ASSUME NEW b \in Browsers, Browse(b) \/ OpenLogin(b) \/ RedirectFromLogin(b)
      PROVE  AccessTypeOK' /\ PinInv'
  <2>1. browser[b].pc \in {"form", "page"} /\ UNCHANGED <<clock, version, bucket, holder, attempts>>
    BY <1>2 DEF Browse, OpenLogin, RedirectFromLogin, BrowserAt
  <2>2. BrowserGoes(b, "visit") \/ BrowserGoes(b, "form")
    BY <1>2 DEF Browse, OpenLogin, RedirectFromLogin
  <2>3. "visit" \notin InCheck /\ "form" \notin InCheck
    BY DEF InCheck
  <2> QED BY <2>1, <2>2, <2>3, GotoStep
<1>3. ASSUME NEW b \in Browsers, CheckPin(b)
      PROVE  AccessTypeOK' /\ PinInv'
  BY <1>3, FetchStep, EvaluateStep DEF CheckPin
<1>4. CASE Tick
  <2>1. clock' = clock + 1 /\ clock < MaxTime /\ UNCHANGED <<version, bucket, holder, browser, attempts>>
    BY <1>4 DEF Tick
  <2>2. clock \in Nat /\ clock' \in Nat /\ clock <= clock' /\ clock' \in Time
    BY <2>1, BucketFields, Constants DEF Time
  <2>3. \A b \in Browsers : browser[b].pc \in InCheck => browser[b].now = clock
    BY <1>4 DEF Tick, InCheck
  <2>4. RequestsAreRecent'
    BY <2>1, <2>2, <2>3 DEF RequestsAreRecent
  <2>5. OneEvaluates'
    BY <2>1 DEF PinInv, OneEvaluates
  <2>6. ForgottenAreOld' /\ BucketStands' /\ RateBound'
    BY <2>1, <2>2, AccountStays
  <2> QED BY <2>1, <2>2, <2>4, <2>5, <2>6 DEF AccessTypeOK, PinInv
<1>5. CASE Purge
  <2>1. /\ bucket # NoBucket /\ holder = NobodyHolds /\ bucket.updated_at + PurgeAge < clock
        /\ bucket' = NoBucket /\ UNCHANGED <<clock, version, holder, browser, attempts>>
    BY <1>5 DEF Purge, RowIsFree
  <2>2. RequestsAreRecent'
    BY <2>1 DEF PinInv, RequestsAreRecent
  <2>3. \A b \in Browsers : browser[b].pc # "evaluate" /\ holder # b
    BY <2>1, Constants DEF PinInv, OneEvaluates
  <2>4. OneEvaluates'
    BY <2>1, <2>3 DEF OneEvaluates
  <2>5. ForgottenAreOld'
    <3>1. /\ PurgeAge \in Nat /\ clock \in Nat /\ bucket.updated_at \in Nat /\ DOMAIN attempts = 1..Len(attempts)
          /\ \A i \in 1..Len(attempts) : attempts[i] \in Nat
      BY Constants, BucketFields
    <3>2. \A i \in 1..Len(attempts) : attempts[i] <= bucket.updated_at
      BY <2>1 DEF PinInv, BucketStands, BucketIsPast
    <3>3. \A i \in 1..Len(attempts) : attempts[i] + PurgeAge < clock
      BY <2>1, <3>1, <3>2
    <3> QED BY <2>1, <3>1, <3>3 DEF ForgottenAreOld
  <2>6. BucketStands' /\ RateBound'
    BY <2>1 DEF PinInv, BucketStands, RateBound
  <2> QED BY <2>1, <2>2, <2>4, <2>5, <2>6 DEF AccessTypeOK, PinInv
<1>6. CASE RotatePin
  <2> DEFINE rolled(b) == [Outside EXCEPT !.pc = "form", !.session = KeepSession(b)]
  <2>1. /\ version < MaxVersion /\ version' = version + 1 /\ holder' = NobodyHolds
        /\ browser' = [b \in Browsers |->
              IF browser[b].pc \in {"visit", "form", "page"} THEN browser[b] ELSE rolled(b)]
        /\ UNCHANGED <<clock, bucket, attempts>>
    BY <1>6 DEF RotatePin
  <2>2. \A b \in Browsers : rolled(b) \in Browser /\ rolled(b).pc = "form"
    <3> SUFFICES ASSUME NEW b \in Browsers PROVE rolled(b) \in Browser /\ rolled(b).pc = "form"
      OBVIOUS
    <3>1. browser[b] \in Browser
      BY DEF AccessTypeOK
    <3>2. KeepSession(b) \in 0..MaxVersion /\ 0 \in Time /\ NoBucket \in Bucket \cup {NoBucket}
      BY <3>1, Constants DEF KeepSession, Browser, Time
    <3> QED BY <3>2 DEF Outside, Browser
  <2> HIDE DEF rolled
  <2>3. browser' \in [Browsers -> Browser] /\ \A b \in Browsers : browser'[b].pc \in {"visit", "form", "page"}
    BY <2>1, <2>2 DEF AccessTypeOK
  <2>4. version' \in 1..MaxVersion
    BY <2>1, Constants DEF AccessTypeOK
  <2>5. RequestsAreRecent'
    BY <2>3 DEF RequestsAreRecent, InCheck
  <2>6. OneEvaluates'
    BY <2>1, <2>3, Constants DEF OneEvaluates
  <2>7. ForgottenAreOld' /\ BucketStands' /\ RateBound'
    BY <2>1, BucketFields, AccountStays
  <2> QED BY <2>1, <2>3, <2>4, <2>5, <2>6, <2>7 DEF AccessTypeOK, PinInv
<1>7. CASE UNCHANGED accessVars
  <2>1. UNCHANGED <<clock, version, bucket, holder, browser, attempts>>
    BY <1>7 DEF accessVars
  <2>2. ForgottenAreOld' /\ BucketStands' /\ RateBound'
    BY <2>1, BucketFields, AccountStays
  <2>3. RequestsAreRecent' /\ OneEvaluates'
    BY <2>1 DEF PinInv, RequestsAreRecent, OneEvaluates
  <2> QED BY <2>1, <2>2, <2>3 DEF AccessTypeOK, PinInv
<1> QED
  BY <1>1, <1>2, <1>3, <1>4, <1>5, <1>6, <1>7, SubmitStep DEF AccessNext

-----------------------------------------------------------------------------
(* The theorems. *)

LEMMA PinInvariant ==
  ASSUME AccessAssumption
  PROVE  AccessSpec => [](AccessTypeOK /\ PinInv)
<1>1. AccessInit => AccessTypeOK /\ PinInv
  <2> SUFFICES ASSUME AccessInit PROVE AccessTypeOK /\ PinInv
    OBVIOUS
  <2>1. Outside \in Browser /\ Outside.pc = "visit"
    <3>1. 0 \in Time /\ NoSession \in 0..MaxVersion /\ NoBucket \in Bucket \cup {NoBucket}
      BY Constants DEF Time, NoSession
    <3> QED BY <3>1 DEF Outside, Browser
  <2>2. /\ clock \in Time /\ version \in 1..MaxVersion /\ attempts = <<>> /\ bucket = NoBucket
        /\ holder = NobodyHolds /\ browser = [b \in Browsers |-> Outside]
    BY Constants DEF AccessInit, Time
  <2>3. AccessTypeOK
    BY <2>1, <2>2 DEF AccessTypeOK
  <2>4. \A b \in Browsers : browser[b].pc = "visit" /\ holder # b
    BY <2>1, <2>2, Constants
  <2>5. RequestsAreRecent /\ OneEvaluates
    BY <2>4 DEF RequestsAreRecent, OneEvaluates, InCheck
  <2>6. DOMAIN attempts = {}
    BY <2>2
  <2>7. ForgottenAreOld /\ BucketStands /\ RateBound
    BY <2>2, <2>6 DEF ForgottenAreOld, BucketStands, RateBound
  <2> QED BY <2>3, <2>5, <2>7 DEF PinInv
<1>2. AccessTypeOK /\ PinInv /\ [AccessNext]_accessVars => (AccessTypeOK /\ PinInv)'
  BY PinStep
<1> QED BY <1>1, <1>2, PTL DEF AccessSpec

\* Bucket, requests and sessions keep their types.
THEOREM TypeCorrect ==
  ASSUME AccessAssumption
  PROVE  AccessSpec => []AccessTypeOK
  BY PinInvariant, PTL

\* For any number of browsers behind an address, any limit and any durations
\* with a lock no shorter than the window and a purge no earlier: no failure of
\* the window in force is lost, so a full window locks, and no more wrong PINs
\* are looked at than the rate allows (check_pin, purge_viewer_rate_limits).
THEOREM PinStaysGuarded ==
  ASSUME AccessAssumption
  PROVE  AccessSpec => []PinIsGuarded
<1>1. AccessTypeOK /\ PinInv => PinIsGuarded
  <2> SUFFICES ASSUME AccessTypeOK, PinInv PROVE FailuresLock
    BY DEF PinIsGuarded, PinInv
  <2> DEFINE n == Len(attempts)
             k == bucket.failure_count
             ws == bucket.window_started_at
             counted == {i \in DOMAIN attempts : attempts[i] >= ws}
  <2>1. SUFFICES ASSUME bucket # NoBucket, Cardinality(counted) >= FAILURE_LIMIT
                 PROVE  bucket.locked_until # NoLock
    BY DEF FailuresLock
  <2>2. /\ n \in Nat /\ k \in Nat /\ ws \in Nat /\ DOMAIN attempts = 1..n
        /\ \A i \in 1..n : attempts[i] \in Nat
    BY BucketFields
  <2>3. k >= 1 /\ k <= n /\ \A i \in 1..(n - k) : attempts[i] < ws
    BY <2>1, <2>2 DEF PinInv, BucketStands, CountsTheLast, Before
  <2>4. counted \subseteq (n - k + 1)..n
    <3> SUFFICES ASSUME NEW i \in 1..n, attempts[i] >= ws PROVE i \in (n - k + 1)..n
      BY <2>2
    <3>1. ~(attempts[i] < ws)
      BY <2>2
    <3>2. ~(i \in 1..(n - k))
      BY <2>3, <3>1
    <3> QED BY <2>2, <2>3, <3>2
  <2>5. IsFiniteSet((n - k + 1)..n) /\ Cardinality((n - k + 1)..n) = k
    <3>1. n - k + 1 \in Int /\ n \in Int /\ ~(n - k + 1 > n) /\ n - (n - k + 1) + 1 = k
      BY <2>2, <2>3
    <3> QED BY <3>1, FS_Interval
  <2>6. Cardinality(counted) <= k /\ Cardinality(counted) \in Nat
    BY <2>4, <2>5, FS_Subset, FS_CardinalityType
  <2>7. k >= FAILURE_LIMIT
    BY <2>1, <2>2, <2>6, Constants
  <2>8. bucket.locked_until = attempts[n] + LOCK_DURATION
    BY <2>1, <2>7 DEF PinInv, BucketStands, FullLocks
  <2>9. attempts[n] \in Nat /\ LOCK_DURATION \in Nat /\ LOCK_DURATION >= 1
    BY <2>2, <2>3, Constants
  <2> QED BY <2>8, <2>9 DEF NoLock
<1> QED BY <1>1, PinInvariant, PTL

-----------------------------------------------------------------------------
(* Least and greatest of finite sets. *)

LEMMA NatHasLeast ==
  ASSUME NEW S, S \subseteq Nat, S # {}
  PROVE  \E x \in S : \A y \in S : x <= y
<1>1. IsWellFoundedOn(OpToRel(<, Nat), Nat)
  BY NatLessThanWellFounded, Zenon
<1>2. \E x \in S : \A y \in S : ~(<<y, x>> \in OpToRel(<, Nat))
  BY <1>1, WFMin, Zenon
<1>3. PICK x \in S : \A y \in S : ~(<<y, x>> \in OpToRel(<, Nat))
  BY <1>2
<1>4. \A y \in S : ~(y < x)
  BY <1>3, Zenon DEF OpToRel
<1> QED BY <1>4

\* A finite set ordered by a first and a second number has a first element: one
\* that the fewest elements are ahead of.
LEMMA FirstOfFinite ==
  ASSUME NEW S, IsFiniteSet(S), S # {}, NEW a \in [S -> Int], NEW b \in [S -> Int]
  PROVE  \E i \in S : \A j \in S : a[i] > a[j] \/ (a[i] = a[j] /\ b[i] <= b[j])
<1> DEFINE A(i) == {j \in S : a[j] > a[i] \/ (a[j] = a[i] /\ b[j] < b[i])}
           N == {Cardinality(A(i)) : i \in S}
<1>1. \A i \in S : IsFiniteSet(A(i)) /\ Cardinality(A(i)) \in Nat
  BY FS_Subset, FS_CardinalityType
<1>2. N \subseteq Nat /\ N # {}
  BY <1>1
<1>3. PICK n \in N : \A m \in N : n <= m
  BY <1>2, NatHasLeast
<1>4. PICK i \in S : n = Cardinality(A(i))
  OBVIOUS
<1>5. ASSUME NEW j \in S, j \in A(i) PROVE FALSE
  <2>1. A(j) \in SUBSET A(i) /\ A(j) # A(i)
    <3>1. j \notin A(j)
      OBVIOUS
    <3>2. \A k \in A(j) : k \in A(i)
      BY <1>5
    <3> QED BY <1>5, <3>1, <3>2
  <2>2. Cardinality(A(j)) <= Cardinality(A(i)) /\ Cardinality(A(j)) # Cardinality(A(i))
    BY <1>1, <2>1, FS_Subset
  <2>3. Cardinality(A(i)) <= Cardinality(A(j))
    BY <1>3, <1>4
  <2>4. Cardinality(A(i)) \in Nat /\ Cardinality(A(j)) \in Nat
    BY <1>1
  <2> HIDE DEF A, N
  <2> QED BY <2>2, <2>3, <2>4
<1>6. \A j \in S : ~(a[j] > a[i] \/ (a[j] = a[i] /\ b[j] < b[i]))
  BY <1>5
<1>7. \A j \in S : a[i] > a[j] \/ (a[i] = a[j] /\ b[i] <= b[j])
  BY <1>6
<1> QED BY <1>7

LEMMA FiniteHasGreatest ==
  ASSUME NEW S, IsFiniteSet(S), S # {}, S \subseteq Int
  PROVE  Max(S) \in S /\ \A x \in S : Max(S) >= x
<1> DEFINE a == [x \in S |-> x]
           b == [x \in S |-> 0]
<1>1. a \in [S -> Int] /\ b \in [S -> Int]
  OBVIOUS
<1> HIDE DEF b
<1>2. PICK i \in S : \A j \in S : a[i] > a[j] \/ (a[i] = a[j] /\ b[i] <= b[j])
  BY <1>1, FirstOfFinite
<1>3. \A j \in S : i >= j
  BY <1>2
<1> QED BY <1>3 DEF Max

LEMMA ImageIsFinite ==
  ASSUME NEW f, IsFiniteSet(DOMAIN f)
  PROVE  /\ IsFiniteSet({f[x] : x \in DOMAIN f})
         /\ Cardinality({f[x] : x \in DOMAIN f}) <= Cardinality(DOMAIN f)
<1> DEFINE T == {f[x] : x \in DOMAIN f}
           g == [x \in DOMAIN f |-> f[x]]
<1>1. g \in Surjection(DOMAIN f, T)
  BY DEF Surjection
<1> QED BY <1>1, FS_Surjection

-----------------------------------------------------------------------------
(* Event pages: comparable names and the decision. *)

LEMMA NormalisedTitle ==
  ASSUME NEW title \in Title
  PROVE  Normalise(title) \in Title
<1> USE DEF Title
<1>1. \A t \in Title : t # <<>> => Len(t) >= 1 /\ Tail(t) \in Title
  OBVIOUS
<1>2. WithoutPublication(title) \in Title
  BY <1>1 DEF WithoutPublication
<1>3. ASSUME NEW t \in Title PROVE StripLabels(t) \in Title
  <2>1. CASE t = <<>>
    BY <2>1 DEF StripLabels
  <2>2. CASE t # <<>>
    <3> DEFINE labels == {n \in 0..Len(t) : \A i \in 1..n : t[i].colon}
               last == Smaller(Smaller(Max(labels), MaxLabels), Len(t) - 1)
    <3>1. Len(t) \in Nat /\ Len(t) >= 1
      BY <1>1, <2>2
    <3>2. IsFiniteSet(0..Len(t))
      BY <3>1, FS_Interval
    <3>3. labels \in SUBSET (0..Len(t)) /\ 0 \in labels
      BY <3>1
    <3>4. IsFiniteSet(labels) /\ labels \subseteq Int
      BY <3>1, <3>2, <3>3, FS_Subset
    <3>5. Max(labels) \in labels
      BY <3>3, <3>4, FiniteHasGreatest
    <3>6. Max(labels) \in Nat
      BY <3>1, <3>3, <3>5
    <3> HIDE DEF labels
    <3>7. last \in 0..(Len(t) - 1)
      BY <3>1, <3>6 DEF Smaller, MaxLabels
    <3> HIDE DEF last
    <3>8. SubSeq(t, last + 1, Len(t)) \in Title
      BY <3>1, <3>7
    <3>9. StripLabels(t) = SubSeq(t, last + 1, Len(t))
      BY <2>2, Zenon DEF StripLabels, last, labels
    <3> QED BY <3>8, <3>9
  <2> QED BY <2>1, <2>2
<1> QED BY <1>2, <1>3 DEF Normalise

LEMMA TokensAreFinite ==
  ASSUME NEW title \in Title
  PROVE  IsFiniteSet(TokenSet(title)) /\ TokenSet(title) \subseteq DOMAIN NameGrams
<1> DEFINE words == Normalise(title)
           f == [i \in DOMAIN words |-> words[i].word]
           all == {f[i] : i \in DOMAIN f}
<1>1. words \in Title
  BY NormalisedTitle
<1> HIDE DEF words
<1>2. DOMAIN words = 1..Len(words) /\ Len(words) \in Nat
      /\ \A i \in DOMAIN words : words[i].word \in DOMAIN NameGrams
  <2>1. \A t \in Seq(Word) : DOMAIN t = 1..Len(t) /\ Len(t) \in Nat /\ \A i \in DOMAIN t : t[i] \in Word
    OBVIOUS
  <2> QED BY <1>1, <2>1 DEF Title, Word
<1>3. IsFiniteSet(DOMAIN f)
  BY <1>2, FS_Interval
<1>4. IsFiniteSet(all)
  <2> HIDE DEF f
  <2> QED BY <1>3, ImageIsFinite
<1>5. all = {words[i].word : i \in DOMAIN words}
  OBVIOUS
<1>6. TokenSet(title) = all \ StopTokens
  BY <1>5 DEF TokenSet, words
<1> HIDE DEF all
<1>7. TokenSet(title) \in SUBSET all
  BY <1>6
<1>8. IsFiniteSet(TokenSet(title))
  BY <1>4, <1>7, FS_Subset
<1>9. all \subseteq DOMAIN NameGrams
  BY <1>2, <1>5
<1> QED BY <1>7, <1>8, <1>9

LEMMA NgramsAreFinite ==
  ASSUME NEW title \in Title
  PROVE  IsFiniteSet(NgramsOf(title))
<1> DEFINE f == [w \in TokenSet(title) |-> NameGrams[w]]
           all == {f[w] : w \in DOMAIN f}
<1>1. IsFiniteSet(all)
  <2>1. IsFiniteSet(DOMAIN f)
    BY TokensAreFinite
  <2> HIDE DEF f
  <2> QED BY <2>1, ImageIsFinite
<1>2. all = {NameGrams[w] : w \in TokenSet(title)}
  OBVIOUS
<1>3. \A g \in all : IsFiniteSet(g)
  BY <1>2, TokensAreFinite, EventAssumption
<1>4. IsFiniteSet(UNION all)
  BY <1>1, <1>3, FS_UNION
<1> QED BY <1>2, <1>4 DEF NgramsOf

LEMMA ScoresAreNumbers ==
  ASSUME NEW name \in Title, NEW title \in Title
  PROVE  Similarity(name, title) \in Int
<1>1. ASSUME NEW S, NEW T, IsFiniteSet(S), IsFiniteSet(T)
      PROVE  /\ Cardinality(S) \in Nat /\ (S # {} => Cardinality(S) > 0)
             /\ Cardinality(S \cap T) \in Nat /\ Cardinality(S \cup T) \in Nat
             /\ S # {} => Cardinality(S \cup T) > 0
  <2>1. IsFiniteSet(S \cap T) /\ IsFiniteSet(S \cup T)
    BY <1>1, FS_Subset, FS_Union
  <2> QED BY <1>1, <2>1, FS_CardinalityType, FS_EmptySet
<1>2. \A x \in Int, y \in Nat : y > 0 => x \div y \in Int
  OBVIOUS
<1>3. ASSUME NEW S, NEW T, IsFiniteSet(S), IsFiniteSet(T)
      PROVE  Containment(S, T) \in Int /\ Jaccard(S, T) \in Int
  <2>1. /\ Cardinality(S) \in Nat /\ (S # {} => Cardinality(S) > 0)
        /\ Cardinality(T) \in Nat /\ (T # {} => Cardinality(T) > 0)
        /\ Cardinality(S \cap T) \in Nat /\ Cardinality(S \cup T) \in Nat
        /\ S # {} => Cardinality(S \cup T) > 0
    BY <1>1, <1>3
  <2> DEFINE n == 10000 * Cardinality(S \cap T)
             d == Smaller(Cardinality(S), Cardinality(T))
             u == Cardinality(S \cup T)
  <2>2. n \in Int /\ d \in Nat /\ u \in Nat
    BY <2>1 DEF Smaller
  <2>3. S # {} /\ T # {} => d > 0 /\ u > 0
    BY <2>1 DEF Smaller
  <2>4. Containment(S, T) = IF S = {} \/ T = {} THEN 0 ELSE n \div d
    BY Zenon DEF Containment
  <2>5. Jaccard(S, T) = IF S = {} \/ T = {} THEN 0 ELSE n \div u
    BY Zenon DEF Jaccard
  <2> HIDE DEF n, d, u
  <2> QED BY <1>2, <2>2, <2>3, <2>4, <2>5
<1>4. /\ IsFiniteSet(NgramsOf(name)) /\ IsFiniteSet(NgramsOf(title))
      /\ IsFiniteSet(TokenSet(name)) /\ IsFiniteSet(TokenSet(title))
  BY NgramsAreFinite, TokensAreFinite
<1> QED BY <1>3, <1>4 DEF Similarity, Greater

\* The decision and the reference agree: the page that leads by the margin leads
\* every other page of these days by the margin.
LEMMA MatchIsDeserved ==
  ASSUME NEW event \in Event, NEW pages \in Seq(Page), MatchEvent(event, pages) > NoPage
  PROVE  /\ MatchEvent(event, pages) \in DOMAIN pages
         /\ Deserves(event, MatchEvent(event, pages), pages)
<1> DEFINE field == CandidatesFor(event.day, pages)
           score == [i \in field |-> Similarity(event.name, pages[i].title)]
           ahead(i, j) == \/ score[i] > score[j]
                          \/ score[i] = score[j] /\ pages[i].url <= pages[j].url
           best == CHOOSE i \in field : \A j \in field : ahead(i, j)
           others == {score[j] : j \in field \ {best}}
           runnerUp == IF field = {best} THEN 0 ELSE Max(others)
           chosen == MatchEvent(event, pages)
<1>1. MatchEvent(event, pages)
        = IF \/ event.day = NoDay
             \/ Cardinality(TokenSet(event.name)) < MINIMUM_TOKENS
             \/ field = {}
             \/ score[best] < ACCEPT_SCORE
          THEN Unmatched
          ELSE IF ClearlyAhead(score[best], runnerUp) THEN best ELSE Ambiguous
  BY Zenon DEF MatchEvent
<1>2. /\ event.day # NoDay /\ field # {} /\ ~(score[best] < ACCEPT_SCORE)
      /\ ClearlyAhead(score[best], runnerUp) /\ chosen = best
  <2> HIDE DEF field, score, best, runnerUp
  <2> QED BY <1>1 DEF Unmatched, Ambiguous, NoPage
<1>14. field # {}
  BY <1>2
<1>3. /\ DOMAIN pages = 1..Len(pages) /\ Len(pages) \in Nat
      /\ \A i \in DOMAIN pages : pages[i] \in Page
  OBVIOUS
<1>4. field \in SUBSET DOMAIN pages /\ IsFiniteSet(field)
  <2>1. IsFiniteSet(DOMAIN pages)
    BY <1>3, FS_Interval
  <2>2. field \in SUBSET DOMAIN pages
    BY DEF CandidatesFor
  <2> QED BY <2>1, <2>2, FS_Subset
<1>5. \A i \in field : pages[i].title \in Title /\ pages[i].url \in Int /\ pages[i].day \in Int
  BY <1>3, <1>4 DEF Page
<1>6. event.name \in Title /\ event.day \in Int
  BY DEF Event
<1> HIDE DEF field
<1>7. score \in [field -> Int]
  BY <1>5, <1>6, ScoresAreNumbers
<1>8. best \in field /\ \A j \in field : ahead(best, j)
  <2> DEFINE url == [i \in field |-> pages[i].url]
  <2>1. url \in [field -> Int]
    BY <1>5
  <2> HIDE DEF score, url
  <2>2. \E i \in field : \A j \in field : score[i] > score[j] \/ (score[i] = score[j] /\ url[i] <= url[j])
    BY <1>14, <1>4, <1>7, <2>1, FirstOfFinite
  <2>4. PICK i \in field : \A j \in field : score[i] > score[j] \/ (score[i] = score[j] /\ url[i] <= url[j])
    BY <2>2
  <2>3. \A j \in field : ahead(i, j)
    BY <2>4 DEF url
  <2> HIDE DEF ahead
  <2> QED BY <2>3
<1> HIDE DEF best
<1>9. ASSUME NEW j \in field \ {best} PROVE score[best] - score[j] >= SCORE_MARGIN
  <2>1. field # {best} /\ score[j] \in others
    BY <1>9
  <2>2. IsFiniteSet(others)
    <3> DEFINE rest == [k \in field \ {best} |-> score[k]]
    <3>1. IsFiniteSet(DOMAIN rest)
      BY <1>4, FS_Subset
    <3>2. others = {rest[k] : k \in DOMAIN rest}
      <4> HIDE DEF score
      <4> QED OBVIOUS
    <3> HIDE DEF rest, others
    <3> QED BY <3>1, <3>2, ImageIsFinite
  <2>3. others \subseteq Int
    <3> HIDE DEF score
    <3> QED BY <1>7
  <2>4. Max(others) >= score[j] /\ Max(others) \in Int
    <3> HIDE DEF others
    <3> QED BY <2>1, <2>2, <2>3, FiniteHasGreatest
  <2>5. ClearlyAhead(score[best], Max(others))
    <3> HIDE DEF others, score
    <3> QED BY <1>2, <2>1
  <2>6. score[best] \in Int /\ score[j] \in Int
    <3> HIDE DEF score
    <3> QED BY <1>7, <1>8
  <2> HIDE DEF score, others
  <2> QED BY <2>4, <2>5, <2>6 DEF ClearlyAhead, SCORE_MARGIN
<1>10. \A j \in DOMAIN pages : j \in field <=> pages[j].day \in event.day - 1 .. event.day + 1
  <2>1. \A d \in Int, e \in Int : d - e \in -1..1 <=> d \in e - 1 .. e + 1
    OBVIOUS
  <2>2. \A j \in DOMAIN pages : pages[j].day \in Int
    BY <1>3 DEF Page
  <2> QED BY <1>6, <2>1, <2>2 DEF field, CandidatesFor, DATE_TOLERANCE_DAYS
<1>11. score[best] >= ACCEPT_SCORE
  <2>1. score[best] \in Int
    <3> HIDE DEF score
    <3> QED BY <1>7, <1>8
  <2> HIDE DEF score
  <2> QED BY <1>2, <2>1 DEF ACCEPT_SCORE
<1>12. \A j \in field : score[j] = Similarity(event.name, pages[j].title)
  OBVIOUS
<1> HIDE DEF score, chosen
<1>13. Deserves(event, best, pages)
  <2>1. {j \in DOMAIN pages : pages[j].day \in event.day - 1 .. event.day + 1} = field
    BY <1>4, <1>10
  <2>2. Similarity(event.name, pages[best].title) >= ACCEPT_SCORE
    BY <1>8, <1>11, <1>12
  <2>3. \A j \in field \ {best} :
           Similarity(event.name, pages[best].title) - Similarity(event.name, pages[j].title) >= SCORE_MARGIN
    BY <1>8, <1>9, <1>12
  <2> QED BY <1>2, <1>8, <2>1, <2>2, <2>3 DEF Deserves
<1> QED BY <1>2, <1>4, <1>8, <1>13 DEF chosen

-----------------------------------------------------------------------------
(* What the match command has read, and what a reader gets. *)

\* The i-th page of these is the i-th page a discovery found: a correction keeps
\* its address.
KnownPages(pages) ==
    /\ pages \in Seq(Page) /\ Len(pages) <= Len(Pages)
    /\ \A i \in DOMAIN pages : pages[i].url = Pages[i].url

Run == [programme : Nat, rows : SUBSET Event, top : Nat, read : BOOLEAN, pages : Seq(Page)]

\* What the match command has read, and what the current match was decided from.
MatchInv ==
    /\ programme.no \in Nat /\ programme.rows \subseteq Event
    /\ KnownPages(resources)
    /\ \A run \in eventRun :
          run \in Run /\ KnownPages(run.pages) /\ run.top <= Len(resources)
          /\ Len(run.pages) <= Len(resources)
    /\ eventMatch.rows \subseteq Event
    /\ KnownPages(eventMatch.pages) /\ Len(eventMatch.pages) <= Len(resources)
    /\ \A id \in DOMAIN eventMatch.decision :
          \E e \in eventMatch.rows :
             e.id = id /\ eventMatch.decision[id] = MatchEvent(e, eventMatch.pages)

LEMMA MatchingStarts == MatchingInit => MatchInv
<1>1. KnownPages(<<>>) /\ Len(Pages) \in Nat
  BY EventAssumption DEF KnownPages
<1> QED BY <1>1 DEF MatchingInit, MatchInv, NoEventMatch

LEMMA MatchingStep == MatchInv /\ [MatchingNext]_matchingVars => MatchInv'
<1> SUFFICES ASSUME MatchInv, [MatchingNext]_matchingVars PROVE MatchInv'
  OBVIOUS
<1> USE DEF MatchInv
<1>1. \A pages : KnownPages(pages) => /\ DOMAIN pages = 1..Len(pages) /\ Len(pages) \in Nat
                                     /\ \A i \in DOMAIN pages : pages[i] \in Page
  BY DEF KnownPages
<1>2. Pages \in Seq(Page) /\ Len(Pages) \in Nat /\ DOMAIN Pages = 1..Len(Pages)
  BY EventAssumption
<1>3. CASE ImportProgramme
  <2>1. \A P \in Programmes : P \subseteq Event
    BY EventAssumption
  <2> QED BY <1>3, <2>1 DEF ImportProgramme
<1>4. CASE DiscoverPage
  <2>1. KnownPages(resources') /\ Len(resources') = Len(resources) + 1
    BY <1>1, <1>2, <1>4 DEF DiscoverPage, KnownPages
  <2>2. \A n \in Nat : n <= Len(resources) => n <= Len(resources')
    BY <1>1, <2>1
  <2>3. \A run \in eventRun : run.top \in Nat /\ Len(run.pages) \in Nat
    BY <1>1 DEF Run
  <2>4. Len(eventMatch.pages) \in Nat
    BY <1>1
  <2> QED BY <1>4, <2>1, <2>2, <2>3, <2>4 DEF DiscoverPage
<1>5. CASE CorrectPage
  <2>1. PICK i \in DOMAIN resources \cap DOMAIN Corrections :
           resources' = [resources EXCEPT ![i] = Corrections[i]]
    BY <1>5 DEF CorrectPage
  <2>2. Corrections[i] \in Page /\ Corrections[i].url = Pages[i].url
    BY EventAssumption
  <2>3. resources' \in Seq(Page) /\ Len(resources') = Len(resources)
    <3>1. resources \in Seq(Page) /\ i \in 1..Len(resources)
      BY <1>1 DEF KnownPages
    <3> QED BY <2>1, <2>2, <3>1
  <2>4. KnownPages(resources')
    BY <1>1, <2>1, <2>2, <2>3 DEF KnownPages
  <2> QED BY <1>5, <2>3, <2>4 DEF CorrectPage
<1>6. CASE BeginMatching
  <2>1. KnownPages(<<>>) /\ Len(<<>>) = 0 /\ <<>> \in Seq(Page)
    BY <1>2 DEF KnownPages
  <2>2. \A run \in eventRun' :
           run \in Run /\ KnownPages(run.pages) /\ run.top <= Len(resources)
           /\ Len(run.pages) <= Len(resources)
    <3> DEFINE begun == [programme |-> programme.no, rows |-> programme.rows,
                         top |-> Len(resources), read |-> FALSE, pages |-> <<>>]
    <3>1. eventRun' = {} \/ eventRun' = {begun}
      BY <1>6, Zenon DEF BeginMatching
    <3>2. Len(resources) \in Nat
      BY <1>1
    <3>3. /\ begun \in Run /\ begun.pages = <<>> /\ begun.top = Len(resources)
      BY <2>1, <3>2 DEF Run
    <3> HIDE DEF begun
    <3> QED BY <2>1, <3>1, <3>2, <3>3
  <2> QED BY <1>6, <2>2 DEF BeginMatching
<1>7. CASE ReadPages
  <2>1. PICK run \in eventRun :
           eventRun' = {[run EXCEPT !.read = TRUE, !.pages = SubSeq(resources, 1, run.top)]}
    BY <1>7 DEF ReadPages
  <2> DEFINE read == SubSeq(resources, 1, run.top)
             next == [run EXCEPT !.read = TRUE, !.pages = read]
  <2>2. run \in Run /\ run.top \in Nat /\ run.top <= Len(resources)
    BY DEF Run
  <2>3. read \in Seq(Page) /\ Len(read) = run.top /\ \A i \in 1..run.top : read[i] = resources[i]
    BY <1>1, <2>2 DEF KnownPages
  <2>4. KnownPages(read)
    BY <1>1, <1>2, <2>2, <2>3 DEF KnownPages
  <2> HIDE DEF read
  <2>5. next \in Run /\ next.pages = read /\ next.top = run.top
    BY <2>2, <2>3 DEF Run
  <2>6. eventRun' = {next}
    BY <2>1 DEF read
  <2> HIDE DEF next
  <2> QED BY <1>7, <2>2, <2>3, <2>4, <2>5, <2>6 DEF ReadPages
<1>8. CASE PublishMatching
  <2>1. PICK run \in eventRun :
           IF <<run.programme, run.top>> \in generated
           THEN outcome' = "refused" /\ UNCHANGED <<eventMatch, generated>>
           ELSE eventMatch' = [programme |-> run.programme, top |-> run.top, rows |-> run.rows,
                               pages |-> run.pages, decision |-> DecideEvents(run.rows, run.pages)]
    BY <1>8 DEF PublishMatching
  <2>2. eventRun' = {} /\ UNCHANGED <<programme, resources>>
    BY <1>8 DEF PublishMatching
  <2>3. CASE <<run.programme, run.top>> \in generated
    BY <2>1, <2>2, <2>3
  <2>4. CASE <<run.programme, run.top>> \notin generated
    <3> DEFINE decision == DecideEvents(run.rows, run.pages)
    <3>1. ASSUME NEW id \in DOMAIN decision
          PROVE  \E e \in run.rows : e.id = id /\ decision[id] = MatchEvent(e, run.pages)
      <4>1. DOMAIN decision = {e.id : e \in run.rows}
            /\ decision[id] = MatchEvent(CHOOSE e \in run.rows : e.id = id, run.pages)
        BY DEF DecideEvents
      <4>2. \E e \in run.rows : e.id = id
        BY <4>1
      <4>3. (CHOOSE e \in run.rows : e.id = id) \in run.rows
            /\ (CHOOSE e \in run.rows : e.id = id).id = id
        BY <4>2
      <4> QED BY <4>1, <4>3
    <3>2. /\ eventMatch'.rows = run.rows /\ eventMatch'.pages = run.pages
          /\ eventMatch'.decision = decision
      BY <2>1, <2>4
    <3>3. run.rows \subseteq Event /\ KnownPages(run.pages) /\ Len(run.pages) <= Len(resources)
      BY DEF Run
    <3> HIDE DEF decision
    <3> QED BY <2>2, <3>1, <3>2, <3>3
  <2> QED BY <2>3, <2>4
<1>9. CASE MatchingAbandoned
  BY <1>9 DEF MatchingAbandoned
<1>10. CASE UNCHANGED matchingVars
  BY <1>10 DEF matchingVars
<1> QED BY <1>3, <1>4, <1>5, <1>6, <1>7, <1>8, <1>9, <1>10 DEF MatchingNext

LEMMA LinksFollow == MatchInv => EventLinksAreDeserved
<1> SUFFICES ASSUME MatchInv, NEW e \in programme.rows, PublicLink(e).source = "matched"
             PROVE  /\ e.url = 0
                    /\ \E f \in eventMatch.rows :
                          f.id = e.id /\ Deserves(f, MatchedPage(e), eventMatch.pages)
                    /\ PublicLink(e).url = eventMatch.pages[MatchedPage(e)].url
  BY DEF EventLinksAreDeserved
<1> DEFINE chosen == MatchedPage(e)
<1>1. /\ e.url = 0 /\ chosen # NoPage
      /\ PublicLink(e).url = resources[chosen].url
  BY DEF PublicLink, NoLink
<1>2. e.id \in DOMAIN eventMatch.decision /\ chosen = eventMatch.decision[e.id] /\ chosen > NoPage
  BY <1>1 DEF MatchedPage
<1>3. PICK f \in eventMatch.rows : f.id = e.id /\ chosen = MatchEvent(f, eventMatch.pages)
  BY <1>2 DEF MatchInv
<1> HIDE DEF chosen
<1>4. chosen \in DOMAIN eventMatch.pages /\ Deserves(f, chosen, eventMatch.pages)
  <2>1. f \in Event /\ eventMatch.pages \in Seq(Page)
    BY DEF MatchInv, KnownPages
  <2> QED BY <1>2, <1>3, <2>1, MatchIsDeserved
<1>5. chosen \in DOMAIN resources
  BY <1>4 DEF MatchInv, KnownPages
<1>6. resources[chosen].url = eventMatch.pages[chosen].url
  BY <1>4, <1>5 DEF MatchInv, KnownPages
<1> QED BY <1>1, <1>3, <1>4, <1>6 DEF chosen

\* Whatever is imported, discovered and corrected while the match command runs,
\* a link of resolve that the Chamber did not enter is to the page the event of
\* that number deserved when it was matched, under the address it has now.
THEOREM EventLinksAlwaysDeserved == MatchingSpec => []EventLinksAreDeserved
<1>1. MatchingInit => MatchInv
  BY MatchingStarts
<1>2. MatchInv /\ [MatchingNext]_matchingVars => MatchInv'
  BY MatchingStep
<1>3. MatchInv => EventLinksAreDeserved
  BY LinksFollow
<1> QED BY <1>1, <1>2, <1>3, PTL DEF MatchingSpec

-----------------------------------------------------------------------------
(* Sums over finite sets: the table MapThenSumSet chooses is one there is. *)

Pick(s) == CHOOSE x \in s : TRUE

\* What the sums of the subsets of a set are made of: g is the table of them.
Row(W, g, s) == IF s = {} THEN 0 ELSE W[Pick(s)] + g[s \ {Pick(s)}]

SumTable(W, S) == CHOOSE g : g = [s \in SUBSET S |-> Row(W, g, s)]

Total(W, S) == MapThenSumSet(LAMBDA w : W[w], S)

LEMMA TotalIsOfTable == ASSUME NEW W, NEW S PROVE Total(W, S) = SumTable(W, S)[S]
BY Zenon DEF Total, MapThenSumSet, MapThenFoldSet, SumTable, Row, Pick

LEMMA TableRows ==
  ASSUME NEW W, NEW S, IsFiniteSet(S)
  PROVE  \A s \in SUBSET S : SumTable(W, S)[s] = Row(W, SumTable(W, S), s)
<1> DEFINE Upto(n) == {s \in SUBSET S : Cardinality(s) <= n}
           Good(n) == \E g : g = [s \in Upto(n) |-> Row(W, g, s)]
           Bad == {n \in Nat : ~Good(n)}
<1>1. \A s \in SUBSET S : IsFiniteSet(s) /\ Cardinality(s) \in Nat /\ Cardinality(s) <= Cardinality(S)
  BY FS_Subset, FS_CardinalityType
<1>2. \A s \in SUBSET S : s # {} => Pick(s) \in s /\ Cardinality(s \ {Pick(s)}) = Cardinality(s) - 1
  <2>1. ASSUME NEW s \in SUBSET S, s # {}
        PROVE  Pick(s) \in s /\ Cardinality(s \ {Pick(s)}) = Cardinality(s) - 1
    <3>1. Pick(s) \in s
      BY <2>1 DEF Pick
    <3> QED BY <1>1, <3>1, FS_RemoveElement
  <2> QED BY <2>1
<1>3. Bad = {}
  <2> SUFFICES ASSUME Bad # {} PROVE FALSE
    OBVIOUS
  <2>1. PICK n \in Bad : \A m \in Bad : n <= m
    BY NatHasLeast
  <2>2. n \in Nat /\ ~Good(n)
    OBVIOUS
  <2>3. CASE n = 0
    <3> DEFINE g == [s \in Upto(0) |-> 0]
    <3>1. \A s \in Upto(0) : s = {}
      BY <1>1, FS_EmptySet
    <3>2. g = [s \in Upto(0) |-> Row(W, g, s)]
      BY <3>1 DEF Row
    <3> QED BY <2>2, <2>3, <3>2
  <2>4. CASE n # 0
    <3>1. n - 1 \in Nat /\ n - 1 \notin Bad
      <4> HIDE DEF Bad
      <4>1. n \in Nat
        BY <2>2
      <4> QED BY <2>1, <2>4, <4>1
    <3>2. PICK g : g = [s \in Upto(n - 1) |-> Row(W, g, s)]
      BY <3>1
    <3> DEFINE h == [s \in Upto(n) |-> Row(W, g, s)]
    <3>3. \A s \in Upto(n - 1) : s \in Upto(n) /\ g[s] = Row(W, g, s)
      <4>1. Upto(n - 1) \subseteq Upto(n)
        BY <1>1, <2>2
      <4> HIDE DEF Upto
      <4> QED BY <3>2, <4>1
    <3>4. \A s \in Upto(n - 1) : h[s] = g[s]
      BY <3>3
    <3>5. \A s \in Upto(n) : s # {} => s \ {Pick(s)} \in Upto(n - 1)
      BY <1>1, <1>2, <2>2
    <3>6. \A s \in Upto(n) : Row(W, g, s) = Row(W, h, s)
      <4> HIDE DEF h, Upto
      <4> QED BY <3>4, <3>5 DEF Row
    <3>7. h = [s \in Upto(n) |-> Row(W, h, s)]
      BY <3>6
    <3> QED BY <2>2, <3>7
  <2> QED BY <2>3, <2>4
<1>4. Good(Cardinality(S))
  BY <1>3, FS_CardinalityType
<1>5. Upto(Cardinality(S)) = SUBSET S
  BY <1>1
<1>6. \E g : g = [s \in SUBSET S |-> Row(W, g, s)]
  BY <1>4, <1>5
<1> DEFINE g == SumTable(W, S)
           h == [s \in SUBSET S |-> Row(W, g, s)]
<1>7. g = h
  BY <1>6, Zenon DEF SumTable
<1>8. \A s \in SUBSET S : h[s] = Row(W, g, s)
  OBVIOUS
<1> HIDE DEF h
<1> QED BY <1>7, <1>8

LEMMA TotalIsNat ==
  ASSUME NEW W, NEW S, IsFiniteSet(S), \A w \in S : W[w] \in Nat
  PROVE  Total(W, S) \in Nat
<1> DEFINE g == SumTable(W, S)
           Bad == {Cardinality(s) : s \in {t \in SUBSET S : g[t] \notin Nat}}
<1>1. \A s \in SUBSET S : g[s] = Row(W, g, s)
  BY TableRows
<1>2. \A s \in SUBSET S : IsFiniteSet(s) /\ Cardinality(s) \in Nat
  BY FS_Subset, FS_CardinalityType
<1> HIDE DEF g
<1>3. Bad = {}
  <2> SUFFICES ASSUME Bad # {} PROVE FALSE
    OBVIOUS
  <2>1. Bad \subseteq Nat
    BY <1>2
  <2>2. PICK n \in Bad : \A m \in Bad : n <= m
    BY <2>1, NatHasLeast
  <2>3. PICK s \in SUBSET S : g[s] \notin Nat /\ n = Cardinality(s)
    OBVIOUS
  <2>4. s # {}
    <3>1. s = {} => g[s] = 0
      BY <1>1, Zenon DEF Row
    <3> QED BY <2>3, <3>1
  <2>5. Pick(s) \in s
    BY <2>4 DEF Pick
  <2>6. Cardinality(s \ {Pick(s)}) = Cardinality(s) - 1
    BY <1>2, <2>5, FS_RemoveElement
  <2>7. g[s \ {Pick(s)}] \in Nat
    <3>1. s \ {Pick(s)} \in SUBSET S
      OBVIOUS
    <3>2. Cardinality(s \ {Pick(s)}) < n
      BY <1>2, <2>3, <2>6
    <3>3. Cardinality(s \ {Pick(s)}) \notin Bad
      BY <1>2, <2>2, <3>1, <3>2
    <3> QED BY <3>1, <3>3
  <2>8. g[s] = W[Pick(s)] + g[s \ {Pick(s)}]
    BY <1>1, <2>4 DEF Row
  <2> QED BY <2>3, <2>5, <2>7, <2>8
<1> QED BY <1>3, TotalIsOfTable DEF g

-----------------------------------------------------------------------------
(* Opinions. *)

WordSum(field, S) == MapThenSumSet(LAMBDA w : RarityOf(w, field), S)

\* What the rarities of a set of words add up to is a number.
LEMMA RaritiesAddUp ==
  ASSUME NEW field, NEW S, IsFiniteSet(S), \A w \in S : RarityOf(w, field) \in Nat
  PROVE  WordSum(field, S) \in Nat
<1> DEFINE W == [w \in S |-> RarityOf(w, field)]
           R(g, s) == IF s = {} THEN 0 ELSE RarityOf(Pick(s), field) + g[s \ {Pick(s)}]
<1>1. WordSum(field, S) = (CHOOSE g : g = [s \in SUBSET S |-> R(g, s)])[S]
  BY Zenon DEF WordSum, MapThenSumSet, MapThenFoldSet, Pick
<1>2. \A g : [s \in SUBSET S |-> R(g, s)] = [s \in SUBSET S |-> Row(W, g, s)]
  <2>1. \A s \in SUBSET S : s # {} => Pick(s) \in S
    BY DEF Pick
  <2>2. ASSUME NEW g, NEW s \in SUBSET S PROVE R(g, s) = Row(W, g, s)
    BY <2>1 DEF Row
  <2> HIDE DEF W, R
  <2> QED BY <2>2
<1>3. \A w \in S : W[w] \in Nat
  OBVIOUS
<1> HIDE DEF W, R
<1>4. (CHOOSE g : g = [s \in SUBSET S |-> R(g, s)]) = (CHOOSE g : g = [s \in SUBSET S |-> Row(W, g, s)])
  BY <1>2
<1>5. WordSum(field, S) = Total(W, S)
  BY <1>1, <1>4, TotalIsOfTable DEF SumTable
<1> QED BY <1>3, <1>5, TotalIsNat

-----------------------------------------------------------------------------
(* Scores are numbers. *)

IsCandidate(c) ==
    /\ c # Nothing
    /\ FiniteWords(c.subject)
    /\ IsFiniteSet(c.dates) /\ c.dates \subseteq Nat /\ c.published \in Nat

\* Candidates whose rarity is known.
IsField(field) ==
    /\ IsFiniteSet(field) /\ \A c \in field : IsCandidate(c)
    /\ \A n \in 2..Cardinality(field) : \A k \in 1..n : Rarity[n][k] \in Nat

LEMMA RatioIsNumber ==
  ASSUME NEW n \in Nat, NEW d \in Nat
  PROVE  Ratio(n, d) \in Int
<1>1. \A x \in Int, y \in Nat : y > 0 => x \div y \in Int
  OBVIOUS
<1>2. Whole * n \in Int
  BY DEF Whole
<1> HIDE DEF Whole
<1> QED BY <1>1, <1>2 DEF Ratio

LEMMA OverlapIsFinite ==
  ASSUME NEW S, NEW T, IsFiniteSet(S)
  PROVE  IsFiniteSet(S \cap T) /\ Cardinality(S \cap T) \in Nat /\ Cardinality(S) \in Nat
<1>1. S \cap T \in SUBSET S
  OBVIOUS
<1> QED BY <1>1, FS_Subset, FS_CardinalityType

LEMMA DiceIsNumber ==
  ASSUME NEW S, NEW T, IsFiniteSet(S), IsFiniteSet(T)
  PROVE  Dice(S, T) \in Int
<1>1. Cardinality(S \cap T) \in Nat /\ Cardinality(S) \in Nat /\ Cardinality(T) \in Nat
  BY OverlapIsFinite, FS_CardinalityType
<1>2. \A a, b, c \in Nat : 2 * a \in Nat /\ b + c \in Nat
  OBVIOUS
<1>3. 2 * Cardinality(S \cap T) \in Nat /\ Cardinality(S) + Cardinality(T) \in Nat
  BY <1>1, <1>2
<1> QED BY <1>3, RatioIsNumber DEF Dice

LEMMA WordsAreFinite ==
  ASSUME NEW S, FiniteWords(S)
  PROVE  IsFiniteSet(Significant(S)) /\ IsFiniteSet(Ngrams(S))
<1>1. Significant(S) \in SUBSET S /\ IsFiniteSet(S)
  BY DEF Significant, FiniteWords
<1>2. IsFiniteSet(Significant(S))
  BY <1>1, FS_Subset
<1> DEFINE f == [w \in S |-> Grams[w]]
           all == {f[w] : w \in DOMAIN f}
<1>3. IsFiniteSet(all)
  <2>1. IsFiniteSet(DOMAIN f)
    BY <1>1
  <2> HIDE DEF f
  <2> QED BY <2>1, ImageIsFinite
<1>4. all = {Grams[w] : w \in S}
  OBVIOUS
<1>5. \A g \in all : IsFiniteSet(g)
  BY <1>4, TextAssumption DEF FiniteWords
<1>6. IsFiniteSet(UNION all)
  BY <1>3, <1>5, FS_UNION
<1> QED BY <1>2, <1>4, <1>6 DEF Ngrams

LEMMA GapIsNumber ==
  ASSUME NEW r, IsRecord(r), NEW c, IsCandidate(c)
  PROVE  Gap(r, c) \in Int
<1> DEFINE dates == EvidenceDates(c)
           f == [d \in dates |-> Distance(d, r.sent_date)]
           all == {f[d] : d \in DOMAIN f}
<1>1. r.sent_date \in Nat
  BY DEF IsRecord
<1>2. IsFiniteSet(dates) /\ dates \subseteq Nat
  <2>1. IsFiniteSet({c.published}) /\ {c.published} \ {NoDate} \in SUBSET {c.published}
    BY FS_Singleton
  <2>2. IsFiniteSet({c.published} \ {NoDate})
    BY <2>1, FS_Subset
  <2> QED BY <2>2, FS_Union DEF IsCandidate, EvidenceDates
<1> HIDE DEF dates
<1>3. IsFiniteSet(all)
  <2>1. IsFiniteSet(DOMAIN f)
    BY <1>2
  <2> HIDE DEF f
  <2> QED BY <2>1, ImageIsFinite
<1>4. all \subseteq Nat /\ all = {Distance(d, r.sent_date) : d \in dates}
  BY <1>1, <1>2 DEF Distance
<1>5. dates # {} => Min(all) \in Nat
  <2> SUFFICES ASSUME dates # {} PROVE Min(all) \in Nat
    OBVIOUS
  <2>1. all # {}
    BY <1>4
  <2> HIDE DEF all
  <2>2. \E x \in all : \A y \in all : x <= y
    BY <1>4, <2>1, NatHasLeast
  <2> QED BY <1>4, <2>2 DEF Min
<1>6. Gap(r, c) = IF dates = {} THEN Undated ELSE Min(all)
  BY <1>4, Zenon DEF Gap, dates
<1> HIDE DEF all
<1> QED BY <1>5, <1>6 DEF Undated

LEMMA RarityIsNumber ==
  ASSUME NEW field, IsField(field), NEW w
  PROVE  RarityOf(w, field) \in Nat
<1> DEFINE n == Cardinality(field)
           holding == {c \in field : w \in Significant(c.subject)}
           k == Cardinality(holding)
<1>1. holding \in SUBSET field /\ IsFiniteSet(field)
  BY DEF IsField
<1>2. n \in Nat /\ k \in Nat /\ k <= n
  <2> HIDE DEF holding
  <2> QED BY <1>1, FS_Subset, FS_CardinalityType
<1>3. \A a \in 2..n : \A b \in 1..a : Rarity[a][b] \in Nat
  BY DEF IsField
<1>4. RarityOf(w, field) = IF n <= 1 \/ k = 0 THEN 100 ELSE Rarity[n][k]
  BY Zenon DEF RarityOf
<1> HIDE DEF n, k
<1> QED BY <1>2, <1>3, <1>4

LEMMA CreditsAreNumbers ==
  ASSUME NEW r, IsRecord(r), NEW field, IsField(field), NEW c \in field
  PROVE  /\ DateCredit(r, c) \in Int /\ RarityCredit(r, c, field) \in Int
         /\ SubjectCredit(r, c) \in Int
         /\ InstrumentCredit(r, c) \in Int /\ RecipientCredit(r, c) \in Int
<1>1. IsCandidate(c) /\ FiniteWords(r.topic) /\ FiniteWords(c.subject)
  BY DEF IsField, IsCandidate, IsRecord
<1>2. DateCredit(r, c) \in Int
  <2>1. Gap(r, c) \in Int
    BY <1>1, GapIsNumber
  <2>2. ASSUME NEW gap \in Int, gap > 3 PROVE Ratio(gap - 3, 27) \in Int
    <3>1. gap - 3 \in Nat
      BY <2>2
    <3> QED BY <3>1, RatioIsNumber
  <2>3. Gap(r, c) > 3 => Ratio(Gap(r, c) - 3, 27) \in Int
    BY <2>1, <2>2
  <2> QED BY <2>1, <2>3 DEF DateCredit, Whole
<1>3. ASSUME NEW S, IsFiniteSet(S)
      PROVE  WordSum(field, S) \in Nat
  <2>1. \A w \in S : RarityOf(w, field) \in Nat
    BY RarityIsNumber
  <2> QED BY <1>3, <2>1, RaritiesAddUp
<1>4. RarityCredit(r, c, field) \in Int
  <2>1. IsFiniteSet(Shared(r, c)) /\ IsFiniteSet(Significant(r.topic))
    BY <1>1, WordsAreFinite, OverlapIsFinite DEF Shared
  <2>2. WordSum(field, Shared(r, c)) \in Nat /\ WordSum(field, Significant(r.topic)) \in Nat
    BY <1>3, <2>1
  <2>3. RarityCredit(r, c, field)
          = Ratio(WordSum(field, Shared(r, c)), WordSum(field, Significant(r.topic)))
    BY Zenon DEF RarityCredit, WordSum
  <2> QED BY <2>2, <2>3, RatioIsNumber
<1>5. SubjectCredit(r, c) \in Int
  <2> DEFINE topic == Significant(r.topic)
             one == Dice(topic, Significant(c.subject))
             two == Dice(Ngrams(r.topic), Ngrams(c.subject))
             body == Ratio(Cardinality(topic \cap Significant(c.body)), Cardinality(topic))
  <2>1. one \in Int /\ two \in Int
    BY <1>1, WordsAreFinite, DiceIsNumber
  <2>2. Cardinality(topic \cap Significant(c.body)) \in Nat /\ Cardinality(topic) \in Nat
    BY <1>1, WordsAreFinite, OverlapIsFinite
  <2>3. body \in Int
    BY <2>2, RatioIsNumber
  <2>4. SubjectCredit(r, c) = IF body > 6000 THEN Larger(Larger(one, two), (9 * body) \div 10)
                              ELSE Larger(one, two)
    BY Zenon DEF SubjectCredit
  <2> HIDE DEF one, two, body
  <2> QED BY <2>1, <2>3, <2>4 DEF Larger
<1>6. InstrumentCredit(r, c) \in Int /\ RecipientCredit(r, c) \in Int
  BY DEF InstrumentCredit, RecipientCredit, Whole
<1> QED BY <1>2, <1>4, <1>5, <1>6

LEMMA ScoreIsNumber ==
  ASSUME NEW r, IsRecord(r), NEW field, IsField(field), NEW c \in field
  PROVE  Score(r, c, field) \in Int
<1> DEFINE date == IF c.dates # {} THEN 34 ELSE 0
           instrument == IF r.identifiers \cup r.acronyms # {} THEN 18 ELSE 0
           recipient == IF r.recipient # {} /\ c.recipient # {} THEN 10 ELSE 0
           total == date * DateCredit(r, c) + 26 * SubjectCredit(r, c)
                      + instrument * InstrumentCredit(r, c)
                      + 12 * RarityCredit(r, c, field)
                      + recipient * RecipientCredit(r, c)
           weight == date + 26 + instrument + 12 + recipient
<1>1. \A x \in Int, y \in Nat : y > 0 => (2 * x + y) \div (2 * y) \in Int
  <2>1. \A x \in Int, y \in Nat : y > 0 => x \div y \in Int
    OBVIOUS
  <2> QED BY <2>1
<1>2. date \in Nat /\ instrument \in Nat /\ recipient \in Nat
  OBVIOUS
<1>3. Score(r, c, field) = (2 * total + weight) \div (2 * weight)
  BY Zenon DEF Score, HalfUp
<1>4. \A x, y \in Int : x * y \in Int
  OBVIOUS
<1> HIDE DEF date, instrument, recipient
<1>5. weight \in Nat /\ weight > 0
  BY <1>2
<1>6. total \in Int
  <2>1. /\ date * DateCredit(r, c) \in Int /\ instrument * InstrumentCredit(r, c) \in Int
        /\ recipient * RecipientCredit(r, c) \in Int
        /\ 26 * SubjectCredit(r, c) \in Int /\ 12 * RarityCredit(r, c, field) \in Int
    BY <1>2, <1>4, CreditsAreNumbers
  <2> QED BY <2>1
<1> HIDE DEF total, weight
<1> QED BY <1>1, <1>3, <1>5, <1>6

-----------------------------------------------------------------------------
(* The decision. *)

LEMMA BestIsBest ==
  ASSUME NEW r, IsRecord(r), NEW field, IsField(field), NEW S \in SUBSET field, S # {}
  PROVE  /\ Best(r, S, field) \in S
         /\ \A d \in S : Score(r, Best(r, S, field), field) >= Score(r, d, field)
<1> DEFINE score == [c \in S |-> Score(r, c, field)]
           none == [c \in S |-> 0]
<1>1. score \in [S -> Int] /\ none \in [S -> Int]
  BY ScoreIsNumber
<1>2. IsFiniteSet(S)
  BY FS_Subset DEF IsField
<1>3. \A c \in S : score[c] = Score(r, c, field)
  OBVIOUS
<1> HIDE DEF score, none
<1>4. PICK c \in S : \A d \in S : score[c] > score[d] \/ (score[c] = score[d] /\ none[c] <= none[d])
  BY <1>1, <1>2, FirstOfFinite
<1>5. \A d \in S : Score(r, c, field) >= Score(r, d, field)
  BY <1>1, <1>3, <1>4
<1> QED BY <1>5 DEF Best

\* The candidate that is clear of the others, and what it is clear of.
LEMMA ClearLeads ==
  ASSUME NEW r, IsRecord(r), NEW field, IsField(field), NEW S \in SUBSET field,
         Clear(r, S, field) # Nothing
  PROVE  LET c == Clear(r, S, field)
         IN  /\ c \in S /\ Score(r, c, field) >= THRESHOLD_MATCH
             /\ \A d \in S \ {c} : Score(r, c, field) - Score(r, d, field) >= MIN_MARGIN
<1> DEFINE best == Best(r, S, field)
           runner == Best(r, S \ {best}, field)
<1>1. S # {} /\ Clear(r, S, field) = LeadOf(best, r, S, field)
  BY DEF Clear
<1>2. best \in S
  BY <1>1, BestIsBest
<1>3. \A x \in field : Score(r, x, field) \in Int
  BY ScoreIsNumber
<1>4. /\ Clear(r, S, field) = best /\ Score(r, best, field) >= THRESHOLD_MATCH
      /\ Score(r, best, field) - BestScore(r, S \ {best}, field) >= MIN_MARGIN
  BY <1>1 DEF LeadOf, Lead
<1>5. ASSUME NEW d \in S \ {best}
      PROVE  Score(r, best, field) - Score(r, d, field) >= MIN_MARGIN
  <2>1. S \ {best} # {} /\ S \ {best} \in SUBSET field
    OBVIOUS
  <2>2. runner \in S \ {best} /\ Score(r, runner, field) >= Score(r, d, field)
    BY <2>1, BestIsBest
  <2>3. BestScore(r, S \ {best}, field) = Score(r, runner, field)
    BY <2>1 DEF BestScore
  <2> QED BY <1>2, <1>3, <1>4, <2>2, <2>3 DEF MIN_MARGIN
<1> HIDE DEF best
<1> QED BY <1>2, <1>4, <1>5

\* The decision and the reference agree.
LEMMA ClearIsTheAnswer ==
  ASSUME NEW r, IsRecord(r), NEW field, IsField(field)
  PROVE  LET lead == Clear(r, Leaders(r, field), field)
         IN  /\ lead # Nothing => Answers(r, lead, field)
             /\ \A c : Answers(r, c, field) => lead = c /\ c # Nothing
<1> DEFINE S == Leaders(r, field)
           lead == Clear(r, S, field)
           best == Best(r, S, field)
           runner == Best(r, S \ {best}, field)
<1>1. S \in SUBSET field
  BY DEF Leaders
<1>2. \A d \in field : d \in S <=> ~Contradicted(r, d) /\ d.class \notin NEVER_PRIMARY
  BY DEF Leaders
<1>3. \A x \in field : Score(r, x, field) \in Int
  BY ScoreIsNumber
<1>4. lead # Nothing => Answers(r, lead, field)
  <2> HIDE DEF S
  <2> QED BY <1>1, <1>2, ClearLeads DEF Answers
<1>5. ASSUME NEW c, Answers(r, c, field) PROVE lead = c /\ c # Nothing
  <2>1. c \in S /\ c \in field /\ c # Nothing
    BY <1>2, <1>5 DEF Answers, IsField, IsCandidate
  <2>2. \A d \in S \ {c} : Score(r, c, field) - Score(r, d, field) >= MIN_MARGIN
    BY <1>1, <1>2, <1>5 DEF Answers
  <2>3. best \in S /\ Score(r, best, field) >= Score(r, c, field)
    BY <1>1, <2>1, BestIsBest
  <2>4. best = c
    BY <1>1, <1>3, <2>1, <2>2, <2>3 DEF MIN_MARGIN
  <2>5. Score(r, c, field) - BestScore(r, S \ {c}, field) >= MIN_MARGIN
    <3>1. CASE S \ {c} = {}
      BY <1>3, <1>5, <2>1, <3>1 DEF BestScore, Answers, THRESHOLD_MATCH, MIN_MARGIN
    <3>2. CASE S \ {c} # {}
      <4>1. Best(r, S \ {c}, field) \in S \ {c}
        BY <1>1, <3>2, BestIsBest
      <4> QED BY <2>2, <3>2, <4>1 DEF BestScore
    <3> QED BY <3>1, <3>2
  <2>6. lead = LeadOf(best, r, S, field)
    BY <2>1 DEF Clear
  <2> HIDE DEF lead, best, S
  <2> QED BY <1>5, <2>1, <2>4, <2>5, <2>6 DEF LeadOf, Lead, Answers
<1> QED BY <1>4, <1>5

\* Two records cannot each have the stronger claim to one letter.
LEMMA OneIsStronger ==
  ASSUME NEW r, IsRecord(r), NEW q, IsRecord(q), NEW field, IsField(field), NEW c \in field
  PROVE  ~(Stronger(r, q, c, field) /\ Stronger(q, r, c, field))
<1>1. Gap(r, c) \in Int /\ Gap(q, c) \in Int
  BY GapIsNumber DEF IsField
<1>2. Score(r, c, field) \in Int /\ Score(q, c, field) \in Int
  BY ScoreIsNumber
<1> QED BY <1>1, <1>2 DEF Stronger

LEMMA ClaimsResolve ==
  ASSUME NEW claim, NEW field, NEW r \in DOMAIN claim
  PROVE  LET kept == ResolveCompetingPrimaries(claim, field)
         IN  /\ DOMAIN kept = DOMAIN claim
             /\ kept[r] # Nothing =>
                   /\ kept[r] = claim[r]
                   /\ \A q \in DOMAIN claim \ {r} :
                         claim[q] = claim[r] => Stronger(r, q, claim[r], field)
             /\ kept[r] = Nothing /\ claim[r] # Nothing =>
                   \E q \in DOMAIN claim \ {r} : claim[q] = claim[r]
BY DEF ResolveCompetingPrimaries

-----------------------------------------------------------------------------
(* The candidates. *)

IsCatalogue(rows) == rows = {} \/ rows \in Catalogues

LEMMA DocumentIsCandidate ==
  ASSUME NEW d, IsDocument(d), NEW published \in Nat, NEW filed, NEW public
  PROVE  IsCandidate(Candidate(d, published, filed, public))
<1> DEFINE c == Candidate(d, published, filed, public)
<1>1. /\ c.kind = "document" /\ c.subject = d.subject /\ c.dates = DatesOf(d)
      /\ c.published = published
  BY DEF Candidate
<1>2. Nothing.kind = "nothing"
  BY DEF Nothing
<1>3. IsFiniteSet(DatesOf(d)) /\ DatesOf(d) \subseteq Nat
  <2>1. DatesOf(d) \in SUBSET {d.filename_date, d.detected_date}
    BY DEF DatesOf
  <2>2. IsFiniteSet({d.filename_date, d.detected_date})
    <3>1. IsFiniteSet({d.filename_date}) /\ IsFiniteSet({d.detected_date})
      BY FS_Singleton
    <3>2. IsFiniteSet({d.filename_date} \cup {d.detected_date})
      BY <3>1, FS_Union
    <3>3. {d.filename_date, d.detected_date} = {d.filename_date} \cup {d.detected_date}
      OBVIOUS
    <3> QED BY <3>2, <3>3
  <2> QED BY <2>1, <2>2, FS_Subset DEF IsDocument
<1> HIDE DEF c
<1>4. c # Nothing
  BY <1>1, <1>2
<1>5. FiniteWords(d.subject)
  BY DEF IsDocument
<1>6. IsCandidate(c)
  BY <1>1, <1>3, <1>4, <1>5 DEF IsCandidate
<1> QED BY <1>6 DEF c

LEMMA LeastIsOne ==
  ASSUME NEW S, S # {}, \A d \in S : d.blob \in Nat
  PROVE  Least(S) \in S
<1> DEFINE blobs == {d.blob : d \in S}
<1>1. blobs \subseteq Nat /\ blobs # {}
  OBVIOUS
<1>2. PICK b \in blobs : \A x \in blobs : b <= x
  BY <1>1, NatHasLeast
<1>3. PICK d \in S : d.blob = b
  OBVIOUS
<1>4. \A e \in S : d.blob <= e.blob
  BY <1>2, <1>3
<1> QED BY <1>4 DEF Least

LEMMA CorpusIsFinite ==
  ASSUME NEW P \in Corpora \cup {NoCorpus}
  PROVE  /\ IsFiniteSet(P.docs) /\ \A d \in P.docs : IsDocument(d) /\ d.page_date \in Nat
         /\ IsFiniteSet(P.pages) /\ \A p \in P.pages : FiniteWords(p.title) /\ p.date \in Nat
<1>1. CASE P \in Corpora
  BY <1>1, OpinionAssumption
<1>2. CASE P = NoCorpus
  <2>1. P.docs = {} /\ P.pages = {}
    BY <1>2 DEF NoCorpus
  <2> QED BY <2>1, FS_EmptySet
<1> QED BY <1>1, <1>2

LEMMA CatalogueIsFinite ==
  ASSUME NEW letters \in Catalogues
  PROVE  IsFiniteSet(letters) /\ \A l \in letters : IsDocument(l)
BY OpinionAssumption

\* Candidates are no more than the letters and the documents they come from.
LEMMA CandidatesAreAField ==
  ASSUME NEW letters \in Catalogues, NEW P \in Corpora \cup {NoCorpus}
  PROVE  IsField(Candidates(letters, P.docs))
<1> DEFINE docs == P.docs
           filed == {l \in letters : l.usable}
           published == {d \in docs : d.usable /\ d.present}
           twins == [d \in published |-> TwinsOf(d, filed)]
           alone == {d \in published : twins[d] = {}}
           joining(l) == {d \in published \ alone : Least(twins[d]) = l}
           first == {e \in alone : e = Least({f \in alone : f.blob = e.blob})}
           one == [l \in filed |-> Joined(l, joining(l))]
           two == [d \in first |-> Candidate(d, d.page_date, FALSE, TRUE)]
           ones == {one[l] : l \in DOMAIN one}
           twos == {two[d] : d \in DOMAIN two}
           field == Candidates(letters, docs)
<1>1. field = ones \cup twos
  <2>1. ones = {Joined(l, joining(l)) : l \in filed}
    OBVIOUS
  <2>2. twos = {Candidate(d, d.page_date, FALSE, TRUE) : d \in first}
    OBVIOUS
  <2> HIDE DEF ones, twos
  <2> QED BY <2>1, <2>2, Zenon DEF Candidates, CandidatesOf, filed, published, twins, alone, joining, first
<1>2. /\ IsFiniteSet(letters) /\ \A l \in letters : IsDocument(l)
      /\ IsFiniteSet(docs) /\ \A d \in docs : IsDocument(d) /\ d.page_date \in Nat
  BY CorpusIsFinite, CatalogueIsFinite
<1>3. /\ IsFiniteSet(filed) /\ Cardinality(filed) <= Cardinality(letters)
      /\ IsFiniteSet(first) /\ Cardinality(first) <= Cardinality(docs)
  <2>1. filed \in SUBSET letters /\ first \in SUBSET docs
    <3>1. first \subseteq alone /\ alone \subseteq published /\ published \subseteq docs
      <4> HIDE DEF twins
      <4> QED OBVIOUS
    <3> HIDE DEF first
    <3> QED BY <3>1
  <2> HIDE DEF filed, first, docs
  <2> QED BY <1>2, <2>1, FS_Subset
<1>4. /\ IsFiniteSet(ones) /\ Cardinality(ones) <= Cardinality(filed)
      /\ IsFiniteSet(twos) /\ Cardinality(twos) <= Cardinality(first)
  <2>1. DOMAIN one = filed /\ DOMAIN two = first
    BY Zenon
  <2> HIDE DEF one, two, filed, first
  <2>2. IsFiniteSet(ones) /\ Cardinality(ones) <= Cardinality(filed)
    BY <1>3, <2>1, ImageIsFinite
  <2>3. IsFiniteSet(twos) /\ Cardinality(twos) <= Cardinality(first)
    BY <1>3, <2>1, ImageIsFinite
  <2> QED BY <2>2, <2>3
<1>5. /\ IsFiniteSet(field)
      /\ Cardinality(field) <= Larger(Cardinality(letters) + Cardinality(docs), Cardinality(P.pages))
      /\ Cardinality(field) \in Nat
      /\ Larger(Cardinality(letters) + Cardinality(docs), Cardinality(P.pages)) \in Nat
  <2>1. IsFiniteSet(P.pages)
    BY CorpusIsFinite
  <2>2. IsFiniteSet(ones \cup twos) /\ IsFiniteSet(ones \cap twos)
        /\ Cardinality(ones \cup twos) = Cardinality(ones) + Cardinality(twos) - Cardinality(ones \cap twos)
    BY <1>4, FS_Union, OverlapIsFinite, FS_Subset
  <2> HIDE DEF ones, twos, filed, first, docs, field
  <2>3. /\ Cardinality(letters) \in Nat /\ Cardinality(docs) \in Nat /\ Cardinality(P.pages) \in Nat
        /\ Cardinality(filed) \in Nat /\ Cardinality(first) \in Nat
        /\ Cardinality(ones) \in Nat /\ Cardinality(twos) \in Nat
        /\ Cardinality(ones \cap twos) \in Nat /\ Cardinality(ones \cup twos) \in Nat
    BY <1>2, <1>3, <1>4, <2>1, <2>2, FS_CardinalityType
  <2> QED BY <1>1, <1>3, <1>4, <2>2, <2>3 DEF Larger
<1>6. \A n \in 2..Cardinality(field) : \A k \in 1..n : Rarity[n][k] \in Nat
  <2>1. \A n \in 2..Larger(Cardinality(letters) + Cardinality(docs), Cardinality(P.pages)) :
           \A k \in 1..n : Rarity[n][k] \in Nat
    BY OpinionAssumption
  <2> HIDE DEF field, docs
  <2> QED BY <1>5, <2>1
<1>7. \A c \in field : IsCandidate(c)
  <2>1. ASSUME NEW l \in filed PROVE IsCandidate(Joined(l, joining(l)))
    <3>1. IsDocument(l)
      BY <1>2
    <3>2. joining(l) # {} => Least(joining(l)).page_date \in Nat
      <4>1. joining(l) \subseteq docs
        <5> HIDE DEF alone
        <5> QED OBVIOUS
      <4>2. \A d \in joining(l) : d.blob \in Nat
        <5> HIDE DEF joining
        <5> QED BY <1>2, <4>1 DEF IsDocument
      <4> HIDE DEF joining
      <4> QED BY <1>2, <4>1, <4>2, LeastIsOne
    <3> HIDE DEF joining
    <3> QED BY <3>1, <3>2, DocumentIsCandidate DEF Joined, NoDate
  <2>2. ASSUME NEW d \in first PROVE IsCandidate(Candidate(d, d.page_date, FALSE, TRUE))
    <3>1. d \in docs
      <4> HIDE DEF twins
      <4> QED OBVIOUS
    <3> HIDE DEF docs
    <3> QED BY <1>2, <3>1, DocumentIsCandidate
  <2>3. \A l \in filed : one[l] = Joined(l, joining(l))
    BY Zenon
  <2>4. \A d \in first : two[d] = Candidate(d, d.page_date, FALSE, TRUE)
    BY Zenon
  <2>5. DOMAIN one = filed /\ DOMAIN two = first
    BY Zenon
  <2> HIDE DEF filed, first, joining, one, two, field
  <2> QED BY <1>1, <2>1, <2>2, <2>3, <2>4, <2>5
<1> HIDE DEF field
<1> QED BY <1>5, <1>6, <1>7 DEF IsField, field

LEMMA PagesAreAField ==
  ASSUME NEW letters \in Catalogues, NEW P \in Corpora \cup {NoCorpus}
  PROVE  IsField(PageCandidates(P.pages))
<1> DEFINE pages == P.pages
           read == {q \in pages : q.present /\ q.body # {}}
           shaped == [p \in read |->
             [kind |-> "page", blob |-> -p.id, class |-> "opinion", text |-> 0, dates |-> {},
              first |-> NoDate, published |-> p.date, filed |-> FALSE, public |-> TRUE,
              subject |-> p.title, body |-> p.body, recipient |-> {},
              identifiers |-> p.identifiers, acronyms |-> p.acronyms]]
           field == {shaped[p] : p \in DOMAIN shaped}
<1>1. PageCandidates(pages) = field
  BY DEF PageCandidates
<1>2. IsFiniteSet(pages) /\ \A p \in pages : FiniteWords(p.title) /\ p.date \in Nat
  BY CorpusIsFinite
<1>3. IsFiniteSet(read) /\ Cardinality(read) <= Cardinality(pages) /\ read \in SUBSET pages
  <2>1. read \in SUBSET pages
    OBVIOUS
  <2> HIDE DEF read, pages
  <2> QED BY <1>2, <2>1, FS_Subset
<1>4. \A c \in field : IsCandidate(c)
  <2>1. ASSUME NEW p \in read PROVE IsCandidate(shaped[p])
    <3>1. /\ shaped[p].kind = "page" /\ shaped[p].subject = p.title /\ shaped[p].dates = {}
          /\ shaped[p].published = p.date
      OBVIOUS
    <3>2. p \in pages /\ Nothing.kind = "nothing"
      BY DEF Nothing
    <3> HIDE DEF shaped, pages
    <3> QED BY <1>2, <3>1, <3>2, FS_EmptySet DEF IsCandidate
  <2>2. DOMAIN shaped = read
    BY Zenon
  <2> HIDE DEF shaped, read
  <2> QED BY <2>1, <2>2
<1>5. IsFiniteSet(field) /\ Cardinality(field) <= Cardinality(read)
  <2>1. DOMAIN shaped = read
    BY Zenon
  <2> HIDE DEF shaped, read
  <2> QED BY <1>3, <2>1, ImageIsFinite
<1>6. IsFiniteSet(letters) /\ IsFiniteSet(P.docs)
  BY CorpusIsFinite, CatalogueIsFinite
<1>7. \A n \in 2..Larger(Cardinality(letters) + Cardinality(P.docs), Cardinality(pages)) :
         \A k \in 1..n : Rarity[n][k] \in Nat
  BY OpinionAssumption
<1> HIDE DEF field, read, pages
<1>8. /\ Cardinality(letters) \in Nat /\ Cardinality(P.docs) \in Nat /\ Cardinality(pages) \in Nat
      /\ Cardinality(read) \in Nat /\ Cardinality(field) \in Nat
  BY <1>2, <1>3, <1>5, <1>6, FS_CardinalityType
<1>9. \A n \in 2..Cardinality(field) : \A k \in 1..n : Rarity[n][k] \in Nat
  BY <1>3, <1>5, <1>7, <1>8 DEF Larger
<1> QED BY <1>1, <1>4, <1>5, <1>9 DEF IsField, pages

-----------------------------------------------------------------------------
(* What a match is made of. *)

ItemsOf(reg) == {r \in reg.rows : OpinionEligible(r)}

FieldOf(cat, cor) == Candidates(cat.rows, cor.docs)

PlanOf(reg, cat, cor, flagged) ==
    Planned(ItemsOf(reg), FieldOf(cat, cor), flagged, PageCandidates(cor.pages))

\* Inputs a run could have read: of some publication until now, and the current
\* one when the number is the current number.
Read(reg, cat, cor) ==
    /\ reg.no \in Nat /\ reg.no <= sentRegister.no /\ (reg.no = sentRegister.no => reg = sentRegister)
    /\ \A r \in reg.rows : IsRecord(r)
    /\ cat.no \in Nat /\ cat.no <= catalogue.no /\ (cat.no = catalogue.no => cat = catalogue)
    /\ cat.rows \in Catalogues
    /\ cor.no \in Nat /\ cor.no <= corpus.no /\ (cor.no = corpus.no => cor = corpus)
    /\ \E P \in Corpora \cup {NoCorpus} : cor.docs = P.docs /\ cor.pages = P.pages

\* The current match is of such inputs, and was computed with the flags that
\* stand now; its own collisions are among them.
Computed(reg, cat, cor) ==
    LET plan == PlanOf(reg, cat, cor, ambiguous)
    IN  /\ opinionMatch.legal = reg.no /\ opinionMatch.catalogue = cat.no
        /\ opinionMatch.corpus = cor.no
        /\ opinionMatch.primary = plan.primary /\ opinionMatch.secondary = plan.secondary
        /\ opinionMatch.page = plan.page
        /\ Collisions(ItemsOf(reg)) \subseteq ambiguous

OpinionInv ==
    /\ sentRegister.no \in Nat /\ \A r \in sentRegister.rows : IsRecord(r)
    /\ catalogue.no \in Nat /\ IsCatalogue(catalogue.rows)
    /\ catalogue.no # 0 => catalogue.rows \in Catalogues
    /\ corpus.no \in Nat
    /\ \E P \in Corpora \cup {NoCorpus} : corpus.docs = P.docs /\ corpus.pages = P.pages
    /\ \A run \in opinionRun : Read(run.register, run.catalogue, run.corpus)
    /\ opinionMatch.no \in Nat
    /\ opinionMatch.no # 0 =>
          \E reg, cat, cor : Read(reg, cat, cor) /\ Computed(reg, cat, cor)

LEMMA OpinionsStart == OpinionInit => OpinionInv
<1> SUFFICES ASSUME OpinionInit PROVE OpinionInv
  OBVIOUS
<1>1. corpus.docs = NoCorpus.docs /\ corpus.pages = NoCorpus.pages
  BY DEF OpinionInit, NoCorpus
<1> QED BY <1>1 DEF OpinionInit, OpinionInv, IsCatalogue, NoMatch

\* A later publication leaves what was read readable.
LEMMA ReadLasts ==
  ASSUME OpinionInv,
         \/ UNCHANGED sentRegister
         \/ sentRegister'.no = sentRegister.no + 1,
         \/ UNCHANGED catalogue
         \/ catalogue'.no = catalogue.no + 1,
         \/ UNCHANGED corpus
         \/ corpus'.no = corpus.no + 1,
         NEW reg, NEW cat, NEW cor, Read(reg, cat, cor)
  PROVE  Read(reg, cat, cor)'
<1>1. \A m, n \in Nat : m <= n => m <= n + 1 /\ m # n + 1
  OBVIOUS
<1>2. reg.no <= sentRegister'.no /\ (reg.no = sentRegister'.no => reg = sentRegister')
  BY <1>1 DEF OpinionInv, Read
<1>3. cat.no <= catalogue'.no /\ (cat.no = catalogue'.no => cat = catalogue')
  BY <1>1 DEF OpinionInv, Read
<1>4. cor.no <= corpus'.no /\ (cor.no = corpus'.no => cor = corpus')
  BY <1>1 DEF OpinionInv, Read
<1> QED BY <1>2, <1>3, <1>4 DEF Read

LEMMA PublicationKeepsInv ==
  ASSUME OpinionInv,
         \/ PublishRegister \/ PublishCatalogue \/ PublishCorpus
  PROVE  OpinionInv'
<1>1. /\ UNCHANGED sentRegister \/ sentRegister'.no = sentRegister.no + 1
      /\ UNCHANGED catalogue \/ catalogue'.no = catalogue.no + 1
      /\ UNCHANGED corpus \/ corpus'.no = corpus.no + 1
      /\ UNCHANGED <<opinionMatch, opinionRun, matters, ambiguous>>
  <2>1. CASE PublishRegister
    BY <2>1 DEF PublishRegister
  <2>2. CASE PublishCatalogue
    BY <2>2 DEF PublishCatalogue
  <2>3. CASE PublishCorpus
    BY <2>3 DEF PublishCorpus
  <2> QED BY <2>1, <2>2, <2>3
<1>2. \A reg, cat, cor : Read(reg, cat, cor) => Read(reg, cat, cor)'
  BY <1>1, ReadLasts
<1>3. \A run \in opinionRun' : Read(run.register, run.catalogue, run.corpus)'
  BY <1>1, <1>2 DEF OpinionInv
<1>4. opinionMatch'.no # 0 => \E reg, cat, cor : Read(reg, cat, cor)' /\ Computed(reg, cat, cor)'
  <2>1. \A reg, cat, cor : Computed(reg, cat, cor) => Computed(reg, cat, cor)'
    BY <1>1 DEF Computed
  <2> QED BY <1>1, <1>2, <2>1 DEF OpinionInv
<1>5. sentRegister'.no \in Nat /\ \A r \in sentRegister'.rows : IsRecord(r)
  <2>1. \A R \in Registers : \A r \in R : IsRecord(r)
    BY OpinionAssumption
  <2> QED BY <2>1 DEF OpinionInv, PublishRegister, PublishCatalogue, PublishCorpus
<1>6. /\ catalogue'.no \in Nat /\ IsCatalogue(catalogue'.rows)
      /\ catalogue'.no # 0 => catalogue'.rows \in Catalogues
  BY DEF OpinionInv, PublishRegister, PublishCatalogue, PublishCorpus, IsCatalogue
<1>7. corpus'.no \in Nat /\ \E P \in Corpora \cup {NoCorpus} : corpus'.docs = P.docs /\ corpus'.pages = P.pages
  <2>1. CASE PublishCorpus
    BY <2>1 DEF OpinionInv, PublishCorpus
  <2>2. CASE UNCHANGED corpus
    BY <2>2 DEF OpinionInv
  <2> QED BY <2>1, <2>2 DEF PublishRegister, PublishCatalogue
<1>8. opinionMatch'.no \in Nat
  BY <1>1 DEF OpinionInv
<1> QED BY <1>3, <1>4, <1>5, <1>6, <1>7, <1>8 DEF OpinionInv

LEMMA OpinionStep == OpinionInv /\ [OpinionNext]_opinionVars => OpinionInv'
<1> SUFFICES ASSUME OpinionInv, [OpinionNext]_opinionVars PROVE OpinionInv'
  OBVIOUS
<1>1. CASE PublishRegister \/ PublishCatalogue \/ PublishCorpus
  BY <1>1, PublicationKeepsInv
<1>2. CASE RunOpinionMatching
  <2> DEFINE run == [register |-> sentRegister, catalogue |-> catalogue, corpus |-> corpus]
  <2>1. Read(sentRegister, catalogue, corpus)
    BY <1>2 DEF OpinionInv, Read, RunOpinionMatching
  <2>2. opinionRun' = {run} /\ UNCHANGED <<sentRegister, catalogue, corpus, opinionMatch, matters, ambiguous>>
    BY <1>2 DEF RunOpinionMatching
  <2>3. \A x \in opinionRun' : Read(x.register, x.catalogue, x.corpus)'
    BY <2>1, <2>2 DEF Read
  <2>4. opinionMatch'.no # 0 => \E reg, cat, cor : Read(reg, cat, cor)' /\ Computed(reg, cat, cor)'
    BY <2>2 DEF OpinionInv, Read, Computed
  <2> QED BY <2>2, <2>3, <2>4 DEF OpinionInv
<1>3. CASE CommitOpinionMatching
  <2>1. opinionRun # {} /\ opinionRun' = {} /\ UNCHANGED <<sentRegister, catalogue, corpus>>
    BY <1>3 DEF CommitOpinionMatching
  <2> DEFINE Done(reg, cat, cor) ==
               /\ Read(reg, cat, cor)
               /\ ambiguous' = ambiguous \cup Collisions(ItemsOf(reg))
               /\ opinionMatch' = Generate(reg, cat, cor, ambiguous')
             run == CHOOSE x \in opinionRun : TRUE
  <2>2. Done(run.register, run.catalogue, run.corpus)
    <3>1. run \in opinionRun
      BY <2>1
    <3>2. /\ ambiguous' = ambiguous \cup Collisions(ItemsOf(run.register))
          /\ opinionMatch' = Generate(run.register, run.catalogue, run.corpus, ambiguous')
      BY <1>3 DEF CommitOpinionMatching, Flags, ItemsOf
    <3> HIDE DEF run
    <3> QED BY <3>1, <3>2 DEF OpinionInv
  <2>3. PICK reg, cat, cor : Done(reg, cat, cor)
    BY <2>2
  <2> DEFINE plan == PlanOf(reg, cat, cor, ambiguous')
  <2>4. Read(reg, cat, cor)'
    BY <2>1, <2>3 DEF Read
  <2>5. /\ opinionMatch'.no = opinionMatch.no + 1
        /\ opinionMatch'.legal = reg.no /\ opinionMatch'.catalogue = cat.no
        /\ opinionMatch'.corpus = cor.no
        /\ opinionMatch'.primary = plan.primary /\ opinionMatch'.secondary = plan.secondary
        /\ opinionMatch'.page = plan.page
    <3> DEFINE m == [no |-> opinionMatch.no + 1, legal |-> reg.no, catalogue |-> cat.no,
                     corpus |-> cor.no, primary |-> plan.primary,
                     secondary |-> plan.secondary, page |-> plan.page]
    <3>1. opinionMatch' = m
      BY <2>3, Zenon DEF Generate, PlanOf, ItemsOf, FieldOf
    <3> HIDE DEF plan
    <3> QED BY <3>1
  <2>6. Computed(reg, cat, cor)'
    BY <2>3, <2>5 DEF Computed
  <2>7. opinionMatch'.no \in Nat
    BY <2>5 DEF OpinionInv
  <2> QED BY <2>1, <2>4, <2>6, <2>7 DEF OpinionInv
<1>4. CASE RunFails
  <2>1. opinionRun' = {} /\ UNCHANGED <<sentRegister, catalogue, corpus, opinionMatch, matters, ambiguous>>
    BY <1>4 DEF RunFails
  <2>2. \A reg, cat, cor : (Read(reg, cat, cor) => Read(reg, cat, cor)')
                           /\ (Computed(reg, cat, cor) => Computed(reg, cat, cor)')
    BY <2>1 DEF Read, Computed
  <2> QED BY <2>1, <2>2 DEF OpinionInv
<1>5. CASE UNCHANGED opinionVars
  <2>1. UNCHANGED <<sentRegister, catalogue, corpus, opinionMatch, opinionRun, matters, ambiguous>>
    BY <1>5 DEF opinionVars
  <2>2. \A reg, cat, cor : (Read(reg, cat, cor) => Read(reg, cat, cor)')
                           /\ (Computed(reg, cat, cor) => Computed(reg, cat, cor)')
    BY <2>1 DEF Read, Computed
  <2> QED BY <2>1, <2>2 DEF OpinionInv
<1> QED BY <1>1, <1>2, <1>3, <1>4, <1>5 DEF OpinionNext

-----------------------------------------------------------------------------
(* What a reader gets of a match. *)

\* A letter that leads answers its record and no other, under a key nobody
\* shares; a record left without one has no answer of its own; an article stands
\* in for a letter only there.
LEMMA PlanIsDeserved ==
  ASSUME NEW items, \A r \in items : IsRecord(r), NEW field, IsField(field),
         NEW pages, IsField(pages), NEW flagged
  PROVE  LET plan == Planned(items, field, flagged, pages)
         IN  /\ DOMAIN plan.primary = items /\ DOMAIN plan.page = items
             /\ \A r \in items : plan.primary[r] # Nothing =>
                   /\ MatterKey(r) \notin flagged /\ Answers(r, plan.primary[r], field)
                   /\ \A q \in items \ {r} : plan.primary[q] # plan.primary[r]
             /\ \A r \in items : plan.primary[r] = Nothing /\ MatterKey(r) \notin flagged =>
                   \A c : Answers(r, c, field) => \E q \in items \ {r} : Answers(q, c, field)
             /\ \A r \in items : plan.page[r] # Nothing =>
                   plan.primary[r] = Nothing /\ Gap(r, plan.page[r]) <= 30
                   /\ ~Contradicted(r, plan.page[r])
             /\ \A r \in items : \A c \in plan.secondary[r] :
                   plan.primary[r] # Nothing /\ ~Contradicted(r, c)
<1> DEFINE plan == Planned(items, field, flagged, pages)
           claim == Claims(items, field, flagged)
           primary == ResolveCompetingPrimaries(claim, field)
           lead(r) == Clear(r, Leaders(r, field), field)
           near(r, p) == IF primary[r] = Nothing /\ p # Nothing /\ Gap(r, p) <= 30 THEN p ELSE Nothing
           close == [r \in items |->
                       near(r, Clear(r, {p \in pages : ~Contradicted(r, p)}, pages))]
<1>1. /\ plan.primary = primary
      /\ plan.secondary = [r \in items |-> IF primary[r] = Nothing THEN {}
                                           ELSE Group(r, primary[r], field)]
      /\ plan.page = ResolveCompetingPrimaries(close, pages)
  BY DEF Planned, Relations, PageClaims
<1>2. /\ DOMAIN claim = items
      /\ \A r \in items : claim[r] = IF MatterKey(r) \in flagged THEN Nothing ELSE lead(r)
  BY DEF Claims
<1>3. DOMAIN close = items /\ \A r \in items : close[r] # Nothing =>
        primary[r] = Nothing /\ Gap(r, close[r]) <= 30 /\ ~Contradicted(r, close[r])
  <2>1. ASSUME NEW r, NEW p, near(r, p) # Nothing
        PROVE  primary[r] = Nothing /\ Gap(r, near(r, p)) <= 30 /\ near(r, p) = p
    <3> HIDE DEF primary
    <3> QED BY <2>1
  <2>2. DOMAIN close = items /\ \A r \in items :
           close[r] = near(r, Clear(r, {p \in pages : ~Contradicted(r, p)}, pages))
    <3> HIDE DEF near
    <3> QED OBVIOUS
  <2>3. ASSUME NEW r \in items, NEW S \in SUBSET pages, Clear(r, S, pages) # Nothing
        PROVE  Clear(r, S, pages) \in S
    BY <2>3, ClearLeads
  <2> HIDE DEF close, near, primary
  <2>4. ASSUME NEW r \in items, close[r] # Nothing
        PROVE  primary[r] = Nothing /\ Gap(r, close[r]) <= 30 /\ ~Contradicted(r, close[r])
    <3> DEFINE S == {p \in pages : ~Contradicted(r, p)}
               p == Clear(r, S, pages)
    <3>1. close[r] = near(r, p) /\ S \in SUBSET pages
      BY <2>2
    <3>2. primary[r] = Nothing /\ Gap(r, close[r]) <= 30 /\ close[r] = p
      BY <2>1, <2>4, <3>1
    <3>3. p \in S
      BY <2>3, <2>4, <3>1, <3>2
    <3> QED BY <3>2, <3>3
  <2> QED BY <2>2, <2>4
<1> HIDE DEF plan, claim, close, near
<1>4. DOMAIN primary = items /\ DOMAIN plan.page = items
  <2>1. \A f, F : DOMAIN ResolveCompetingPrimaries(f, F) = DOMAIN f
    BY DEF ResolveCompetingPrimaries
  <2> HIDE DEF primary
  <2> QED BY <1>1, <1>2, <1>3, <2>1 DEF primary
<1>5. \A r \in items : /\ primary[r] # Nothing => primary[r] = claim[r]
                                                  /\ \A q \in items \ {r} : claim[q] = claim[r] =>
                                                        Stronger(r, q, claim[r], field)
                       /\ primary[r] = Nothing /\ claim[r] # Nothing =>
                             \E q \in items \ {r} : claim[q] = claim[r]
  BY <1>2, ClaimsResolve
<1>6. \A r \in items : /\ lead(r) # Nothing => Answers(r, lead(r), field)
                       /\ \A c : Answers(r, c, field) => lead(r) = c /\ c # Nothing
  BY ClearIsTheAnswer
<1> HIDE DEF primary, lead
<1>7. ASSUME NEW r \in items, primary[r] # Nothing
      PROVE  /\ MatterKey(r) \notin flagged /\ Answers(r, primary[r], field)
             /\ \A q \in items \ {r} : primary[q] # primary[r]
  <2>1. MatterKey(r) \notin flagged /\ primary[r] = lead(r) /\ primary[r] = claim[r]
    BY <1>2, <1>5, <1>7
  <2>2. Answers(r, primary[r], field)
    BY <1>6, <1>7, <2>1
  <2>3. ASSUME NEW q \in items \ {r}, primary[q] = primary[r] PROVE FALSE
    <3>1. claim[q] = claim[r] /\ claim[q] = primary[r]
      BY <1>5, <1>7, <2>1, <2>3
    <3>2. Stronger(r, q, primary[r], field) /\ Stronger(q, r, primary[r], field)
      BY <1>5, <1>7, <2>1, <2>3, <3>1
    <3>3. primary[r] \in field
      BY <2>2 DEF Answers
    <3> QED BY <3>2, <3>3, OneIsStronger
  <2> QED BY <2>1, <2>2, <2>3
<1>8. ASSUME NEW r \in items, primary[r] = Nothing, MatterKey(r) \notin flagged,
             NEW c, Answers(r, c, field)
      PROVE  \E q \in items \ {r} : Answers(q, c, field)
  <2>1. claim[r] = c /\ c # Nothing
    BY <1>2, <1>6, <1>8
  <2>2. PICK q \in items \ {r} : claim[q] = c
    BY <1>5, <1>8, <2>1
  <2>3. lead(q) = c
    BY <1>2, <2>1, <2>2
  <2> QED BY <1>6, <2>1, <2>3
<1>9. ASSUME NEW r \in items, plan.page[r] # Nothing
      PROVE  primary[r] = Nothing /\ Gap(r, plan.page[r]) <= 30 /\ ~Contradicted(r, plan.page[r])
  <2>1. plan.page[r] = close[r]
    BY <1>1, <1>3, <1>9, ClaimsResolve
  <2> QED BY <1>3, <1>9, <2>1
<1>10. ASSUME NEW r \in items, NEW c \in plan.secondary[r]
       PROVE  primary[r] # Nothing /\ ~Contradicted(r, c)
  BY <1>1, <1>10 DEF Group
<1>11. /\ \A r \in items : plan.primary[r] # Nothing =>
             /\ MatterKey(r) \notin flagged /\ Answers(r, plan.primary[r], field)
             /\ \A q \in items \ {r} : plan.primary[q] # plan.primary[r]
       /\ \A r \in items : plan.primary[r] = Nothing /\ MatterKey(r) \notin flagged =>
             \A c : Answers(r, c, field) => \E q \in items \ {r} : Answers(q, c, field)
  BY <1>1, <1>7, <1>8
<1>12. /\ \A r \in items : plan.page[r] # Nothing =>
             plan.primary[r] = Nothing /\ Gap(r, plan.page[r]) <= 30
             /\ ~Contradicted(r, plan.page[r])
       /\ \A r \in items : \A c \in plan.secondary[r] :
             plan.primary[r] # Nothing /\ ~Contradicted(r, c)
  BY <1>1, <1>9, <1>10
<1> QED BY <1>1, <1>4, <1>11, <1>12 DEF plan

\* The match a reader meets and the inputs it is of.
LEMMA MatchIsPlanned ==
  ASSUME NEW reg, NEW cat, NEW cor, Read(reg, cat, cor), Computed(reg, cat, cor)
  PROVE  LET items == ItemsOf(reg)
             field == FieldOf(cat, cor)
         IN  /\ DOMAIN opinionMatch.primary = items /\ DOMAIN opinionMatch.page = items
             /\ \A r \in items : opinionMatch.primary[r] # Nothing =>
                   /\ MatterKey(r) \notin ambiguous /\ Answers(r, opinionMatch.primary[r], field)
                   /\ \A q \in items \ {r} : opinionMatch.primary[q] # opinionMatch.primary[r]
             /\ \A r \in items : opinionMatch.primary[r] = Nothing /\ MatterKey(r) \notin ambiguous =>
                   \A c : Answers(r, c, field) => \E q \in items \ {r} : Answers(q, c, field)
             /\ \A r \in items : opinionMatch.page[r] # Nothing =>
                   opinionMatch.primary[r] = Nothing /\ Gap(r, opinionMatch.page[r]) <= 30
                   /\ ~Contradicted(r, opinionMatch.page[r])
             /\ \A r \in items : \A c \in opinionMatch.secondary[r] :
                   opinionMatch.primary[r] # Nothing /\ ~Contradicted(r, c)
<1> DEFINE items == ItemsOf(reg)
           field == FieldOf(cat, cor)
           pages == PageCandidates(cor.pages)
<1>1. \A r \in items : IsRecord(r)
  BY DEF Read, ItemsOf
<1>2. PICK P \in Corpora \cup {NoCorpus} : cor.docs = P.docs /\ cor.pages = P.pages
  BY DEF Read
<1>3. cat.rows \in Catalogues
  BY DEF Read
<1>4. IsField(field) /\ IsField(pages)
  BY <1>2, <1>3, CandidatesAreAField, PagesAreAField DEF FieldOf
<1>5. LET plan == Planned(items, field, ambiguous, pages)
      IN  /\ opinionMatch.primary = plan.primary /\ opinionMatch.secondary = plan.secondary
          /\ opinionMatch.page = plan.page
  BY DEF Computed, PlanOf
<1> HIDE DEF items, field, pages
<1>6. LET plan == Planned(items, field, ambiguous, pages)
      IN  /\ DOMAIN plan.primary = items /\ DOMAIN plan.page = items
          /\ \A r \in items : plan.primary[r] # Nothing =>
                /\ MatterKey(r) \notin ambiguous /\ Answers(r, plan.primary[r], field)
                /\ \A q \in items \ {r} : plan.primary[q] # plan.primary[r]
          /\ \A r \in items : plan.primary[r] = Nothing /\ MatterKey(r) \notin ambiguous =>
                \A c : Answers(r, c, field) => \E q \in items \ {r} : Answers(q, c, field)
          /\ \A r \in items : plan.page[r] # Nothing =>
                plan.primary[r] = Nothing /\ Gap(r, plan.page[r]) <= 30
                /\ ~Contradicted(r, plan.page[r])
          /\ \A r \in items : \A c \in plan.secondary[r] :
                plan.primary[r] # Nothing /\ ~Contradicted(r, c)
  BY <1>1, <1>4, PlanIsDeserved
<1> QED BY <1>5, <1>6 DEF items, field

\* A letter of the catalogue and a document of its own are two letters.
LEMMA OneCandidatePerLetter ==
  ASSUME OpinionInv
  PROVE  LetterIsOneCandidate
<1> DEFINE docs == corpus.docs
           letters == catalogue.rows
           filed == {l \in letters : l.usable}
           published == {d \in docs : d.usable /\ d.present}
           twins == [d \in published |-> TwinsOf(d, filed)]
           alone == {d \in published : twins[d] = {}}
<1>1. (\A l \in letters : IsDocument(l)) /\ (\A d \in docs : IsDocument(d))
  <2>1. PICK P \in Corpora \cup {NoCorpus} : docs = P.docs
    BY DEF OpinionInv
  <2> QED BY <2>1, CorpusIsFinite, CatalogueIsFinite DEF OpinionInv, IsCatalogue
<1>2. \A a, b \in Nat : Distance(a, b) = Distance(b, a)
  BY DEF Distance
<1>3. \A c \in Candidates(letters, docs) :
        /\ c.filed => \E l \in filed : c.blob = l.blob /\ c.text = l.text /\ c.dates = DatesOf(l)
        /\ ~c.filed => \E d \in alone : c.blob = d.blob /\ c.text = d.text /\ c.dates = DatesOf(d)
  <2> DEFINE joining(l) == {d \in published \ alone : Least(twins[d]) = l}
             first == {e \in alone : e = Least({f \in alone : f.blob = e.blob})}
  <2>1. Candidates(letters, docs) = {Joined(l, joining(l)) : l \in filed}
                                      \cup {Candidate(d, d.page_date, FALSE, TRUE) : d \in first}
    BY Zenon DEF Candidates, CandidatesOf
  <2>2. \A d, p : LET c == Candidate(d, p, FALSE, TRUE)
                  IN  ~c.filed /\ c.blob = d.blob /\ c.text = d.text /\ c.dates = DatesOf(d)
    BY DEF Candidate
  <2>3. \A l, J : LET c == Joined(l, J)
                  IN  c.filed /\ c.blob = l.blob /\ c.text = l.text /\ c.dates = DatesOf(l)
    <3>1. \A l, p, g : LET c == Candidate(l, p, TRUE, g)
                       IN  c.filed /\ c.blob = l.blob /\ c.text = l.text /\ c.dates = DatesOf(l)
      BY DEF Candidate
    <3> QED BY <3>1 DEF Joined
  <2>4. first \subseteq alone
    <3> HIDE DEF alone
    <3> QED OBVIOUS
  <2> HIDE DEF filed, first, joining, alone
  <2> SUFFICES ASSUME NEW c \in Candidates(letters, docs)
               PROVE  /\ c.filed => \E l \in filed : c.blob = l.blob /\ c.text = l.text
                                                       /\ c.dates = DatesOf(l)
                      /\ ~c.filed => \E d \in alone : c.blob = d.blob /\ c.text = d.text
                                                        /\ c.dates = DatesOf(d)
    OBVIOUS
  <2>5. CASE \E l \in filed : c = Joined(l, joining(l))
    BY <2>3, <2>5
  <2>6. CASE \E d \in first : c = Candidate(d, d.page_date, FALSE, TRUE)
    BY <2>2, <2>4, <2>6
  <2> QED BY <2>1, <2>5, <2>6
<1>4. ASSUME NEW c \in Candidates(letters, docs), NEW d \in Candidates(letters, docs),
             c.filed, ~d.filed, Republishes(d, c)
      PROVE  FALSE
  <2>1. PICK l \in filed : c.blob = l.blob /\ c.text = l.text /\ c.dates = DatesOf(l)
    BY <1>3, <1>4
  <2>2. PICK e \in alone : d.blob = e.blob /\ d.text = e.text /\ d.dates = DatesOf(e)
    BY <1>3, <1>4
  <2>3. TwinsOf(e, filed) = {} /\ e \in docs
    BY <2>2
  <2>4. l.blob # e.blob
    BY <2>3 DEF TwinsOf
  <2>5. l.text # e.text
    BY <2>3 DEF TwinsOf
  <2>6. ~(/\ {l.text, e.text} \in SameLetter
          /\ \E a \in DatesOf(l), b \in DatesOf(e) : Distance(a, b) <= 7)
    <3> DEFINE bytes == {x \in filed : x.blob = e.blob}
               texts == {x \in filed : x.text = e.text}
               near == {x \in filed : /\ {x.text, e.text} \in SameLetter
                                      /\ \E a \in DatesOf(x), b \in DatesOf(e) : Distance(a, b) <= 7}
    <3>1. TwinsOf(e, filed) = CASE bytes # {} -> bytes
                                [] bytes = {} /\ texts # {} -> texts
                                [] OTHER -> near
      BY Zenon DEF TwinsOf
    <3>2. near = {}
      <4> HIDE DEF bytes, texts, near, filed
      <4> QED BY <2>3, <3>1
    <3> QED BY <3>2
  <2>7. DatesOf(l) \subseteq Nat /\ DatesOf(e) \subseteq Nat
    BY <1>1, <2>3 DEF DatesOf, IsDocument
  <2>8. {e.text, l.text} = {l.text, e.text}
    OBVIOUS
  <2>9. /\ {e.text, l.text} \in SameLetter
        /\ \E a \in DatesOf(e), b \in DatesOf(l) : Distance(a, b) <= 7
    BY <1>4, <2>1, <2>2, <2>4, <2>5 DEF Republishes
  <2>10. PICK a \in DatesOf(e), b \in DatesOf(l) : Distance(a, b) <= 7
    BY <2>9
  <2>11. Distance(b, a) <= 7
    BY <1>2, <2>7, <2>10
  <2> QED BY <2>6, <2>8, <2>9, <2>11
<1> QED BY <1>4 DEF LetterIsOneCandidate

LEMMA LinksAreOfTheMatch ==
  ASSUME OpinionInv
  PROVE  LinkIsAnswered /\ LetterLeadsOne /\ SharedKeyIsDark /\ AddressShowsItsMatter
<1>1. \A r : /\ PrimaryShown(r) # Nothing =>
                  /\ MatchIsCurrent /\ r \in DOMAIN opinionMatch.primary
                  /\ PrimaryShown(r) = opinionMatch.primary[r]
             /\ PageShown(r) # Nothing =>
                  /\ MatchIsCurrent /\ r \in DOMAIN opinionMatch.page
                  /\ PageShown(r) = opinionMatch.page[r]
  BY DEF PrimaryShown, PageShown
<1>2. \A r : CurrentRelations(r) # {} =>
               MatchIsCurrent /\ OpinionEligible(r) /\ r \in DOMAIN opinionMatch.primary
  BY DEF CurrentRelations
<1>3. CASE ~MatchIsCurrent
  <2>1. \A r : PrimaryShown(r) = Nothing /\ PageShown(r) = Nothing /\ CurrentRelations(r) = {}
    BY <1>1, <1>2, <1>3
  <2>2. Linked = {} /\ Served = {}
    BY <2>1 DEF Linked, Served
  <2>3. \A key : ResourceShows(key) = {}
    <3> SUFFICES ASSUME NEW key, NEW c \in ResourceShows(key) PROVE FALSE
      OBVIOUS
    <3> QED BY <2>1 DEF ResourceShows
  <2> QED BY <2>1, <2>2, <2>3 DEF LinkIsAnswered, LetterLeadsOne, SharedKeyIsDark, AddressShowsItsMatter
<1>4. CASE MatchIsCurrent
  <2>1. PICK reg, cat, cor : Read(reg, cat, cor) /\ Computed(reg, cat, cor)
    BY <1>4 DEF OpinionInv, MatchIsCurrent
  <2>2. reg = sentRegister
    BY <1>4, <2>1 DEF MatchIsCurrent, Read, Computed
  <2> DEFINE items == ItemsOf(sentRegister)
             field == FieldOf(cat, cor)
  <2>3. /\ DOMAIN opinionMatch.primary = items /\ DOMAIN opinionMatch.page = items
        /\ \A r \in items : opinionMatch.primary[r] # Nothing =>
              /\ MatterKey(r) \notin ambiguous /\ Answers(r, opinionMatch.primary[r], field)
              /\ \A q \in items \ {r} : opinionMatch.primary[q] # opinionMatch.primary[r]
        /\ \A r \in items : opinionMatch.primary[r] = Nothing /\ MatterKey(r) \notin ambiguous =>
              \A c : Answers(r, c, field) => \E q \in items \ {r} : Answers(q, c, field)
        /\ \A r \in items : opinionMatch.page[r] # Nothing =>
              opinionMatch.primary[r] = Nothing /\ Gap(r, opinionMatch.page[r]) <= 30
              /\ ~Contradicted(r, opinionMatch.page[r])
        /\ \A r \in items : \A c \in opinionMatch.secondary[r] :
              opinionMatch.primary[r] # Nothing /\ ~Contradicted(r, c)
    BY <2>1, <2>2, MatchIsPlanned
  <2>4. items = {r \in sentRegister.rows : OpinionEligible(r)}
    BY DEF ItemsOf
  <2>5. \A r \in Linked : r \in items /\ MatterKey(r) \notin ambiguous
                          /\ (PrimaryShown(r) # Nothing \/ PageShown(r) # Nothing)
    BY <2>4 DEF Linked
  <2>6. LinkIsAnswered
    <3> SUFFICES ASSUME InSync, NEW r \in Linked
                 PROVE  LET now == Candidates(catalogue.rows, corpus.docs)
                        IN  IF PrimaryShown(r) # Nothing THEN Answers(r, PrimaryShown(r), now)
                            ELSE /\ Gap(r, PageShown(r)) <= 30
                                 /\ ~\E c \in now : /\ Answers(r, c, now)
                                                    /\ \A q \in sentRegister.rows \ {r} :
                                                         q.sent => ~Answers(q, c, now)
      BY DEF LinkIsAnswered
    <3>1. Candidates(catalogue.rows, corpus.docs) = field
      <4>1. cat = catalogue /\ cor = corpus
        BY <2>1 DEF InSync, Read, Computed
      <4> QED BY <4>1 DEF FieldOf
    <3> HIDE DEF items, field
    <3>2. CASE PrimaryShown(r) # Nothing
      BY <1>1, <2>3, <2>5, <3>1, <3>2
    <3>3. CASE PrimaryShown(r) = Nothing
      <4>1. PageShown(r) # Nothing /\ PageShown(r) = opinionMatch.page[r] /\ r \in items
        BY <1>1, <2>5, <3>3
      <4>2. opinionMatch.primary[r] = Nothing /\ Gap(r, PageShown(r)) <= 30
        BY <2>3, <4>1
      <4>3. ASSUME NEW c, Answers(r, c, field)
            PROVE  \E q \in sentRegister.rows \ {r} : q.sent /\ Answers(q, c, field)
        <5>1. PICK q \in items \ {r} : Answers(q, c, field)
          BY <2>3, <2>5, <4>1, <4>2, <4>3
        <5>2. q \in sentRegister.rows /\ q.sent
          BY <2>4 DEF OpinionEligible
        <5> QED BY <5>1, <5>2
      <4> QED BY <3>1, <3>3, <4>2, <4>3
    <3> QED BY <3>2, <3>3
  <2> HIDE DEF items, field
  <2>7. LetterLeadsOne
    BY <1>1, <2>3, <2>5 DEF LetterLeadsOne
  <2>8. SharedKeyIsDark
    <3>1. ASSUME NEW r \in Linked, NEW q \in sentRegister.rows \ {r}, OpinionEligible(q)
          PROVE  MatterKey(q) # MatterKey(r)
      <4>1. r \in items /\ q \in items \ {r} /\ MatterKey(r) \notin ambiguous
        BY <2>4, <2>5, <3>1
      <4>2. Collisions(items) \subseteq ambiguous
        BY <2>1, <2>2 DEF Computed, items
      <4>3. MatterKey(q) = MatterKey(r) => MatterKey(r) \in Collisions(items)
        BY <4>1 DEF Collisions
      <4> QED BY <4>1, <4>2, <4>3
    <3>2. ASSUME NEW r \in sentRegister.rows, CurrentRelations(r) # {}
          PROVE  MatterKey(r) \notin ambiguous
      <4>1. r \in items
        BY <1>2, <2>3, <3>2
      <4>2. PICK c : c \in ({opinionMatch.primary[r]} \cup opinionMatch.secondary[r]) \ {Nothing}
        BY <3>2 DEF CurrentRelations
      <4> QED BY <2>3, <4>1, <4>2
    <3> QED BY <3>1, <3>2 DEF SharedKeyIsDark
  <2>9. AddressShowsItsMatter
    <3>1. ASSUME NEW c \in Served PROVE \E r \in sentRegister.rows : r.sent /\ ~Contradicted(r, c)
      <4>1. PICK r \in sentRegister.rows : c \in CurrentRelations(r)
        BY <3>1 DEF Served
      <4>2. r \in items /\ r.sent
        BY <1>2, <2>3, <4>1 DEF OpinionEligible
      <4>3. (c = opinionMatch.primary[r] /\ c # Nothing) \/ c \in opinionMatch.secondary[r]
        BY <4>1 DEF CurrentRelations
      <4>4. ~Contradicted(r, c)
        BY <2>3, <4>2, <4>3 DEF Answers
      <4> QED BY <4>2, <4>4
    <3>2. ASSUME NEW key, NEW c \in ResourceShows(key)
          PROVE  \E r \in sentRegister.rows :
                    /\ OpinionEligible(r) /\ MatterKey(r) = key /\ ~Contradicted(r, c)
                    /\ r \in Linked \/ (LeaderReplaced(r) /\ c \in opinionMatch.secondary[r])
      <4> DEFINE own == {r \in sentRegister.rows : OpinionEligible(r) /\ MatterKey(r) = key}
      <4>1. /\ key \notin ambiguous
            /\ \/ \E r \in own : c \in CurrentRelations(r)
               \/ \E r \in own : c = PageShown(r) /\ c # Nothing
        BY <3>2 DEF ResourceShows
      <4>2. ASSUME NEW r \in own, c = PageShown(r), c # Nothing
            PROVE  r \in Linked /\ ~Contradicted(r, c)
        <5>1. r \in Linked
          BY <4>1, <4>2 DEF Linked
        <5> QED BY <1>1, <2>3, <2>5, <4>2, <5>1
      <4>3. ASSUME NEW r \in own, c \in CurrentRelations(r)
            PROVE  /\ ~Contradicted(r, c)
                   /\ r \in Linked \/ (LeaderReplaced(r) /\ c \in opinionMatch.secondary[r])
        <5> DEFINE leader == opinionMatch.primary[r]
        <5>1. /\ r \in items /\ r \in DOMAIN opinionMatch.primary
              /\ c = leader \/ c \in opinionMatch.secondary[r]
              /\ c # Nothing /\ ProvenanceIsCurrent(c)
          BY <1>2, <2>3, <4>3 DEF CurrentRelations
        <5>2. leader # Nothing /\ ~Contradicted(r, c)
          BY <2>3, <5>1 DEF Answers
        <5>3. ProvenanceIsCurrent(leader) => r \in Linked
          BY <1>4, <4>1, <5>1, <5>2 DEF PrimaryShown, Linked
        <5>4. ~ProvenanceIsCurrent(leader) =>
                 LeaderReplaced(r) /\ c \in opinionMatch.secondary[r]
          BY <5>1, <5>2 DEF LeaderReplaced
        <5> QED BY <5>2, <5>3, <5>4
      <4> QED BY <4>1, <4>2, <4>3
    <3> QED BY <3>1, <3>2 DEF AddressShowsItsMatter
  <2> QED BY <2>6, <2>7, <2>8, <2>9
<1> QED BY <1>3, <1>4

\* Whatever register, catalogue and corpus are published between the runs and
\* under them, a sent record is offered the letter that answers it alone, one
\* record per letter, no key two records share, and no page of another matter.
THEOREM OpinionsAlwaysDeserved == OpinionSpec => []OpinionsAreDeserved
<1>1. OpinionInit => OpinionInv
  BY OpinionsStart
<1>2. OpinionInv /\ [OpinionNext]_opinionVars => OpinionInv'
  BY OpinionStep
<1>3. OpinionInv => OpinionsAreDeserved
  BY OneCandidatePerLetter, LinksAreOfTheMatch DEF OpinionsAreDeserved
<1> QED BY <1>1, <1>2, <1>3, PTL DEF OpinionSpec

-----------------------------------------------------------------------------
(* Consultations: scores are numbers. *)

\* Entries whose idf is known.
IsTopicCorpus(C) ==
    /\ IsFiniteSet(C) /\ \A e \in C : IsEntry(e)
    /\ \A n \in 1..Cardinality(C) : \A k \in 1..n : Idf[n][k] \in Nat

IsRules(rules) ==
    /\ {rules.rarity, rules.unique, rules.deadline, rules.organization, rules.damping} \subseteq Nat
    /\ rules.ngram \in Nat \ {0} /\ {rules.auto, rules.plausible} \subseteq Nat
    /\ rules.margin \in Nat \ {0}
    /\ rules.margin <= rules.auto /\ rules.plausible <= rules.auto

LEMMA RulesAreRules == IsRules(CurrentRules) /\ IsRules(ArchiveRules)
BY DEF IsRules, CurrentRules, ArchiveRules

LEMMA TokensOfEntry ==
  ASSUME NEW e, IsEntry(e)
  PROVE  FiniteWords(Tokens(e)) /\ IsFiniteSet(Tokens(e))
<1>1. IsFiniteSet(Tokens(e))
  BY FS_Union DEF Tokens, IsEntry, FiniteWords
<1> QED BY <1>1 DEF Tokens, IsEntry, FiniteWords

LEMMA IdfIsNumber ==
  ASSUME NEW C, IsTopicCorpus(C), NEW w
  PROVE  InverseDocumentFrequency(w, C) \in Nat
<1> DEFINE words == [e \in C |-> Tokens(e)]
           all == {words[e] : e \in DOMAIN words}
           seen == UNION {Tokens(e) : e \in C}
           idf(v) == Idf[Cardinality(C)][Cardinality(Holding(v, C))]
           table == [v \in seen |-> idf(v)]
           values == {table[v] : v \in DOMAIN table}
<1>1. IsFiniteSet(all)
  <2>1. IsFiniteSet(DOMAIN words)
    BY DEF IsTopicCorpus
  <2> HIDE DEF words
  <2> QED BY <2>1, ImageIsFinite
<1>2. IsFiniteSet(seen)
  <2>1. all = {Tokens(e) : e \in C}
    OBVIOUS
  <2>2. \A s \in all : IsFiniteSet(s)
    BY <2>1, TokensOfEntry DEF IsTopicCorpus
  <2> QED BY <1>1, <2>1, <2>2, FS_UNION
<1>3. ASSUME NEW v \in seen PROVE idf(v) \in Nat
  <2> DEFINE n == Cardinality(C)
             k == Cardinality(Holding(v, C))
  <2>1. Holding(v, C) \in SUBSET C /\ IsFiniteSet(C) /\ Holding(v, C) # {}
    BY DEF Holding, IsTopicCorpus
  <2>2. n \in Nat /\ k \in Nat /\ k <= n /\ k # 0
    BY <2>1, FS_Subset, FS_CardinalityType, FS_EmptySet
  <2>3. \A a \in 1..n : \A b \in 1..a : Idf[a][b] \in Nat
    BY DEF IsTopicCorpus
  <2> HIDE DEF n, k
  <2>4. Idf[n][k] \in Nat
    BY <2>2, <2>3
  <2> QED BY <2>4 DEF n, k
<1>4. seen # {} => Max({idf(v) : v \in seen}) \in Nat
  <2>1. IsFiniteSet(values)
    <3>1. IsFiniteSet(DOMAIN table)
      BY <1>2
    <3> HIDE DEF table
    <3> QED BY <3>1, ImageIsFinite
  <2>2. values = {idf(v) : v \in seen}
    OBVIOUS
  <2> HIDE DEF values, table, seen, idf
  <2>3. values \subseteq Nat /\ (seen # {} => values # {})
    BY <1>3, <2>2
  <2>4. values # {} => Max(values) \in values
    <3>1. values \subseteq Int
      BY <2>3
    <3> QED BY <2>1, <3>1, FiniteHasGreatest
  <2>5. seen # {} => Max(values) \in Nat
    BY <2>3, <2>4
  <2> QED BY <2>2, <2>5, Zenon
<1>5. InverseDocumentFrequency(w, C)
        = CASE w \in seen -> idf(w)
            [] w \notin seen /\ seen # {} -> Max({idf(v) : v \in seen})
            [] OTHER -> 100
  BY Zenon DEF InverseDocumentFrequency
<1> HIDE DEF seen, idf
<1> QED BY <1>3, <1>4, <1>5

WeightSum(rules, C, S) == MapThenSumSet(LAMBDA w : WeightOf(rules, w, C), S)

LEMMA WeightsAddUp ==
  ASSUME NEW rules, IsRules(rules), NEW C, IsTopicCorpus(C), NEW S, IsFiniteSet(S)
  PROVE  WeightSum(rules, C, S) \in Nat
<1> DEFINE W == [w \in S |-> WeightOf(rules, w, C)]
           R(g, s) == IF s = {} THEN 0 ELSE WeightOf(rules, Pick(s), C) + g[s \ {Pick(s)}]
<1>1. WeightSum(rules, C, S) = (CHOOSE g : g = [s \in SUBSET S |-> R(g, s)])[S]
  BY Zenon DEF WeightSum, MapThenSumSet, MapThenFoldSet, Pick
<1>2. \A g : [s \in SUBSET S |-> R(g, s)] = [s \in SUBSET S |-> Row(W, g, s)]
  <2>1. \A s \in SUBSET S : s # {} => Pick(s) \in S
    BY DEF Pick
  <2>2. ASSUME NEW g, NEW s \in SUBSET S PROVE R(g, s) = Row(W, g, s)
    BY <2>1 DEF Row
  <2> HIDE DEF W, R
  <2> QED BY <2>2
<1>3. \A w \in S : W[w] \in Nat
  <2>1. \A a, b \in Nat : a * b \in Nat
    OBVIOUS
  <2>2. ASSUME NEW w PROVE WeightOf(rules, w, C) \in Nat
    <3>1. InverseDocumentFrequency(w, C) \in Nat
      BY IdfIsNumber
    <3>2. (IF w \in Generic THEN rules.damping ELSE 100) \in Nat
      BY DEF IsRules
    <3> QED BY <2>1, <3>1, <3>2, Zenon DEF WeightOf
  <2> QED BY <2>2
<1> HIDE DEF W, R
<1>4. (CHOOSE g : g = [s \in SUBSET S |-> R(g, s)]) = (CHOOSE g : g = [s \in SUBSET S |-> Row(W, g, s)])
  BY <1>2
<1>5. WeightSum(rules, C, S) = Total(W, S)
  BY <1>1, <1>4, TotalIsOfTable DEF SumTable
<1> QED BY <1>3, <1>5, TotalIsNat

LEMMA SignalsAreNumbers ==
  ASSUME NEW rules, IsRules(rules), NEW r, IsTopicRecord(r),
         NEW C, IsTopicCorpus(C), NEW e \in C
  PROVE  /\ NgramSignal(r, e) \in Int /\ RarityCoverage(rules, r, e, C) \in Int
         /\ UniqueTokenSignal(r, e, C) \in Int
         /\ DeadlineSignal(r, e) \in Int /\ OrganizationSignal(r, e) \in Int
<1>1. /\ FiniteWords(r.topic) /\ IsFiniteSet(r.topic) /\ FiniteWords(e.head)
      /\ FiniteWords(Tokens(e)) /\ IsFiniteSet(Tokens(e))
  BY TokensOfEntry DEF IsTopicCorpus, IsTopicRecord, IsEntry, FiniteWords
<1>2. FiniteWords(Significant(r.topic))
  BY <1>1, WordsAreFinite DEF FiniteWords, Significant
<1>3. NgramSignal(r, e) \in Int
  <2> DEFINE one == Dice(Ngrams(r.topic), Ngrams(e.head))
             two == Contained(Ngrams(Significant(r.topic)), Ngrams(Tokens(e)))
  <2>1. one \in Int
    BY <1>1, WordsAreFinite, DiceIsNumber
  <2>2. two \in Int
    BY <1>2, WordsAreFinite, OverlapIsFinite, RatioIsNumber DEF Contained
  <2>3. NgramSignal(r, e) = Larger(one, two)
    BY DEF NgramSignal
  <2> HIDE DEF one, two
  <2> QED BY <2>1, <2>2, <2>3 DEF Larger
<1>4. RarityCoverage(rules, r, e, C) \in Int
  <2>1. IsFiniteSet(r.topic \cap Tokens(e))
    BY <1>1, OverlapIsFinite
  <2>2. WeightSum(rules, C, r.topic \cap Tokens(e)) \in Nat /\ WeightSum(rules, C, r.topic) \in Nat
    BY <1>1, <2>1, WeightsAddUp
  <2>3. RarityCoverage(rules, r, e, C)
          = Ratio(WeightSum(rules, C, r.topic \cap Tokens(e)), WeightSum(rules, C, r.topic))
    BY Zenon DEF RarityCoverage, WeightSum
  <2> QED BY <2>2, <2>3, RatioIsNumber
<1>5. UniqueTokenSignal(r, e, C) \in Int
  <2> DEFINE alone == {w \in SharedWords(r, e) : Cardinality(Holding(w, C)) = 1}
             hits == Cardinality(alone)
  <2>1. alone \in SUBSET Significant(r.topic) /\ IsFiniteSet(Significant(r.topic))
    BY <1>1, WordsAreFinite DEF SharedWords
  <2>2. hits \in Nat
    <3> HIDE DEF alone
    <3> QED BY <2>1, FS_Subset, FS_CardinalityType
  <2>3. UniqueTokenSignal(r, e, C) = Ratio(IF hits < 3 THEN hits ELSE 3, 3)
    BY Zenon DEF UniqueTokenSignal
  <2> HIDE DEF hits
  <2>4. (IF hits < 3 THEN hits ELSE 3) \in Nat /\ 3 \in Nat
    BY <2>2
  <2> QED BY <2>3, <2>4, RatioIsNumber
<1>6. DeadlineSignal(r, e) \in Int
  BY DEF DeadlineSignal, Whole
<1>7. OrganizationSignal(r, e) \in Int
  BY DEF OrganizationSignal, Whole
<1> QED BY <1>3, <1>4, <1>5, <1>6, <1>7

LEMMA PairScoreIsNumber ==
  ASSUME NEW rules, IsRules(rules), NEW r, IsTopicRecord(r),
         NEW C, IsTopicCorpus(C), NEW e \in C
  PROVE  PairScore(rules, r, e, C) \in Int
<1> DEFINE deadline == IF DeadlineApplies(r, e) THEN rules.deadline ELSE 0
           organization == IF OrganizationApplies(r, e) THEN rules.organization ELSE 0
           weighted == rules.ngram * NgramSignal(r, e)
                         + rules.rarity * RarityCoverage(rules, r, e, C)
                         + rules.unique * UniqueTokenSignal(r, e, C)
                         + deadline * DeadlineSignal(r, e)
                         + organization * OrganizationSignal(r, e)
           weight == rules.ngram + rules.rarity + rules.unique + deadline + organization
<1>1. \A x \in Int, y \in Nat : y > 0 => (2 * x + y) \div (2 * y) \in Int
  <2>1. \A x \in Int, y \in Nat : y > 0 => x \div y \in Int
    OBVIOUS
  <2> QED BY <2>1
<1>2. PairScore(rules, r, e, C) = (2 * weighted + weight) \div (2 * weight)
  BY Zenon DEF PairScore, HalfUp
<1>3. deadline \in Nat /\ organization \in Nat
  BY DEF IsRules
<1> HIDE DEF deadline, organization
<1>4. weight \in Nat /\ weight > 0
  <2>1. rules.ngram \in Nat /\ rules.ngram > 0 /\ rules.rarity \in Nat /\ rules.unique \in Nat
    BY DEF IsRules
  <2> QED BY <1>3, <2>1
<1>5. \A x, y \in Int : x * y \in Int
  OBVIOUS
<1>6. weighted \in Int
  <2>1. /\ rules.ngram * NgramSignal(r, e) \in Int
        /\ rules.rarity * RarityCoverage(rules, r, e, C) \in Int
        /\ rules.unique * UniqueTokenSignal(r, e, C) \in Int
        /\ deadline * DeadlineSignal(r, e) \in Int
        /\ organization * OrganizationSignal(r, e) \in Int
    <3>1. /\ rules.ngram \in Int /\ rules.rarity \in Int /\ rules.unique \in Int
          /\ deadline \in Int /\ organization \in Int
      BY <1>3 DEF IsRules
    <3> QED BY <1>5, <3>1, SignalsAreNumbers
  <2> QED BY <2>1
<1> HIDE DEF weighted, weight
<1> QED BY <1>1, <1>2, <1>4, <1>6

-----------------------------------------------------------------------------
(* Consultations: the decision and the reference agree. *)

LEMMA FirstIsFirst ==
  ASSUME NEW rules, IsRules(rules), NEW r, IsTopicRecord(r),
         NEW C, IsTopicCorpus(C), NEW S \in SUBSET C, S # {}
  PROVE  /\ First(rules, r, C, S) \in S
         /\ \A f \in S : PairScore(rules, r, First(rules, r, C, S), C) >= PairScore(rules, r, f, C)
<1> DEFINE score == [e \in S |-> PairScore(rules, r, e, C)]
           key == [e \in S |-> e.key]
<1>1. score \in [S -> Int] /\ key \in [S -> Int]
  <2>1. \A e \in S : e.key \in Int
    BY DEF IsTopicCorpus, IsEntry
  <2> QED BY <2>1, PairScoreIsNumber
<1>2. IsFiniteSet(S)
  BY FS_Subset DEF IsTopicCorpus
<1>3. \A e \in S : score[e] = PairScore(rules, r, e, C) /\ key[e] = e.key
  OBVIOUS
<1> HIDE DEF score, key
<1>4. PICK e \in S : \A f \in S : score[e] > score[f] \/ (score[e] = score[f] /\ key[e] <= key[f])
  BY <1>1, <1>2, FirstOfFinite
<1>5. \A f \in S : Precedes(rules, r, C, e, f)
  BY <1>3, <1>4 DEF Precedes, Ahead
<1> DEFINE first == First(rules, r, C, S)
<1>6. first \in S /\ \A f \in S : Precedes(rules, r, C, first, f)
  BY <1>5 DEF First
<1> HIDE DEF first
<1>7. \A f \in S : PairScore(rules, r, first, C) >= PairScore(rules, r, f, C)
  BY <1>1, <1>3, <1>6 DEF Precedes, Ahead
<1> QED BY <1>6, <1>7 DEF first

\* A record gets the address of an entry exactly when that entry answers it.
LEMMA DecisionIsTheAnswer ==
  ASSUME NEW rules, IsRules(rules), NEW r, IsTopicRecord(r), NEW C, IsTopicCorpus(C)
  PROVE  LET url == DecideRecord(rules, r, C)
         IN  /\ url # NotMatched => EntryAnswers(rules, r, C, url)
             /\ \A u : EntryAnswers(rules, r, C, u) => url = u /\ u # NotMatched
<1> DEFINE score(e) == PairScore(rules, r, e, C)
           S == {e \in C : score(e) >= rules.plausible /\ ~IsBlocked(rules, r, e)}
           best == First(rules, r, C, S)
           runner == ScoreOfFirst(rules, r, C, S \ {best})
           url == DecideRecord(rules, r, C)
<1>1. /\ S = {} => url = NotMatched
      /\ S # {} => url = Decision(rules, best, score(best), runner)
  BY DEF DecideRecord, DecideAmong, DecideFor
<1>2. S # {} => best \in S /\ \A f \in S : score(best) >= score(f)
  BY FirstIsFirst
<1>3. \A e \in C : score(e) \in Int
  BY PairScoreIsNumber
<1>4. ASSUME S # {}
      PROVE  /\ runner \in Int
             /\ \A f \in S \ {best} : runner >= score(f)
             /\ runner = 0 \/ \E f \in S \ {best} : runner = score(f)
  <2> DEFINE next == First(rules, r, C, S \ {best})
  <2>1. CASE S \ {best} = {}
    BY <2>1 DEF ScoreOfFirst
  <2>2. CASE S \ {best} # {}
    <3>1. next \in S \ {best} /\ \A f \in S \ {best} : score(next) >= score(f)
      <4>1. S \ {best} \in SUBSET C
        OBVIOUS
      <4> HIDE DEF S, best
      <4> QED BY <2>2, <4>1, FirstIsFirst
    <3>2. runner = score(next)
      BY <2>2 DEF ScoreOfFirst
    <3> HIDE DEF next, runner, best
    <3> QED BY <1>3, <3>1, <3>2
  <2> QED BY <2>1, <2>2
<1>5. /\ rules.auto \in Nat /\ rules.plausible \in Nat /\ rules.margin \in Nat /\ rules.margin > 0
      /\ rules.margin <= rules.auto /\ rules.plausible <= rules.auto
  BY DEF IsRules
<1> HIDE DEF best, runner, url
<1>6. ASSUME url # NotMatched
      PROVE  EntryAnswers(rules, r, C, url)
  <2>1. S # {} /\ best \in S /\ url = best.url
        /\ score(best) >= rules.auto /\ score(best) - runner >= rules.margin
    BY <1>1, <1>2, <1>6 DEF Decision
  <2>2. \A f \in S \ {best} : score(best) - score(f) >= rules.margin
    BY <1>3, <1>4, <1>5, <2>1
  <2>3. ASSUME NEW f \in C \ {best}
        PROVE  \/ IsBlocked(rules, r, f) \/ score(f) < rules.plausible
               \/ score(best) - score(f) >= rules.margin
    BY <1>3, <1>5, <2>2
  <2> QED BY <2>1, <2>3 DEF EntryAnswers
<1>7. ASSUME NEW u, EntryAnswers(rules, r, C, u)
      PROVE  url = u /\ u # NotMatched
  <2>1. PICK e \in C :
          /\ e.url = u /\ ~IsBlocked(rules, r, e) /\ score(e) >= rules.auto
          /\ \A f \in C \ {e} : \/ IsBlocked(rules, r, f) \/ score(f) < rules.plausible
                                \/ score(e) - score(f) >= rules.margin
    BY <1>7 DEF EntryAnswers
  <2>2. e \in S
    BY <1>3, <1>5, <2>1
  <2>3. \A f \in S \ {e} : score(e) - score(f) >= rules.margin
    <3>1. ASSUME NEW f \in S \ {e} PROVE score(e) - score(f) >= rules.margin
      <4>1. f \in C \ {e} /\ ~IsBlocked(rules, r, f) /\ ~(score(f) < rules.plausible)
        BY <1>3, <1>5
      <4> QED BY <2>1, <4>1
    <3> QED BY <3>1
  <2>4. best = e
    BY <1>2, <1>3, <1>5, <2>2, <2>3
  <2>5. score(e) - runner >= rules.margin
    BY <1>3, <1>4, <1>5, <2>1, <2>2, <2>3, <2>4
  <2>6. url = u
    BY <1>1, <2>1, <2>2, <2>4, <2>5 DEF Decision
  <2>7. u # NotMatched
    BY <2>1 DEF IsTopicCorpus, IsEntry
  <2> QED BY <2>6, <2>7
<1> QED BY <1>6, <1>7 DEF url

-----------------------------------------------------------------------------
(* Consultations: what the matches were decided from. *)

IsSnapshot(s, states) ==
    s.no \in Nat /\ (s.rows \in states \/ s.rows = {})

\* s was the current snapshot, which is now.
WasCurrent(s, now) == s.no <= now.no /\ (s.no = now.no => s = now)

\* A current match, committed or not, decides the records of its register.
DecidesCurrent(m) ==
    /\ m.legal <= register.no /\ IsSnapshot(m.topics, Listings) /\ WasCurrent(m.topics, listing)
    /\ m.legal \in Nat /\ m.no \in Nat
    /\ m.legal = register.no => m.decisions = MatchAll(register.rows, m.topics.rows)

\* The records a current match leaves for the archive.
LeftBy(m) ==
    {r \in register.rows : ConsultationEligible(r)}
        \ {r \in DOMAIN m.decisions : m.decisions[r] # NotMatched}

\* An archive match decides what the match of its number left.
DecidesArchive(m) ==
    /\ m.legal \in Nat /\ m.legal <= register.no
    /\ IsSnapshot(m.archive, Archives) /\ WasCurrent(m.archive, archive)
    /\ m.match \in Nat /\ m.match <= currentMatch.no
    /\ m.legal = register.no /\ m.match = currentMatch.no =>
          m.decisions = MatchArchive(LeftBy(currentMatch),
                                     Usable(m.archive.rows, currentMatch.topics.rows))

TopicInv ==
    /\ IsSnapshot(register, LegalRegisters) /\ IsSnapshot(listing, Listings)
    /\ IsSnapshot(archive, Archives)
    /\ currentMatch.no # 0 => DecidesCurrent(currentMatch)
    /\ currentMatch.no \in Nat /\ (currentMatch.no = 0 => currentMatch = NoCurrentMatch)
    /\ \A m \in running.current : DecidesCurrent(m) /\ m.no = currentMatch.no + 1
    /\ archiveMatch = NoArchiveMatch \/ (archiveMatch.legal # 0 /\ DecidesArchive(archiveMatch))
    /\ \A m \in running.archive : m.legal # 0 /\ DecidesArchive(m)
    /\ running = [current |-> running.current, archive |-> running.archive]
    /\ page.shows.no \in Nat /\ WasCurrent(page.shows, register)
    /\ page = [pc |-> page.pc, shows |-> page.shows, links |-> page.links]

LEMMA TopicsStart == TopicInit => TopicInv
<1> SUFFICES ASSUME TopicInit PROVE TopicInv
  OBVIOUS
<1> USE DEF TopicInit, NoSnapshot, NoCurrentMatch, NoArchiveMatch, BlankPage
<1>1. /\ IsSnapshot(register, LegalRegisters) /\ IsSnapshot(listing, Listings)
      /\ IsSnapshot(archive, Archives)
  BY DEF IsSnapshot
<1>2. page.shows.no \in Nat /\ WasCurrent(page.shows, register)
  BY DEF WasCurrent
<1>3. running = [current |-> running.current, archive |-> running.archive]
      /\ page = [pc |-> page.pc, shows |-> page.shows, links |-> page.links]
  OBVIOUS
<1> QED BY <1>1, <1>2, <1>3 DEF TopicInv

\* What was current stays so, or is older than what is.
LEMMA StaysCurrent ==
  ASSUME NEW s, NEW now, NEW later, s.no \in Nat, now.no \in Nat, WasCurrent(s, now),
         later = now \/ later.no = now.no + 1
  PROVE  WasCurrent(s, later)
<1>1. \A a, b \in Nat : a <= b => a <= b + 1 /\ a # b + 1
  OBVIOUS
<1> QED BY <1>1 DEF WasCurrent

LEMMA TopicPublicationKeepsInv ==
  ASSUME TopicInv, PublishLegalRegister \/ PublishListing \/ PublishArchive
  PROVE  TopicInv'
<1>1. /\ UNCHANGED register \/ (register'.no = register.no + 1 /\ register'.rows \in LegalRegisters)
      /\ UNCHANGED listing \/ (listing'.no = listing.no + 1 /\ listing'.rows \in Listings)
      /\ UNCHANGED archive \/ (archive'.no = archive.no + 1 /\ archive'.rows \in Archives)
      /\ UNCHANGED <<currentMatch, archiveMatch, running, page>>
  BY DEF PublishLegalRegister, PublishListing, PublishArchive, Succeeding
<1>2. register.no \in Nat /\ listing.no \in Nat /\ archive.no \in Nat
  BY DEF TopicInv, IsSnapshot
<1>3. \A a, b \in Nat : a <= b => a <= b + 1 /\ a # b + 1
  OBVIOUS
<1>4. /\ IsSnapshot(register', LegalRegisters) /\ IsSnapshot(listing', Listings)
      /\ IsSnapshot(archive', Archives)
  BY <1>1, <1>2 DEF TopicInv, IsSnapshot
<1>5. ASSUME NEW m, DecidesCurrent(m) PROVE DecidesCurrent(m)'
  <2>1. WasCurrent(m.topics, listing')
    BY <1>1, <1>2, <1>5, StaysCurrent DEF DecidesCurrent, IsSnapshot
  <2>2. m.legal <= register'.no
    BY <1>1, <1>2, <1>3, <1>5 DEF DecidesCurrent
  <2>3. m.legal = register'.no => m.legal = register.no /\ UNCHANGED register
    BY <1>1, <1>2, <1>3, <1>5 DEF DecidesCurrent
  <2> QED BY <1>5, <2>1, <2>2, <2>3 DEF DecidesCurrent
<1>6. ASSUME NEW m, DecidesArchive(m) PROVE DecidesArchive(m)'
  <2>1. WasCurrent(m.archive, archive')
    BY <1>1, <1>2, <1>6, StaysCurrent DEF DecidesArchive, IsSnapshot
  <2>2. m.legal <= register'.no
    BY <1>1, <1>2, <1>3, <1>6 DEF DecidesArchive
  <2>3. m.legal = register'.no => m.legal = register.no /\ UNCHANGED register
    BY <1>1, <1>2, <1>3, <1>6 DEF DecidesArchive
  <2> QED BY <1>1, <1>6, <2>1, <2>2, <2>3 DEF DecidesArchive, LeftBy
<1>7. page'.shows.no \in Nat /\ WasCurrent(page'.shows, register')
  BY <1>1, <1>2, StaysCurrent DEF TopicInv
<1> QED BY <1>1, <1>4, <1>5, <1>6, <1>7 DEF TopicInv

\* What the other steps leave alone.
LEMMA InputsStand ==
  ASSUME UNCHANGED <<register, listing, archive>>
  PROVE  /\ \A m : DecidesCurrent(m) => DecidesCurrent(m)'
         /\ currentMatch' = currentMatch => \A m : DecidesArchive(m) => DecidesArchive(m)'
BY DEF DecidesCurrent, DecidesArchive, LeftBy

LEMMA TopicStep == TopicInv /\ [TopicNext]_topicVars => TopicInv'
<1> SUFFICES ASSUME TopicInv, [TopicNext]_topicVars PROVE TopicInv'
  OBVIOUS
<1>1. CASE PublishLegalRegister \/ PublishListing \/ PublishArchive
  BY <1>1, TopicPublicationKeepsInv
<1>2. CASE RunCurrentMatching
  <2>1. PICK m :
        /\ m = [no |-> currentMatch.no + 1, legal |-> register.no, topics |-> listing,
                decisions |-> MatchAll(register.rows, listing.rows)]
        /\ UNCHANGED <<register, listing, archive, currentMatch, archiveMatch, page>>
        /\ running' = [running EXCEPT !.current = {m}]
    BY <1>2, Zenon DEF RunCurrentMatching
  <2>2. running' = [current |-> {m}, archive |-> running.archive]
    BY <2>1 DEF TopicInv
  <2>3. DecidesCurrent(m)' /\ m.no = currentMatch.no + 1
    BY <2>1 DEF DecidesCurrent, TopicInv, IsSnapshot, WasCurrent
  <2>4. /\ \A n \in running'.current : DecidesCurrent(n)' /\ n.no = currentMatch'.no + 1
        /\ \A n \in running'.archive : n.legal # 0 /\ DecidesArchive(n)'
        /\ running' = [current |-> running'.current, archive |-> running'.archive]
    <3>1. running'.current = {m} /\ running'.archive = running.archive
      BY <2>2
    <3>2. \A n \in running'.current : DecidesCurrent(n)' /\ n.no = currentMatch'.no + 1
      BY <2>1, <2>3, <3>1
    <3>3. \A n \in running'.archive : n.legal # 0 /\ DecidesArchive(n)'
      BY <2>1, <3>1, InputsStand DEF TopicInv
    <3> QED BY <2>2, <3>1, <3>2, <3>3
  <2>5. /\ currentMatch'.no # 0 => DecidesCurrent(currentMatch)'
        /\ archiveMatch' = NoArchiveMatch \/ (archiveMatch'.legal # 0 /\ DecidesArchive(archiveMatch)')
    BY <2>1, InputsStand DEF TopicInv
  <2> QED BY <2>1, <2>4, <2>5 DEF TopicInv
<1>3. CASE CommitCurrentMatching
  <2> DEFINE m == CHOOSE x \in running.current : TRUE
  <2>1. /\ UNCHANGED <<register, listing, archive, archiveMatch, page>>
        /\ currentMatch' = m /\ running.current # {}
        /\ running' = [running EXCEPT !.current = {}]
    BY <1>3 DEF CommitCurrentMatching
  <2>2. m \in running.current
    BY <2>1
  <2> HIDE DEF m
  <2>3. running' = [current |-> {}, archive |-> running.archive]
    BY <2>1 DEF TopicInv
  <2>4. DecidesCurrent(m) /\ m.no = currentMatch.no + 1 /\ currentMatch.no \in Nat
    BY <2>2 DEF TopicInv
  <2>5. DecidesCurrent(currentMatch)' /\ currentMatch'.no \in Nat /\ currentMatch'.no # 0
    BY <2>1, <2>4, InputsStand
  <2>6. ASSUME NEW n, DecidesArchive(n) PROVE DecidesArchive(n)'
    <3>1. n.match \in Nat /\ n.match <= currentMatch'.no /\ n.match # currentMatch'.no
      BY <2>1, <2>4, <2>6 DEF DecidesArchive
    <3> QED BY <2>1, <2>6, <3>1 DEF DecidesArchive
  <2> QED BY <2>1, <2>3, <2>5, <2>6 DEF TopicInv
<1>4. CASE RunArchiveMatching
  <2>1. PICK m :
        /\ m = [legal |-> register.no, archive |-> archive, match |-> currentMatch.no,
                decisions |-> MatchArchive(LeftBy(currentMatch),
                                           Usable(archive.rows, currentMatch.topics.rows))]
        /\ UNCHANGED <<register, listing, archive, currentMatch, archiveMatch, page>>
        /\ running' = [running EXCEPT !.archive = {m}] /\ register.no # 0
    BY <1>4, Zenon DEF RunArchiveMatching, LeftBy
  <2>2. running' = [current |-> running.current, archive |-> {m}]
    BY <2>1 DEF TopicInv
  <2>3. DecidesArchive(m)' /\ m.legal # 0
    <3>1. LeftBy(currentMatch)' = LeftBy(currentMatch)
      BY <2>1 DEF LeftBy
    <3>2. m.decisions = MatchArchive(LeftBy(currentMatch)',
                                     Usable(m.archive.rows, currentMatch'.topics.rows))
      BY <2>1, <3>1
    <3>3. /\ m.legal = register.no /\ m.archive = archive /\ m.match = currentMatch.no
          /\ register.no \in Nat /\ currentMatch.no \in Nat
          /\ IsSnapshot(archive, Archives) /\ WasCurrent(archive, archive)
      BY <2>1 DEF TopicInv, IsSnapshot, WasCurrent
    <3> QED BY <2>1, <3>2, <3>3 DEF DecidesArchive
  <2>4. /\ \A n \in running'.current : DecidesCurrent(n)' /\ n.no = currentMatch'.no + 1
        /\ \A n \in running'.archive : n.legal # 0 /\ DecidesArchive(n)'
        /\ running' = [current |-> running'.current, archive |-> running'.archive]
    <3>1. running'.current = running.current /\ running'.archive = {m}
      BY <2>2
    <3>2. \A n \in running'.current : DecidesCurrent(n)' /\ n.no = currentMatch'.no + 1
      BY <2>1, <3>1, InputsStand DEF TopicInv
    <3>3. \A n \in running'.archive : n.legal # 0 /\ DecidesArchive(n)'
      BY <2>1, <2>3, <3>1
    <3> QED BY <2>2, <3>1, <3>2, <3>3
  <2>5. /\ currentMatch'.no # 0 => DecidesCurrent(currentMatch)'
        /\ archiveMatch' = NoArchiveMatch \/ (archiveMatch'.legal # 0 /\ DecidesArchive(archiveMatch)')
    BY <2>1, InputsStand DEF TopicInv
  <2> QED BY <2>1, <2>4, <2>5 DEF TopicInv
<1>5. CASE CommitArchiveMatching
  <2> DEFINE m == CHOOSE x \in running.archive : TRUE
  <2>1. /\ UNCHANGED <<register, listing, archive, currentMatch, page>>
        /\ archiveMatch' = m /\ running.archive # {}
        /\ running' = [running EXCEPT !.archive = {}]
    BY <1>5 DEF CommitArchiveMatching
  <2>2. m \in running.archive
    BY <2>1
  <2> HIDE DEF m
  <2>3. running' = [current |-> running.current, archive |-> {}]
    BY <2>1 DEF TopicInv
  <2>4. archiveMatch'.legal # 0 /\ DecidesArchive(archiveMatch)'
    BY <2>1, <2>2, InputsStand DEF TopicInv
  <2>5. /\ currentMatch'.no # 0 => DecidesCurrent(currentMatch)'
        /\ \A n \in running'.current : DecidesCurrent(n)' /\ n.no = currentMatch'.no + 1
    BY <2>1, <2>3, InputsStand DEF TopicInv
  <2> QED BY <2>1, <2>3, <2>4, <2>5 DEF TopicInv
<1>6. CASE RunDies
  <2>1. UNCHANGED <<register, listing, archive, currentMatch, archiveMatch, page>>
    BY <1>6 DEF RunDies
  <2>2. \/ running' = [current |-> {}, archive |-> running.archive]
        \/ running' = [current |-> running.current, archive |-> {}]
    BY <1>6 DEF RunDies, TopicInv
  <2>3. running'.current \subseteq running.current /\ running'.archive \subseteq running.archive
        /\ running' = [current |-> running'.current, archive |-> running'.archive]
    BY <2>2
  <2>4. /\ \A n \in running'.current : DecidesCurrent(n)' /\ n.no = currentMatch'.no + 1
        /\ \A n \in running'.archive : n.legal # 0 /\ DecidesArchive(n)'
    BY <2>1, <2>3, InputsStand DEF TopicInv
  <2>5. /\ currentMatch'.no # 0 => DecidesCurrent(currentMatch)'
        /\ archiveMatch' = NoArchiveMatch \/ (archiveMatch'.legal # 0 /\ DecidesArchive(archiveMatch)')
    BY <2>1, InputsStand DEF TopicInv
  <2> QED BY <2>1, <2>3, <2>4, <2>5 DEF TopicInv
<1>7. CASE OpenPage \/ ResolveTopicLinks \/ ResolveArchiveLinks \/ UNCHANGED topicVars
  <2>1. UNCHANGED <<register, listing, archive, currentMatch, archiveMatch, running>>
    BY <1>7 DEF OpenPage, ResolveTopicLinks, ResolveArchiveLinks, topicVars
  <2>2. /\ page' = [pc |-> page'.pc, shows |-> page'.shows, links |-> page'.links]
        /\ page'.shows = page.shows \/ page'.shows = register
    <3>1. CASE OpenPage
      BY <3>1 DEF OpenPage
    <3>2. CASE ResolveTopicLinks \/ ResolveArchiveLinks
      <4>1. \E pc, links : page' = [page EXCEPT !.pc = pc, !.links = links]
        BY <3>2 DEF ResolveTopicLinks, ResolveArchiveLinks
      <4>2. PICK pc, links : page' = [pc |-> pc, shows |-> page.shows, links |-> links]
        BY <4>1 DEF TopicInv
      <4> QED BY <4>2
    <3>3. CASE UNCHANGED topicVars
      BY <3>3 DEF TopicInv, topicVars
    <3> QED BY <1>7, <3>1, <3>2, <3>3
  <2>3. page'.shows.no \in Nat /\ WasCurrent(page'.shows, register')
    BY <2>1, <2>2 DEF TopicInv, IsSnapshot, WasCurrent
  <2>4. /\ \A n \in running'.current : DecidesCurrent(n)' /\ n.no = currentMatch'.no + 1
        /\ \A n \in running'.archive : n.legal # 0 /\ DecidesArchive(n)'
        /\ currentMatch'.no # 0 => DecidesCurrent(currentMatch)'
        /\ archiveMatch' = NoArchiveMatch \/ (archiveMatch'.legal # 0 /\ DecidesArchive(archiveMatch)')
    BY <2>1, InputsStand DEF TopicInv
  <2> QED BY <2>1, <2>2, <2>3, <2>4 DEF TopicInv
<1> QED BY <1>1, <1>2, <1>3, <1>4, <1>5, <1>6, <1>7 DEF TopicNext

-----------------------------------------------------------------------------
(* Consultations: what a page offers. *)

LEMMA RegisterOfRecords ==
  ASSUME TopicInv
  PROVE  \A r \in register.rows : IsTopicRecord(r)
BY LinkAssumption DEF TopicInv, IsSnapshot

LEMMA SnapshotIsCorpus ==
  ASSUME NEW s, IsSnapshot(s, Listings) \/ IsSnapshot(s, Archives)
  PROVE  IsTopicCorpus(s.rows)
<1>1. CASE s.rows = {}
  <2>1. IsFiniteSet({}) /\ Cardinality({}) = 0
    BY FS_EmptySet
  <2> QED BY <1>1, <2>1 DEF IsTopicCorpus
<1>2. CASE s.rows \in Listings \cup Archives
  BY <1>2, LinkAssumption DEF IsTopicCorpus
<1> QED BY <1>1, <1>2 DEF IsSnapshot

LEMMA UsableIsCorpus ==
  ASSUME NEW C, IsTopicCorpus(C), NEW D
  PROVE  IsTopicCorpus(Usable(C, D))
<1>1. Usable(C, D) \in SUBSET C
  BY DEF Usable
<1>2. /\ IsFiniteSet(Usable(C, D)) /\ Cardinality(Usable(C, D)) <= Cardinality(C)
      /\ Cardinality(Usable(C, D)) \in Nat /\ Cardinality(C) \in Nat
  BY <1>1, FS_Subset, FS_CardinalityType DEF IsTopicCorpus
<1>3. \A n \in 1..Cardinality(Usable(C, D)) : n \in 1..Cardinality(C)
  BY <1>2
<1> QED BY <1>1, <1>2, <1>3 DEF IsTopicCorpus

\* A link that appears is what the query offers.
LEMMA AnsweredIsOffered ==
  ASSUME NEW offers, NEW r \in page.shows.rows, page'.links = Answered(offers)
  PROVE  /\ Offered(r) => r \in DOMAIN offers /\ page'.links[r] = offers[r]
         /\ page.links[r] # NoUrl => page'.links[r] # NoUrl
         /\ r \in DOMAIN offers /\ offers[r] \in Publishable => page'.links[r] # NoUrl
<1>1. page'.links[r] = IF r \in Unanswered /\ r \in DOMAIN offers /\ offers[r] \in Publishable
                       THEN offers[r] ELSE page.links[r]
  BY DEF Answered
<1>2. r \in Unanswered <=> page.links[r] = NoUrl
  BY DEF Unanswered
<1>3. NoUrl \notin Publishable
  BY LinkAssumption
<1> QED BY <1>1, <1>2, <1>3 DEF Offered

\* What the current match says of the records of the page, once it is of the
\* register and the listing there are.
LEMMA MatchDecides ==
  ASSUME TopicInv, currentMatch.no # 0, currentMatch.legal = register.no,
         NEW r \in register.rows, ConsultationEligible(r)
  PROVE  LET rows == currentMatch.topics.rows
         IN  /\ r \in DOMAIN currentMatch.decisions /\ IsTopicCorpus(rows) /\ IsTopicRecord(r)
             /\ currentMatch.decisions[r] = DecideRecord(CurrentRules, r, rows)
<1>1. DecidesCurrent(currentMatch)
  BY DEF TopicInv
<1>2. currentMatch.decisions = MatchAll(register.rows, currentMatch.topics.rows)
  BY <1>1 DEF DecidesCurrent
<1>3. IsTopicCorpus(currentMatch.topics.rows)
  BY <1>1, SnapshotIsCorpus DEF DecidesCurrent
<1>4. IsTopicRecord(r)
  BY RegisterOfRecords
<1> QED BY <1>2, <1>3, <1>4 DEF MatchAll

LEMMA TopicLinksAreDeserved == TopicInv /\ ResolveTopicLinks => LinkStep
<1> SUFFICES ASSUME TopicInv, ResolveTopicLinks, NEW r \in page.shows.rows
             PROVE  /\ /\ page.pc = "current" /\ page.shows.no = register.no /\ r.open /\ ~r.sent
                       /\ currentMatch.legal = register.no /\ currentMatch.topics = listing
                       /\ \E e \in listing.rows : /\ e.url \in Publishable
                                                  /\ EntryAnswers(CurrentRules, r, listing.rows, e.url)
                       => page'.links[r] # NoUrl
                    /\ Offered(r) =>
                         /\ r \in register.rows /\ page.shows.no = register.no
                         /\ r.open /\ ~r.sent
                         /\ EntryAnswers(CurrentRules, r, listing.rows, page'.links[r])
  BY DEF LinkStep, ResolveTopicLinks
<1>1. page'.links = Answered(TopicOffers)
  BY DEF ResolveTopicLinks, TopicInv
<1>2. page.shows.no = register.no => page.shows = register
  BY DEF TopicInv, WasCurrent
<1>3. ASSUME page.shows.no = register.no, r.open, ~r.sent,
             currentMatch.legal = register.no, currentMatch.topics = listing,
             NEW e \in listing.rows, e.url \in Publishable,
             EntryAnswers(CurrentRules, r, listing.rows, e.url)
      PROVE  page'.links[r] # NoUrl
  <2>1. currentMatch.no # 0
    <3>1. NoCurrentMatch.topics.rows = {}
      BY DEF NoCurrentMatch, NoSnapshot
    <3> QED BY <1>3, <3>1 DEF TopicInv
  <2>2. r \in register.rows /\ ConsultationEligible(r)
    BY <1>2, <1>3 DEF ConsultationEligible
  <2>3. /\ r \in DOMAIN currentMatch.decisions /\ IsTopicCorpus(listing.rows) /\ IsTopicRecord(r)
        /\ currentMatch.decisions[r] = DecideRecord(CurrentRules, r, listing.rows)
    BY <1>3, <2>1, <2>2, MatchDecides
  <2>4. currentMatch.decisions[r] = e.url
    BY <1>3, <2>3, RulesAreRules, DecisionIsTheAnswer
  <2>5. r \in DOMAIN TopicOffers /\ TopicOffers[r] = e.url
    BY <1>3, <2>1, <2>2, <2>3, <2>4 DEF TopicOffers
  <2> QED BY <1>1, <1>3, <2>5, AnsweredIsOffered
<1>4. ASSUME Offered(r)
      PROVE  /\ r \in register.rows /\ page.shows.no = register.no
             /\ r.open /\ ~r.sent
             /\ EntryAnswers(CurrentRules, r, listing.rows, page'.links[r])
  <2>1. r \in DOMAIN TopicOffers /\ page'.links[r] = TopicOffers[r] /\ page'.links[r] # NoUrl
    BY <1>1, <1>4, AnsweredIsOffered DEF Offered
  <2>2. /\ currentMatch.no # 0 /\ currentMatch.legal = register.no
        /\ currentMatch.topics.no = listing.no /\ page.shows.no = currentMatch.legal
        /\ ConsultationEligible(r) /\ TopicOffers[r] = currentMatch.decisions[r]
    BY <2>1 DEF TopicOffers
  <2>3. r \in register.rows /\ page.shows.no = register.no
    BY <1>2, <2>2
  <2>4. currentMatch.topics = listing
    BY <2>2 DEF TopicInv, DecidesCurrent, WasCurrent
  <2>5. /\ IsTopicCorpus(listing.rows) /\ IsTopicRecord(r)
        /\ page'.links[r] = DecideRecord(CurrentRules, r, listing.rows)
    BY <2>1, <2>2, <2>3, <2>4, MatchDecides
  <2>6. page'.links[r] # NotMatched
    <3>1. page'.links[r] \in Publishable
      BY <1>1, <1>4 DEF Answered, Offered
    <3> QED BY <3>1, LinkAssumption
  <2>7. EntryAnswers(CurrentRules, r, listing.rows, page'.links[r])
    BY <2>5, <2>6, RulesAreRules, DecisionIsTheAnswer
  <2> QED BY <2>2, <2>3, <2>7 DEF ConsultationEligible
<1> QED BY <1>3, <1>4

LEMMA ArchiveLinksAreDeserved == TopicInv /\ ResolveArchiveLinks => LinkStep
<1> SUFFICES ASSUME TopicInv, ResolveArchiveLinks, NEW r \in page.shows.rows, Offered(r)
             PROVE  /\ r \in register.rows /\ page.shows.no = register.no
                    /\ r.open /\ ~r.sent
                    /\ LET judged == currentMatch.topics.rows
                       IN  /\ ~\E e \in judged : EntryAnswers(CurrentRules, r, judged, e.url)
                           /\ page'.links[r] \notin {e.url : e \in judged}
                           /\ EntryAnswers(ArchiveRules, r, Usable(archive.rows, judged), page'.links[r])
  BY DEF LinkStep, ResolveArchiveLinks
<1> DEFINE judged == currentMatch.topics.rows
           field == Usable(archive.rows, judged)
<1>1. page'.links = Answered(ArchiveOffers)
  BY DEF ResolveArchiveLinks, TopicInv
<1>2. r \in DOMAIN ArchiveOffers /\ page'.links[r] = ArchiveOffers[r] /\ page'.links[r] # NoUrl
  BY <1>1, AnsweredIsOffered DEF Offered
<1>3. /\ archiveMatch.legal # 0 /\ archiveMatch.legal = register.no
      /\ archiveMatch.archive.no = archive.no /\ archiveMatch.match = currentMatch.no
      /\ currentMatch.legal = archiveMatch.legal /\ page.shows.no = archiveMatch.legal
      /\ r \in DOMAIN archiveMatch.decisions /\ ConsultationEligible(r)
      /\ ArchiveOffers[r] = archiveMatch.decisions[r]
  BY <1>2 DEF ArchiveOffers
<1>4. r \in register.rows /\ page.shows.no = register.no
  BY <1>3 DEF TopicInv, WasCurrent
<1>5. DecidesArchive(archiveMatch)
  BY <1>3 DEF TopicInv, NoArchiveMatch
<1>6. archiveMatch.decisions = MatchArchive(LeftBy(currentMatch), field) /\ archiveMatch.archive = archive
  BY <1>3, <1>5 DEF DecidesArchive, WasCurrent
<1>7. r \in LeftBy(currentMatch) /\ page'.links[r] = DecideRecord(ArchiveRules, r, field)
  BY <1>2, <1>3, <1>6 DEF MatchArchive
<1>8. currentMatch.no # 0
  BY <1>3 DEF TopicInv, NoCurrentMatch
<1>9. /\ r \in DOMAIN currentMatch.decisions /\ IsTopicCorpus(judged) /\ IsTopicRecord(r)
      /\ currentMatch.decisions[r] = DecideRecord(CurrentRules, r, judged)
  BY <1>3, <1>4, <1>8, MatchDecides
<1>10. ~\E e \in judged : EntryAnswers(CurrentRules, r, judged, e.url)
  <2>1. currentMatch.decisions[r] = NotMatched
    BY <1>7, <1>9 DEF LeftBy
  <2> HIDE DEF judged
  <2> QED BY <1>9, <2>1, RulesAreRules, DecisionIsTheAnswer
<1>11. IsTopicCorpus(field)
  BY SnapshotIsCorpus, UsableIsCorpus DEF TopicInv
<1>12. page'.links[r] # NotMatched
  <2>1. page'.links[r] \in Publishable
    BY <1>1 DEF Answered, Offered
  <2> QED BY <2>1, LinkAssumption
<1>13. EntryAnswers(ArchiveRules, r, field, page'.links[r])
  <2> HIDE DEF field
  <2> QED BY <1>7, <1>9, <1>11, <1>12, RulesAreRules, DecisionIsTheAnswer
<1>14. page'.links[r] \notin {e.url : e \in judged}
  BY <1>13 DEF EntryAnswers, Usable
<1> QED BY <1>3, <1>4, <1>10, <1>13, <1>14 DEF ConsultationEligible

\* Whatever registers, listings and archives are published and whatever match
\* runs commit while a page is rendered, a consultation appears beside a record
\* only if the snapshots that are current single it out, and it does appear when
\* the matched listing does (resolve_topic_links, resolve_archive_links).
THEOREM LinksAlwaysDeserved == TopicSpec => LinksAreDeserved
<1>1. TopicInit => TopicInv
  BY TopicsStart
<1>2. TopicInv /\ [TopicNext]_topicVars => TopicInv'
  BY TopicStep
<1>3. TopicInv => [ResolveTopicLinks \/ ResolveArchiveLinks => LinkStep]_topicVars
  BY TopicLinksAreDeserved, ArchiveLinksAreDeserved
<1> QED BY <1>1, <1>2, <1>3, PTL DEF TopicSpec, LinksAreDeserved
=============================================================================
