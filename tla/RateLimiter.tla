---------------------------- MODULE RateLimiter ----------------------------
(***************************************************************************)
(* The in-memory limiter of src/rate_limit.rs: fixed-window buckets keyed  *)
(* by client and scope behind one mutex.                                   *)
(*                                                                         *)
(* check() reads the clock BEFORE it takes the mutex, so the instant it    *)
(* works with may be older than the one another thread has already stored. *)
(* Start is that read and the critical section is one action, chosen by    *)
(* what it answers.  A bucket keeps the age of its "started" instant and a *)
(* call the age of its "now" (its lag); duration_since saturates at zero.  *)
(* Ages stop at MaxAge, past every comparison.                             *)
(*                                                                         *)
(* "admitted" is a history variable: how many calls of a key were let      *)
(* through no longer ago than n time units.                                *)
(***************************************************************************)
EXTENDS Integers, FiniteSets

CONSTANTS
    Key,         \* "client:scope" strings
    Task,        \* threads that may be inside check()
    Limit,       \* calls per window: 5, 10 or 120
    Window,      \* length of the fixed window: 60 seconds
    Retain,      \* age at which an idle bucket is dropped: 3600 seconds
    MaxBuckets,  \* buckets kept: 4096
    MaxLag       \* bound: longest wait between the clock read and the mutex

ASSUME LimiterAssumption ==
    /\ Limit \in Nat
    /\ MaxBuckets \in Nat
    /\ MaxLag \in Nat
    /\ Window \in Nat /\ MaxLag < Window
    /\ Retain \in Nat /\ Window + MaxLag <= Retain

VARIABLES
    buckets,     \* the map, a function on the keys present
    call,        \* the calls in progress
    admitted     \* history

vars == <<buckets, call, admitted>>

None == "none"
MaxAge == Retain + MaxLag
Horizon == 0 .. Window + MaxLag

Bucket == [age : 0 .. MaxAge, count : 0 .. Limit]
Call == [key : Key \cup {None}, lag : 0 .. MaxLag]
Idle == [key |-> None, lag |-> 0]

-----------------------------------------------------------------------------
(* now.duration_since(bucket.started), both given by their ages            *)
Elapsed(b, lag) == IF b.age > lag THEN b.age - lag ELSE 0

NewBucket(lag) == [age |-> lag, count |-> 0]

\* buckets.retain(..): the buckets a call with this lag keeps
Retained(lag) == {k \in DOMAIN buckets : Elapsed(buckets[k], lag) < Retain}

\* !buckets.contains_key(key) && buckets.len() >= 4096
NeverFull(kept, k) == FALSE
Full(kept, k) == k \notin kept /\ Cardinality(kept) >= MaxBuckets

\* A new fixed window begins once the previous one has elapsed.
NeverRestarted(b, lag) == b
RestartedCount(b, lag) == IF Elapsed(b, lag) >= Window THEN [b EXCEPT !.count = 0] ELSE b
Restarted(b, lag) == IF Elapsed(b, lag) >= Window THEN NewBucket(lag) ELSE b

\* entry(key).or_insert(..), then the window check
BucketOf(kept, k, lag) == Restarted(IF k \in kept THEN buckets[k] ELSE NewBucket(lag), lag)

\* The map after a call that kept these buckets and leaves b at k.
Store(kept, k, b) == [x \in kept \cup {k} |-> IF x = k THEN b ELSE buckets[x]]

\* bucket.count < limit
HasRoomOffByOne(b) == b.count <= Limit
HasRoom(b) == b.count < Limit

CountPlusOne(b) == [b EXCEPT !.count = @ + 1]

-----------------------------------------------------------------------------
Init ==
    /\ buckets = [k \in {} |-> NewBucket(0)]
    /\ call = [t \in Task |-> Idle]
    /\ admitted = [k \in Key |-> [n \in Horizon |-> 0]]

\* let now = Instant::now();
Start(t, k) ==
    /\ call[t] = Idle
    /\ call' = [call EXCEPT ![t] = [key |-> k, lag |-> 0]]
    /\ UNCHANGED <<buckets, admitted>>

\* The map holds as many buckets as it may and this key has none.
RefuseNewKey(t) ==
    LET kept == Retained(call[t].lag) IN
    /\ call[t].key \in Key
    /\ Full(kept, call[t].key)
    /\ buckets' = [k \in kept |-> buckets[k]]
    /\ call' = [call EXCEPT ![t] = Idle]
    /\ UNCHANGED admitted

RefuseOverLimit(t) ==
    LET kept == Retained(call[t].lag)
        b == BucketOf(kept, call[t].key, call[t].lag) IN
    /\ call[t].key \in Key
    /\ ~Full(kept, call[t].key)
    /\ ~HasRoom(b)
    /\ buckets' = Store(kept, call[t].key, b)
    /\ call' = [call EXCEPT ![t] = Idle]
    /\ UNCHANGED admitted

Admit(t) ==
    LET kept == Retained(call[t].lag)
        b == BucketOf(kept, call[t].key, call[t].lag) IN
    /\ call[t].key \in Key
    /\ ~Full(kept, call[t].key)
    /\ HasRoom(b)
    /\ buckets' = Store(kept, call[t].key, CountPlusOne(b))
    /\ call' = [call EXCEPT ![t] = Idle]
    /\ admitted' = [admitted EXCEPT ![call[t].key] = [n \in Horizon |-> @[n] + 1]]

\* The service restarts: the limits are process-local.
Restart ==
    /\ buckets' = [k \in {} |-> NewBucket(0)]
    /\ call' = [t \in Task |-> Idle]
    /\ admitted' = [k \in Key |-> [n \in Horizon |-> 0]]

\* Time passes, unless a call would then have waited longer than MaxLag.
Tick ==
    /\ \A t \in Task : call[t].key # None => call[t].lag < MaxLag
    /\ call' = [t \in Task |-> IF call[t].key = None THEN Idle
                               ELSE [call[t] EXCEPT !.lag = @ + 1]]
    /\ buckets' = [k \in DOMAIN buckets |->
                      [buckets[k] EXCEPT !.age = IF @ < MaxAge THEN @ + 1 ELSE @]]
    /\ admitted' = [k \in Key |-> [n \in Horizon |-> IF n = 0 THEN 0 ELSE admitted[k][n - 1]]]

Next ==
    \/ \E t \in Task : \/ \E k \in Key : Start(t, k)
                       \/ RefuseNewKey(t) \/ RefuseOverLimit(t) \/ Admit(t)
    \/ Tick \/ Restart

Spec == Init /\ [][Next]_vars

-----------------------------------------------------------------------------
(* Properties                                                              *)

\* A bucket's count never passes the limit and its age never passes MaxAge.
TypeOK ==
    /\ DOMAIN buckets \subseteq Key
    /\ \A k \in DOMAIN buckets : buckets[k] \in Bucket
    /\ call \in [Task -> Call]
    /\ admitted \in [Key -> [Horizon -> Nat]]

\* The map stays within its memory bound whatever the clients do.
BucketsBounded == Cardinality(DOMAIN buckets) <= MaxBuckets

\* Calls of key k let through no longer than n time units ago.
AdmittedWithin(k, n) == admitted[k][n]

\* Fixed windows let through at most twice the limit in any span of a window
\* (the end of one and the start of the next); a stale "now" counts a late
\* call in the window before, so the span is shorter by the longest lag.
SlidingBound == \A k \in Key : AdmittedWithin(k, Window - MaxLag) <= 2 * Limit

\* A client is told RATE_LIMITED only after a limit's worth of its own calls
\* were let through within a window (and the longest lag): no other client's
\* traffic, eviction or stale clock read uses up its allowance.
RefusalJustified ==
    [][\A t \in Task : RefuseOverLimit(t) =>
          AdmittedWithin(call[t].key, Window + MaxLag - 1) >= Limit]_vars

-----------------------------------------------------------------------------
(* The inductive invariant behind the two bounds.                          *)

\* Of a key's calls, given by how many passed within n time units: one that b
\* admitted came after its start and before its window and the longest lag were
\* over; the calls before those belong to earlier windows.
WindowInv(b, passed) ==
    \A n \in Horizon :
        /\ b.age <= n /\ n < Window + MaxLag => passed[n] >= b.count
        /\ n <= b.age - Window - MaxLag => passed[n] = 0
        /\ n <= b.age - MaxLag => passed[n] <= b.count
        /\ n <= b.age + Window - MaxLag => passed[n] <= b.count + Limit

\* What a dropped bucket admitted is older than a new bucket's window reaches.
DroppedInv(passed) ==
    /\ passed[0] = 0
    /\ \A n \in Horizon : n <= Window => passed[n] <= Limit

HistoryInv ==
    \A k \in Key : IF k \in DOMAIN buckets THEN WindowInv(buckets[k], admitted[k])
                   ELSE DroppedInv(admitted[k])

\* Dropped buckets make room, and an entry is added only below the capacity.
MapInv ==
    /\ TypeOK
    /\ IsFiniteSet(DOMAIN buckets)
    /\ BucketsBounded

IInv == MapInv /\ HistoryInv

=============================================================================
