------------------------- MODULE RateLimiterProofs -------------------------
(* Theorems about RateLimiter for every number of clients, scopes and      *)
(* threads and every limit, window and capacity.                           *)
EXTENDS RateLimiter, FiniteSetTheorems, TLAPS

LEMMA IdleCall == Idle \in Call /\ Idle.key = None
BY LimiterAssumption DEF Idle, Call

LEMMA InitMapInv == Init => MapInv
<1> SUFFICES ASSUME Init PROVE MapInv
  OBVIOUS
<1>1. DOMAIN buckets = {}
  BY DEF Init
<1>2. TypeOK
  BY <1>1, IdleCall DEF Init, TypeOK
<1>3. IsFiniteSet(DOMAIN buckets) /\ BucketsBounded
  BY <1>1, FS_EmptySet, LimiterAssumption DEF BucketsBounded
<1> QED
  BY <1>2, <1>3 DEF MapInv

\* What a call keeps is a finite set of keys no larger than the capacity.
LEMMA RetainedBounded ==
    ASSUME MapInv, NEW lag
    PROVE  /\ Retained(lag) \subseteq DOMAIN buckets /\ IsFiniteSet(Retained(lag))
           /\ Cardinality(Retained(lag)) \in Nat /\ Cardinality(Retained(lag)) <= MaxBuckets
<1>1. Retained(lag) \subseteq DOMAIN buckets /\ IsFiniteSet(DOMAIN buckets)
  BY DEF Retained, MapInv
<1>2. IsFiniteSet(Retained(lag)) /\ Cardinality(Retained(lag)) <= Cardinality(DOMAIN buckets)
  BY <1>1, FS_Subset
<1>3. Cardinality(Retained(lag)) \in Nat /\ Cardinality(DOMAIN buckets) \in Nat
  BY <1>1, <1>2, FS_CardinalityType
<1> QED
  BY <1>1, <1>2, <1>3, LimiterAssumption DEF MapInv, BucketsBounded

\* The bucket a call finds or makes has a count within the limit.
LEMMA BucketOfType ==
    ASSUME MapInv, NEW lag \in 0 .. MaxLag, NEW k
    PROVE  BucketOf(Retained(lag), k, lag) \in Bucket
<1>1. NewBucket(lag) \in Bucket
  BY LimiterAssumption DEF NewBucket, Bucket, MaxAge
<1>2. k \in Retained(lag) => buckets[k] \in Bucket
  BY DEF Retained, MapInv, TypeOK
<1> QED
  BY <1>1, <1>2 DEF BucketOf, Restarted

\* Storing a bucket for a key that is not refused keeps the map within bounds.
LEMMA StoreBounded ==
    ASSUME MapInv, NEW lag, NEW k \in Key, ~Full(Retained(lag), k), NEW b \in Bucket,
           buckets' = Store(Retained(lag), k, b)
    PROVE  /\ DOMAIN buckets' \subseteq Key /\ \A x \in DOMAIN buckets' : buckets'[x] \in Bucket
           /\ IsFiniteSet(DOMAIN buckets') /\ BucketsBounded'
<1> DEFINE kept == Retained(lag)
<1>1. DOMAIN buckets' = kept \cup {k}
  BY DEF Store
<1>2. \A x \in DOMAIN buckets' : buckets'[x] = IF x = k THEN b ELSE buckets[x]
  BY DEF Store
<1>3. /\ kept \subseteq DOMAIN buckets /\ IsFiniteSet(kept)
      /\ Cardinality(kept) \in Nat /\ Cardinality(kept) <= MaxBuckets
  BY RetainedBounded
<1>4. DOMAIN buckets' \subseteq Key /\ \A x \in DOMAIN buckets' : buckets'[x] \in Bucket
  BY <1>1, <1>2, <1>3 DEF MapInv, TypeOK
<1>5. /\ IsFiniteSet(kept \cup {k})
      /\ Cardinality(kept \cup {k}) = IF k \in kept THEN Cardinality(kept) ELSE Cardinality(kept) + 1
  BY <1>3, FS_AddElement
<1>6. k \in kept \/ Cardinality(kept) < MaxBuckets
  BY <1>3, LimiterAssumption DEF Full
<1>7. Cardinality(kept \cup {k}) <= MaxBuckets
  BY <1>3, <1>5, <1>6, LimiterAssumption
<1> HIDE DEF kept
<1> QED
  BY <1>1, <1>4, <1>5, <1>7 DEF BucketsBounded

LEMMA StepMapInv == MapInv /\ [Next]_vars => MapInv'
<1> SUFFICES ASSUME MapInv, [Next]_vars PROVE MapInv'
  OBVIOUS
<1>1. CASE UNCHANGED vars
  BY <1>1 DEF vars, MapInv, TypeOK, BucketsBounded
<1>2. ASSUME NEW t \in Task, NEW k \in Key, Start(t, k) PROVE MapInv'
  <2>1. call' \in [Task -> Call]
    BY <1>2, LimiterAssumption DEF Start, MapInv, TypeOK, Call
  <2> QED
    BY <1>2, <2>1 DEF Start, MapInv, TypeOK, BucketsBounded
<1>3. ASSUME NEW t \in Task, RefuseNewKey(t) PROVE MapInv'
  <2> DEFINE kept == Retained(call[t].lag)
  <2>1. DOMAIN buckets' = kept /\ \A x \in kept : buckets'[x] = buckets[x]
    BY <1>3 DEF RefuseNewKey
  <2>2. /\ kept \subseteq DOMAIN buckets /\ IsFiniteSet(kept)
        /\ Cardinality(kept) <= MaxBuckets
    BY RetainedBounded
  <2>3. call' \in [Task -> Call]
    BY <1>3, IdleCall DEF RefuseNewKey, MapInv, TypeOK
  <2> HIDE DEF kept
  <2> QED
    BY <1>3, <2>1, <2>2, <2>3 DEF RefuseNewKey, MapInv, TypeOK, BucketsBounded
<1>4. ASSUME NEW t \in Task, RefuseOverLimit(t) PROVE MapInv'
  <2> DEFINE b == BucketOf(Retained(call[t].lag), call[t].key, call[t].lag)
  <2>1. call[t].lag \in 0 .. MaxLag /\ call[t].key \in Key
    BY <1>4 DEF RefuseOverLimit, MapInv, TypeOK, Call
  <2>2. b \in Bucket
    BY <2>1, BucketOfType
  <2>3. ~Full(Retained(call[t].lag), call[t].key)
        /\ buckets' = Store(Retained(call[t].lag), call[t].key, b)
    BY <1>4 DEF RefuseOverLimit
  <2>4. call' \in [Task -> Call] /\ admitted' = admitted
    BY <1>4, IdleCall DEF RefuseOverLimit, MapInv, TypeOK
  <2> HIDE DEF b
  <2> QED
    BY <2>1, <2>2, <2>3, <2>4, StoreBounded DEF MapInv, TypeOK
<1>5. ASSUME NEW t \in Task, Admit(t) PROVE MapInv'
  <2> DEFINE b == BucketOf(Retained(call[t].lag), call[t].key, call[t].lag)
  <2>1. call[t].lag \in 0 .. MaxLag /\ call[t].key \in Key
    BY <1>5 DEF Admit, MapInv, TypeOK, Call
  <2>2. b \in Bucket
    BY <2>1, BucketOfType
  <2>3. ~Full(Retained(call[t].lag), call[t].key) /\ HasRoom(b)
        /\ buckets' = Store(Retained(call[t].lag), call[t].key, CountPlusOne(b))
    BY <1>5 DEF Admit
  <2>4. call' \in [Task -> Call]
    BY <1>5, IdleCall DEF Admit, MapInv, TypeOK
  <2>5. admitted' \in [Key -> [Horizon -> Nat]]
    <3> DEFINE k == call[t].key
               row == [n \in Horizon |-> admitted[k][n] + 1]
    <3>1. row \in [Horizon -> Nat]
      BY <2>1 DEF MapInv, TypeOK
    <3>2. admitted' = [admitted EXCEPT ![k] = row]
      BY <1>5 DEF Admit
    <3> HIDE DEF row
    <3> QED
      BY <2>1, <3>1, <3>2 DEF MapInv, TypeOK
  <2> HIDE DEF b
  <2>6. CountPlusOne(b) \in Bucket
    BY <2>2, <2>3, LimiterAssumption DEF CountPlusOne, HasRoom, Bucket
  <2> QED
    BY <2>1, <2>3, <2>4, <2>5, <2>6, StoreBounded DEF MapInv, TypeOK
<1>6. CASE Tick
  <2>1. call' \in [Task -> Call]
    <3>1. ASSUME NEW t \in Task, call[t].key # None
          PROVE  [call[t] EXCEPT !.lag = @ + 1] \in Call
      <4>1. call[t] \in Call /\ call[t].lag < MaxLag
        BY <1>6, <3>1 DEF Tick, MapInv, TypeOK
      <4> QED
        BY <4>1, LimiterAssumption DEF Call
    <3> QED
      BY <1>6, <3>1, IdleCall DEF Tick
  <2>2. DOMAIN buckets' = DOMAIN buckets /\ \A k \in DOMAIN buckets : buckets'[k] \in Bucket
    <3>1. ASSUME NEW k \in DOMAIN buckets
          PROVE  [buckets[k] EXCEPT !.age = IF @ < MaxAge THEN @ + 1 ELSE @] \in Bucket
      <4>1. buckets[k] \in Bucket /\ MaxAge \in Nat
        BY LimiterAssumption DEF MapInv, TypeOK, MaxAge
      <4> QED
        BY <4>1 DEF Bucket
    <3> QED
      BY <1>6, <3>1 DEF Tick
  <2>3. admitted' \in [Key -> [Horizon -> Nat]]
    <3>1. ASSUME NEW k \in Key, NEW n \in Horizon, n # 0 PROVE admitted[k][n - 1] \in Nat
      <4>1. n - 1 \in Horizon
        BY <3>1, LimiterAssumption DEF Horizon
      <4> QED
        BY <4>1 DEF MapInv, TypeOK
    <3> QED
      BY <1>6, <3>1 DEF Tick
  <2> QED
    BY <2>1, <2>2, <2>3 DEF MapInv, TypeOK, BucketsBounded
<1>7. CASE Restart
  <2>1. DOMAIN buckets' = {}
    BY <1>7 DEF Restart
  <2>2. TypeOK'
    BY <1>7, <2>1, IdleCall DEF Restart, TypeOK
  <2>3. IsFiniteSet(DOMAIN buckets') /\ BucketsBounded'
    BY <2>1, FS_EmptySet, LimiterAssumption DEF BucketsBounded
  <2> QED
    BY <2>2, <2>3 DEF MapInv
<1> QED
  BY <1>1, <1>2, <1>3, <1>4, <1>5, <1>6, <1>7 DEF Next

-----------------------------------------------------------------------------
(* The history of admissions                                               *)

LEMMA HorizonStart == 0 \in Horizon /\ Window - MaxLag \in Horizon /\ Window + MaxLag - 1 \in Horizon
BY LimiterAssumption DEF Horizon

\* A key without a bucket after the clean-up of a call has no recent calls
\* that a new bucket could be blamed for.
LEMMA DroppedHistory ==
    ASSUME MapInv, HistoryInv, NEW lag \in 0 .. MaxLag, NEW k \in Key, k \notin Retained(lag)
    PROVE  DroppedInv(admitted[k])
<1>1. CASE k \notin DOMAIN buckets
  BY <1>1 DEF HistoryInv
<1>2. CASE k \in DOMAIN buckets
  <2> DEFINE b == buckets[k]
             passed == admitted[k]
  <2>1. WindowInv(b, passed) /\ b \in Bucket /\ passed \in [Horizon -> Nat]
    BY <1>2 DEF HistoryInv, MapInv, TypeOK
  <2>2. Elapsed(b, lag) >= Retain \/ ~(Elapsed(b, lag) < Retain)
    BY <1>2 DEF Retained
  <2> HIDE DEF b, passed
  <2>3. b.age \in Nat /\ b.count \in Nat /\ b.count <= Limit
    BY <2>1, LimiterAssumption DEF Bucket, MaxAge
  <2>4. b.age >= Window + MaxLag
    BY <2>2, <2>3, LimiterAssumption DEF Elapsed
  <2>5. passed[0] = 0
    BY <2>1, <2>3, <2>4, HorizonStart, LimiterAssumption DEF WindowInv
  <2>6. ASSUME NEW n \in Horizon, n <= Window PROVE passed[n] <= Limit
    <3>1. n <= b.age - MaxLag /\ passed[n] \in Nat
      BY <2>1, <2>3, <2>4, <2>6, LimiterAssumption DEF Horizon
    <3>2. passed[n] <= b.count
      BY <2>1, <3>1 DEF WindowInv
    <3> QED
      BY <2>3, <3>1, <3>2, LimiterAssumption
  <2> QED
    BY <2>5, <2>6 DEF DroppedInv, passed
<1> QED
  BY <1>1, <1>2

\* A new bucket takes nothing from a key's earlier calls but one full window.
LEMMA NewBucketHistory ==
    ASSUME NEW lag \in 0 .. MaxLag, NEW passed \in [Horizon -> Nat], DroppedInv(passed)
    PROVE  WindowInv(NewBucket(lag), passed)
<1>1. NewBucket(lag).age = lag /\ NewBucket(lag).count = 0
  BY DEF NewBucket
<1> SUFFICES ASSUME NEW n \in Horizon
             PROVE  /\ lag <= n /\ n < Window + MaxLag => passed[n] >= 0
                    /\ n <= lag - Window - MaxLag => passed[n] = 0
                    /\ n <= lag - MaxLag => passed[n] <= 0
                    /\ n <= lag + Window - MaxLag => passed[n] <= 0 + Limit
  BY <1>1 DEF WindowInv
<1>2. n \in Nat /\ passed[n] \in Nat
  BY LimiterAssumption DEF Horizon
<1>3. ~(n <= lag - Window - MaxLag)
  BY <1>2, LimiterAssumption
<1>4. n <= lag - MaxLag => n = 0
  BY <1>2, LimiterAssumption
<1>5. n <= lag + Window - MaxLag => n <= Window
  BY <1>2, LimiterAssumption
<1> QED
  BY <1>2, <1>3, <1>4, <1>5, LimiterAssumption DEF DroppedInv

\* The bucket a call works with accounts for the key's calls, and its window
\* is not over for the call.
LEMMA BucketOfHistory ==
    ASSUME MapInv, HistoryInv, NEW lag \in 0 .. MaxLag, NEW k \in Key,
           NEW b, b = BucketOf(Retained(lag), k, lag)
    PROVE  WindowInv(b, admitted[k]) /\ b.age < Window + MaxLag
<1> DEFINE passed == admitted[k]
<1>1. passed \in [Horizon -> Nat]
  BY DEF MapInv, TypeOK
<1>2. NewBucket(lag).age = lag /\ Elapsed(NewBucket(lag), lag) = 0 /\ lag < Window + MaxLag
  BY LimiterAssumption DEF NewBucket, Elapsed
<1>3. CASE k \notin Retained(lag)
  <2>1. b = NewBucket(lag)
    BY <1>3 DEF BucketOf, Restarted
  <2>2. DroppedInv(passed)
    BY <1>3, DroppedHistory
  <2> QED
    BY <1>1, <1>2, <2>1, <2>2, NewBucketHistory
<1>4. CASE k \in Retained(lag)
  <2> DEFINE o == buckets[k]
  <2>1. k \in DOMAIN buckets
    BY <1>4 DEF Retained
  <2>2. WindowInv(o, passed) /\ o \in Bucket
    BY <2>1 DEF HistoryInv, MapInv, TypeOK
  <2>3. b = IF Elapsed(o, lag) >= Window THEN NewBucket(lag) ELSE o
    BY <1>4 DEF BucketOf, Restarted
  <2> HIDE DEF o, passed
  <2>4. o.age \in Nat /\ o.count \in Nat /\ o.count <= Limit
    BY <2>2, LimiterAssumption DEF Bucket, MaxAge
  <2>5. CASE Elapsed(o, lag) >= Window
    <3>1. o.age >= Window + lag
      BY <2>4, <2>5, LimiterAssumption DEF Elapsed
    <3>2. ASSUME NEW n \in Horizon
          PROVE  /\ lag <= n /\ n < Window + MaxLag => passed[n] >= 0
                 /\ n <= lag - Window - MaxLag => passed[n] = 0
                 /\ n <= lag - MaxLag => passed[n] <= 0
                 /\ n <= lag + Window - MaxLag => passed[n] <= 0 + Limit
      <4>1. n \in Nat /\ passed[n] \in Nat
        BY <1>1, LimiterAssumption DEF Horizon
      <4>2. ~(n <= lag - Window - MaxLag)
        BY <4>1, LimiterAssumption
      <4>3. n <= lag - MaxLag => n <= o.age - Window - MaxLag
        BY <2>4, <3>1, <4>1, LimiterAssumption
      <4>4. n <= lag + Window - MaxLag => n <= o.age - MaxLag
        BY <2>4, <3>1, <4>1, LimiterAssumption
      <4>5. /\ n <= o.age - Window - MaxLag => passed[n] = 0
            /\ n <= o.age - MaxLag => passed[n] <= o.count
        BY <2>2 DEF WindowInv
      <4> QED
        BY <2>4, <4>1, <4>2, <4>3, <4>4, <4>5, LimiterAssumption
    <3>3. b = NewBucket(lag) /\ b.age = lag /\ b.count = 0
      BY <2>3, <2>5 DEF NewBucket
    <3>4. WindowInv(b, passed)
      BY <3>2, <3>3 DEF WindowInv
    <3> QED
      BY <1>2, <3>3, <3>4 DEF passed
  <2>6. CASE ~(Elapsed(o, lag) >= Window)
    <3>1. b = o /\ o.age < Window + MaxLag
      BY <2>3, <2>4, <2>6, LimiterAssumption DEF Elapsed
    <3> QED
      BY <2>2, <3>1 DEF passed
  <2> QED
    BY <2>5, <2>6
<1> QED
  BY <1>3, <1>4

\* A call that leaves b at its key disturbs no other key.
LEMMA StoreHistory ==
    ASSUME MapInv, HistoryInv, NEW lag \in 0 .. MaxLag, NEW k \in Key, NEW b,
           buckets' = Store(Retained(lag), k, b),
           WindowInv(b, admitted'[k]),
           \A x \in Key \ {k} : admitted'[x] = admitted[x]
    PROVE  HistoryInv'
<1> SUFFICES ASSUME NEW x \in Key
             PROVE  IF x \in DOMAIN buckets' THEN WindowInv(buckets'[x], admitted'[x])
                    ELSE DroppedInv(admitted'[x])
  BY DEF HistoryInv
<1>1. /\ DOMAIN buckets' = Retained(lag) \cup {k}
      /\ \A y \in DOMAIN buckets' : buckets'[y] = IF y = k THEN b ELSE buckets[y]
  BY DEF Store
<1>2. CASE x = k
  BY <1>1, <1>2
<1>3. CASE x # k /\ x \in Retained(lag)
  <2>1. x \in DOMAIN buckets
    BY <1>3 DEF Retained
  <2>2. WindowInv(buckets[x], admitted[x])
    BY <2>1 DEF HistoryInv
  <2> QED
    BY <1>1, <1>3, <2>2
<1>4. CASE x # k /\ x \notin Retained(lag)
  <2>1. DroppedInv(admitted[x])
    BY <1>4, DroppedHistory
  <2> QED
    BY <1>1, <1>4, <2>1
<1> QED
  BY <1>2, <1>3, <1>4

\* One more call at this instant is one more for the bucket that admits it.
LEMMA AdmitHistory ==
    ASSUME NEW passed \in [Horizon -> Nat], NEW b \in Bucket, WindowInv(b, passed),
           b.age < Window + MaxLag
    PROVE  WindowInv(CountPlusOne(b), [n \in Horizon |-> passed[n] + 1])
<1>1. CountPlusOne(b).age = b.age /\ CountPlusOne(b).count = b.count + 1
  BY DEF CountPlusOne, Bucket
<1>2. b.age \in Nat /\ b.count \in Nat
  BY LimiterAssumption DEF Bucket, MaxAge
<1> SUFFICES ASSUME NEW n \in Horizon
             PROVE  /\ b.age <= n /\ n < Window + MaxLag => passed[n] + 1 >= b.count + 1
                    /\ n <= b.age - Window - MaxLag => passed[n] + 1 = 0
                    /\ n <= b.age - MaxLag => passed[n] + 1 <= b.count + 1
                    /\ n <= b.age + Window - MaxLag => passed[n] + 1 <= b.count + 1 + Limit
  BY <1>1 DEF WindowInv
<1>3. n \in Nat /\ passed[n] \in Nat
  BY LimiterAssumption DEF Horizon
<1>4. /\ b.age <= n /\ n < Window + MaxLag => passed[n] >= b.count
      /\ n <= b.age - MaxLag => passed[n] <= b.count
      /\ n <= b.age + Window - MaxLag => passed[n] <= b.count + Limit
  BY DEF WindowInv
<1>5. ~(n <= b.age - Window - MaxLag)
  BY <1>2, <1>3, LimiterAssumption
<1> QED
  BY <1>2, <1>3, <1>4, <1>5, LimiterAssumption

\* Calls and bucket grow older together; a bucket at MaxAge is older than any
\* call of the history.
LEMMA TickHistory ==
    ASSUME NEW passed \in [Horizon -> Nat], NEW b \in Bucket, WindowInv(b, passed), NEW c,
           c = [b EXCEPT !.age = IF @ < MaxAge THEN @ + 1 ELSE @],
           NEW later, later = [n \in Horizon |-> IF n = 0 THEN 0 ELSE passed[n - 1]]
    PROVE  WindowInv(c, later)
<1>1. /\ b.age \in Nat /\ b.age <= MaxAge /\ b.count \in Nat
      /\ MaxAge \in Nat /\ MaxAge >= Window + MaxLag
  BY LimiterAssumption DEF Bucket, MaxAge
<1>2. c.count = b.count /\ c.age = IF b.age < MaxAge THEN b.age + 1 ELSE b.age
  BY DEF Bucket
<1>3. c.age \in Nat /\ c.age <= b.age + 1 /\ (c.age # b.age + 1 => c.age >= Window + MaxLag)
  BY <1>1, <1>2, LimiterAssumption
<1> SUFFICES ASSUME NEW n \in Horizon
             PROVE  /\ c.age <= n /\ n < Window + MaxLag => later[n] >= b.count
                    /\ n <= c.age - Window - MaxLag => later[n] = 0
                    /\ n <= c.age - MaxLag => later[n] <= b.count
                    /\ n <= c.age + Window - MaxLag => later[n] <= b.count + Limit
  BY <1>2 DEF WindowInv
<1>4. n \in Nat /\ n <= Window + MaxLag
  BY LimiterAssumption DEF Horizon
<1>5. CASE n = 0
  <2>1. later[n] = 0
    BY <1>5
  <2>2. ~(n >= c.age)
    BY <1>1, <1>3, <1>4, <1>5, LimiterAssumption
  <2> QED
    BY <1>1, <2>1, <2>2, LimiterAssumption
<1>6. CASE n # 0
  <2>1. n - 1 \in Horizon
    BY <1>4, <1>6, LimiterAssumption DEF Horizon
  <2>2. later[n] = passed[n - 1] /\ passed[n - 1] \in Nat
    BY <1>6, <2>1
  <2>3. /\ b.age <= n - 1 /\ n - 1 < Window + MaxLag => passed[n - 1] >= b.count
        /\ n - 1 <= b.age - Window - MaxLag => passed[n - 1] = 0
        /\ n - 1 <= b.age - MaxLag => passed[n - 1] <= b.count
        /\ n - 1 <= b.age + Window - MaxLag => passed[n - 1] <= b.count + Limit
    BY <2>1 DEF WindowInv
  <2> QED
    BY <1>1, <1>3, <1>4, <2>2, <2>3, LimiterAssumption
<1> QED
  BY <1>5, <1>6

LEMMA StepHistory == MapInv /\ HistoryInv /\ [Next]_vars => HistoryInv'
<1> SUFFICES ASSUME MapInv, HistoryInv, [Next]_vars PROVE HistoryInv'
  OBVIOUS
<1>1. CASE UNCHANGED <<buckets, admitted>>
  BY <1>1 DEF HistoryInv
<1>2. ASSUME NEW t \in Task, RefuseNewKey(t) PROVE HistoryInv'
  <2> DEFINE lag == call[t].lag
  <2>1. lag \in 0 .. MaxLag
    BY <1>2 DEF MapInv, TypeOK, Call
  <2>2. /\ DOMAIN buckets' = Retained(lag) /\ \A k \in Retained(lag) : buckets'[k] = buckets[k]
        /\ admitted' = admitted
    BY <1>2 DEF RefuseNewKey
  <2>3. \A k \in Retained(lag) : k \in DOMAIN buckets
    BY DEF Retained
  <2> HIDE DEF lag
  <2>4. \A k \in Key \ Retained(lag) : DroppedInv(admitted[k])
    BY <2>1, DroppedHistory
  <2> QED
    BY <2>2, <2>3, <2>4 DEF HistoryInv
<1>3. ASSUME NEW t \in Task, RefuseOverLimit(t) PROVE HistoryInv'
  <2> DEFINE lag == call[t].lag
             k == call[t].key
             b == BucketOf(Retained(lag), k, lag)
  <2>1. lag \in 0 .. MaxLag /\ k \in Key
    BY <1>3 DEF RefuseOverLimit, MapInv, TypeOK, Call
  <2>2. buckets' = Store(Retained(lag), k, b) /\ admitted' = admitted
    BY <1>3 DEF RefuseOverLimit
  <2> HIDE DEF lag, k
  <2>3. WindowInv(b, admitted[k])
    BY <2>1, BucketOfHistory
  <2> HIDE DEF b
  <2> QED
    BY <2>1, <2>2, <2>3, StoreHistory
<1>4. ASSUME NEW t \in Task, Admit(t) PROVE HistoryInv'
  <2> DEFINE lag == call[t].lag
             k == call[t].key
             b == BucketOf(Retained(lag), k, lag)
             passed == admitted[k]
  <2>1. lag \in 0 .. MaxLag /\ k \in Key
    BY <1>4 DEF Admit, MapInv, TypeOK, Call
  <2>2. /\ buckets' = Store(Retained(lag), k, CountPlusOne(b))
        /\ admitted' = [admitted EXCEPT ![k] = [n \in Horizon |-> @[n] + 1]]
    BY <1>4 DEF Admit
  <2>3. /\ admitted'[k] = [n \in Horizon |-> passed[n] + 1]
        /\ \A x \in Key \ {k} : admitted'[x] = admitted[x]
    BY <2>1, <2>2 DEF MapInv, TypeOK
  <2> HIDE DEF lag, k
  <2>4. b \in Bucket
    BY <2>1, BucketOfType, LimiterAssumption DEF MaxAge
  <2>5. WindowInv(b, passed) /\ b.age < Window + MaxLag
    BY <2>1, BucketOfHistory
  <2>6. passed \in [Horizon -> Nat]
    BY <2>1 DEF MapInv, TypeOK
  <2> HIDE DEF b, passed
  <2>7. WindowInv(CountPlusOne(b), admitted'[k])
    BY <2>3, <2>4, <2>5, <2>6, AdmitHistory
  <2> QED
    BY <2>1, <2>2, <2>3, <2>7, StoreHistory
<1>5. CASE Tick
  <2> SUFFICES ASSUME NEW k \in Key
               PROVE  IF k \in DOMAIN buckets' THEN WindowInv(buckets'[k], admitted'[k])
                      ELSE DroppedInv(admitted'[k])
    BY DEF HistoryInv
  <2> DEFINE passed == admitted[k]
             later == [n \in Horizon |-> IF n = 0 THEN 0 ELSE passed[n - 1]]
  <2>1. DOMAIN buckets' = DOMAIN buckets /\ admitted'[k] = later
    BY <1>5 DEF Tick
  <2>2. passed \in [Horizon -> Nat]
    BY DEF MapInv, TypeOK
  <2>3. CASE k \in DOMAIN buckets
    <3> DEFINE b == buckets[k]
               c == [b EXCEPT !.age = IF @ < MaxAge THEN @ + 1 ELSE @]
    <3>1. b \in Bucket /\ WindowInv(b, passed)
      BY <2>3 DEF MapInv, TypeOK, HistoryInv
    <3>2. buckets'[k] = c
      BY <1>5, <2>3 DEF Tick
    <3> HIDE DEF b, passed
    <3>3. WindowInv(c, later)
      BY <2>2, <3>1, TickHistory
    <3> QED
      BY <2>1, <2>3, <3>2, <3>3
  <2>4. CASE k \notin DOMAIN buckets
    <3>1. DroppedInv(passed)
      BY <2>4 DEF HistoryInv
    <3> HIDE DEF passed
    <3>2. later[0] = 0
      BY HorizonStart
    <3>3. ASSUME NEW n \in Horizon, n <= Window PROVE later[n] <= Limit
      <4>1. CASE n = 0
        BY <4>1, LimiterAssumption
      <4>2. CASE n # 0
        <5>1. n - 1 \in Horizon /\ n - 1 <= Window
          BY <3>3, <4>2, LimiterAssumption DEF Horizon
        <5> QED
          BY <3>1, <4>2, <5>1 DEF DroppedInv
      <4> QED
        BY <4>1, <4>2
    <3> QED
      BY <2>1, <2>4, <3>2, <3>3 DEF DroppedInv
  <2> QED
    BY <2>3, <2>4
<1>6. CASE Restart
  <2>1. /\ DOMAIN buckets' = {}
        /\ \A k \in Key : admitted'[k] = [n \in Horizon |-> 0]
    BY <1>6 DEF Restart
  <2>2. DroppedInv([n \in Horizon |-> 0])
    BY HorizonStart, LimiterAssumption DEF DroppedInv
  <2> QED
    BY <2>1, <2>2 DEF HistoryInv
<1> QED
  BY <1>1, <1>2, <1>3, <1>4, <1>5, <1>6 DEF Next, vars, Start

LEMMA InitHistory == Init => HistoryInv
<1> SUFFICES ASSUME Init PROVE HistoryInv
  OBVIOUS
<1>1. DOMAIN buckets = {} /\ \A k \in Key : admitted[k] = [n \in Horizon |-> 0]
  BY DEF Init
<1>2. DroppedInv([n \in Horizon |-> 0])
  BY HorizonStart, LimiterAssumption DEF DroppedInv
<1> QED
  BY <1>1, <1>2 DEF HistoryInv

\* The invariant: the map is bounded and well typed, and every bucket accounts
\* for the calls of its key.
THEOREM Invariant == Spec => []IInv
<1>1. Init => IInv
  BY InitMapInv, InitHistory DEF IInv
<1>2. IInv /\ [Next]_vars => IInv'
  BY StepMapInv, StepHistory DEF IInv
<1> QED
  BY <1>1, <1>2, PTL DEF Spec

\* Counts stay within the limit and every call and bucket keeps its shape.
THEOREM TypeCorrect == Spec => []TypeOK
<1>1. IInv => TypeOK
  BY DEF IInv, MapInv
<1> QED
  BY <1>1, Invariant, PTL

\* The limiter never holds more than MaxBuckets buckets.
THEOREM MemoryBounded == Spec => []BucketsBounded
<1>1. IInv => BucketsBounded
  BY DEF IInv, MapInv
<1> QED
  BY <1>1, Invariant, PTL

\* No client gets more than two limits' worth of calls through in any span of a
\* window less the longest lag, whatever buckets are dropped or restarted.
THEOREM SpansAreBounded == Spec => []SlidingBound
<1>1. ASSUME IInv PROVE SlidingBound
  <2> SUFFICES ASSUME NEW k \in Key PROVE admitted[k][Window - MaxLag] <= 2 * Limit
    BY DEF SlidingBound, AdmittedWithin
  <2> DEFINE n == Window - MaxLag
             passed == admitted[k]
  <2>1. n \in Horizon /\ n \in Nat /\ n <= Window /\ passed[n] \in Nat
    BY <1>1, HorizonStart, LimiterAssumption DEF IInv, MapInv, TypeOK
  <2>2. CASE k \in DOMAIN buckets
    <3> DEFINE b == buckets[k]
    <3>1. WindowInv(b, passed) /\ b \in Bucket
      BY <1>1, <2>2 DEF IInv, HistoryInv, MapInv, TypeOK
    <3> HIDE DEF b, passed
    <3>2. b.age \in Nat /\ b.count \in Nat /\ b.count <= Limit
      BY <3>1, LimiterAssumption DEF Bucket, MaxAge
    <3>3. n <= b.age + Window - MaxLag
      BY <3>2, LimiterAssumption
    <3>4. passed[n] <= b.count + Limit
      BY <2>1, <3>1, <3>3 DEF WindowInv
    <3>5. passed[n] <= 2 * Limit
      BY <2>1, <3>2, <3>4, LimiterAssumption
    <3> QED
      BY <3>5 DEF passed
  <2>3. CASE k \notin DOMAIN buckets
    <3>1. DroppedInv(passed)
      BY <1>1, <2>3 DEF IInv, HistoryInv
    <3>2. passed[n] <= Limit
      BY <2>1, <3>1 DEF DroppedInv
    <3> QED
      BY <2>1, <3>2, LimiterAssumption
  <2> QED
    BY <2>2, <2>3
<1> QED
  BY <1>1, Invariant, PTL

\* A refusal for being over the limit is backed by a limit's worth of the
\* client's own calls within a window and the longest lag.
THEOREM RefusalsAreJustified == Spec => RefusalJustified
<1>1. ASSUME IInv, NEW t \in Task, RefuseOverLimit(t)
      PROVE  AdmittedWithin(call[t].key, Window + MaxLag - 1) >= Limit
  <2> DEFINE lag == call[t].lag
             k == call[t].key
             b == BucketOf(Retained(lag), k, lag)
             n == Window + MaxLag - 1
             passed == admitted[k]
  <2>1. MapInv /\ HistoryInv
    BY <1>1 DEF IInv
  <2>2. lag \in 0 .. MaxLag /\ k \in Key
    BY <1>1, <2>1 DEF RefuseOverLimit, MapInv, TypeOK, Call
  <2>3. ~HasRoom(b)
    BY <1>1 DEF RefuseOverLimit
  <2>4. n \in Horizon /\ passed[n] \in Nat
    BY <2>1, <2>2, HorizonStart DEF MapInv, TypeOK
  <2> HIDE DEF lag, k
  <2>5. b \in Bucket
    BY <2>1, <2>2, BucketOfType, LimiterAssumption DEF MaxAge
  <2>6. WindowInv(b, passed) /\ b.age < Window + MaxLag
    BY <2>1, <2>2, BucketOfHistory
  <2> HIDE DEF b, passed
  <2>7. b.age \in Nat /\ b.count \in Nat /\ b.count >= Limit
    BY <2>3, <2>5, LimiterAssumption DEF HasRoom, Bucket, MaxAge
  <2>8. passed[n] >= b.count
    BY <2>4, <2>6, <2>7, LimiterAssumption DEF WindowInv
  <2>9. passed[n] >= Limit
    BY <2>4, <2>7, <2>8, LimiterAssumption
  <2> QED
    BY <2>9 DEF AdmittedWithin, passed, k
<1>2. IInv => \A t \in Task : RefuseOverLimit(t) =>
                AdmittedWithin(call[t].key, Window + MaxLag - 1) >= Limit
  BY <1>1
<1> QED
  BY <1>2, Invariant, PTL DEF RefusalJustified

=============================================================================
