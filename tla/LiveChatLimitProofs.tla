------------------------ MODULE LiveChatLimitProofs ------------------------
(* The limit of active requests, for any number of concurrent handlers.    *)
(* The count and the insert of a send are separate statements and an       *)
(* expired request may be revived by a renewal, so the limit is exceeded;  *)
(* CountInv charges every excess request to a handler other than the one   *)
(* that counted.                                                           *)
EXTENDS LiveChatProofs, FiniteSetTheorems

\* A finite set has as many elements at least as any of its images.
LEMMA ImageBound ==
    ASSUME NEW S, IsFiniteSet(S), NEW T, NEW f, \A y \in T : \E x \in S : f[x] = y
    PROVE  IsFiniteSet(T) /\ Cardinality(T) <= Cardinality(S)
<1> DEFINE D == {x \in S : f[x] \in T}
           g == [x \in D |-> f[x]]
<1>1. IsFiniteSet(D) /\ Cardinality(D) <= Cardinality(S)
  BY FS_Subset
<1>2. g \in Surjection(D, T)
  BY DEF Surjection
<1>3. IsFiniteSet(T) /\ Cardinality(T) <= Cardinality(D)
  <2> HIDE DEF D, g
  <2> QED
    BY <1>1, <1>2, FS_Surjection
<1>4. Cardinality(D) \in Nat /\ Cardinality(S) \in Nat /\ Cardinality(T) \in Nat
  BY <1>1, <1>3, FS_CardinalityType
<1> QED
  BY <1>1, <1>3, <1>4

LEMMA CountsAreFinite ==
    ASSUME IsFiniteSet(requests), NEW a
    PROVE  /\ IsFiniteSet(Counted(a)) /\ Cardinality(Counted(a)) \in Nat
           /\ IsFiniteSet(ActiveOf(a)) /\ Cardinality(ActiveOf(a)) \in Nat
           /\ IsFiniteSet(Sends(a)) /\ Cardinality(Sends(a)) \in Nat
           /\ Cardinality(ActiveOf(a)) <= Cardinality(Counted(a))
           /\ Cardinality(Task) \in Nat /\ Cardinality(Task) > 0
<1>1. IsFiniteSet(Counted(a)) /\ Cardinality(Counted(a)) \in Nat
  <2>1. Counted(a) \in SUBSET requests
    BY DEF Counted
  <2> QED
    BY <2>1, FS_Subset, FS_CardinalityType
<1>2. ActiveOf(a) \in SUBSET Counted(a)
  BY DEF ActiveOf, Counted
<1>3. /\ IsFiniteSet(ActiveOf(a)) /\ Cardinality(ActiveOf(a)) \in Nat
      /\ Cardinality(ActiveOf(a)) <= Cardinality(Counted(a))
  BY <1>1, <1>2, FS_Subset, FS_CardinalityType
<1>4. IsFiniteSet(Sends(a)) /\ Cardinality(Sends(a)) \in Nat
  <2>1. Sends(a) \in SUBSET Task
    BY DEF Sends
  <2> QED
    BY <2>1, TaskAssumption, FS_Subset, FS_CardinalityType
<1>5. Cardinality(Task) \in Nat /\ Cardinality(Task) > 0
  BY TaskAssumption, FS_CardinalityType, FS_EmptySet
<1> QED
  BY <1>1, <1>3, <1>4, <1>5

\* A step after which no account counts more keeps the invariant.
LEMMA ShrinkStep ==
    ASSUME CountInv, IsFiniteSet(requests'),
           \A a \in Account : Cardinality(Counted(a)') <= Cardinality(Counted(a)),
           \A a \in Account : Sends(a)' \subseteq Sends(a)
    PROVE  CountInv'
<1> SUFFICES ASSUME NEW a \in Account
             PROVE  Cardinality(Counted(a)') + Cardinality(Sends(a)')
                       <= MaxActive + Cardinality(Task) - 1
  BY DEF CountInv
<1>1. IsFiniteSet(requests)
  BY DEF CountInv
<1>2. /\ Cardinality(Counted(a)) \in Nat /\ Cardinality(Sends(a)) \in Nat
      /\ Cardinality(Task) \in Nat /\ IsFiniteSet(Sends(a))
  BY <1>1, CountsAreFinite
<1>3. Cardinality(Counted(a)') \in Nat
  <2>1. Counted(a)' \in SUBSET requests'
    BY DEF Counted
  <2> QED
    BY <2>1, FS_Subset, FS_CardinalityType
<1>4. Cardinality(Sends(a)') <= Cardinality(Sends(a)) /\ Cardinality(Sends(a)') \in Nat
  <2>1. Sends(a)' \in SUBSET Sends(a)
    OBVIOUS
  <2> QED
    BY <1>2, <2>1, FS_Subset, FS_CardinalityType
<1>5. Cardinality(Counted(a)) + Cardinality(Sends(a)) <= MaxActive + Cardinality(Task) - 1
  BY DEF CountInv
<1>6. Cardinality(Counted(a)') <= Cardinality(Counted(a))
  OBVIOUS
<1> QED
  BY <1>2, <1>3, <1>4, <1>5, <1>6, ParamsAssumption

LEMMA SubsetStep ==
    ASSUME CountInv, requests' \subseteq requests,
           \A a \in Account : Counted(a)' \subseteq Counted(a),
           \A a \in Account : Sends(a)' \subseteq Sends(a)
    PROVE  CountInv'
<1>1. IsFiniteSet(requests) /\ IsFiniteSet(requests')
  BY FS_Subset DEF CountInv
<1>2. ASSUME NEW a \in Account PROVE Cardinality(Counted(a)') <= Cardinality(Counted(a))
  <2>1. Counted(a)' \in SUBSET Counted(a)
    OBVIOUS
  <2> QED
    BY <1>1, <2>1, CountsAreFinite, FS_Subset
<1> QED
  BY <1>1, <1>2, ShrinkStep

\* A step of handler t that leaves it as h, stores nothing, and starts
\* neither to send nor to revive.
LEMMA QuietHandler ==
    ASSUME CountInv, task \in [Task -> Handler], NEW t \in Task, NEW h,
           task' = [task EXCEPT ![t] = h],
           requests' \subseteq requests,
           h.pc \in Sending => task[t].pc \in Sending /\ h.actor = task[t].actor,
           h.pc \in Reviving =>
              \/ task[t].pc \in Reviving /\ h.rid = task[t].rid
              \/ \A r \in requests' : ~Expired(r)
    PROVE  CountInv'
<1>1. \A u \in Task : task'[u] = IF u = t THEN h ELSE task[u]
  OBVIOUS
<1>2. \A a \in Account : Sends(a)' \subseteq Sends(a)
  BY <1>1 DEF Sends
<1>3. ASSUME NEW a \in Account PROVE Counted(a)' \subseteq Counted(a)
  <2> SUFFICES ASSUME NEW r \in requests', r.sender = a, Expired(r), Revivable(r)'
               PROVE  Revivable(r)
    BY DEF Counted, Expired
  <2> QED
    BY <1>1 DEF Revivable
<1> QED
  BY <1>2, <1>3, SubsetStep

LEMMA EndingHandler ==
    ASSUME CountInv, task \in [Task -> Handler], NEW t \in Task, Finish(t),
           requests' \subseteq requests
    PROVE  CountInv'
BY IdleHandler, QuietHandler DEF Finish, Sending, Reviving

LEMMA GotoHandler ==
    ASSUME CountInv, task \in [Task -> Handler], NEW t \in Task, NEW l, Goto(t, l),
           requests' \subseteq requests,
           l \in Sending => task[t].pc \in Sending,
           l \in Reviving => \A r \in requests' : ~Expired(r)
    PROVE  CountInv'
<1> DEFINE h == [task[t] EXCEPT !.pc = l]
<1>1. h.pc = l /\ h.actor = task[t].actor
  BY DEF Handler
<1>2. task' = [task EXCEPT ![t] = h]
  BY DEF Goto
<1> HIDE DEF h
<1> QED
  BY <1>1, <1>2, QuietHandler

-----------------------------------------------------------------------------
(* The four steps that the bound is about                                  *)

\* The count: the requests it does not see are expired ones in the hands of
\* renewals, of which there is one at most for every other handler that does
\* not itself send.
LEMMA CountingStep ==
    ASSUME IInv, CountInv, NEW t \in Task, NEW s \in Account, s = task[t].actor,
           At(t, "s_count"), HasRoom(s), Goto(t, "s_resolve"), UNCHANGED requests
    PROVE  CountInv'
<1> DEFINE R == {u \in Task : task[u].pc \in Reviving}
           Z == {r \in requests : r.sender = s /\ Expired(r) /\ Revivable(r)}
<1>0. task \in [Task -> Handler] /\ IsFiniteSet(requests)
  BY DEF IInv, TypeOK, CountInv
<1>1. /\ \A u \in Task : u # t => task'[u] = task[u]
      /\ task'[t].pc = "s_resolve" /\ task'[t].actor = s
  BY <1>0 DEF Goto, Handler
<1>2. \A r \in requests : Revivable(r)' <=> Revivable(r)
  BY <1>1 DEF Revivable, Reviving, At
<1>3. \A a \in Account : Counted(a)' = Counted(a)
  BY <1>2 DEF Counted, Expired
<1>5. IsFiniteSet(Z) /\ Cardinality(Z) <= Cardinality(R) /\ IsFiniteSet(R)
  <2> DEFINE f == [u \in R |-> CHOOSE r \in requests : r.rid = task[u].rid]
  <2>1. ASSUME NEW r \in Z PROVE \E u \in R : f[u] = r
    <3>1. PICK u \in R : task[u].rid = r.rid
      BY DEF Revivable
    <3>2. \A q \in requests : q.rid = task[u].rid => q = r
      BY <3>1 DEF IInv, IdsUnique
    <3> QED
      BY <3>1, <3>2
  <2>2. IsFiniteSet(R)
    <3>1. R \in SUBSET Task
      OBVIOUS
    <3> QED
      BY <3>1, TaskAssumption, FS_Subset
  <2> HIDE DEF f, R, Z
  <2> QED
    BY <2>1, <2>2, ImageBound
<1>6. Cardinality(Counted(s)) <= Cardinality(ActiveOf(s)) + Cardinality(R)
  <2>1. Counted(s) = ActiveOf(s) \cup Z /\ ActiveOf(s) \cap Z = {}
    BY DEF Counted, ActiveOf
  <2>2. Cardinality(Counted(s)) = Cardinality(ActiveOf(s)) + Cardinality(Z)
    <3> HIDE DEF Z
    <3>1. Cardinality(ActiveOf(s) \cap Z) = 0
      BY <2>1, FS_EmptySet
    <3>2. /\ IsFiniteSet(ActiveOf(s)) /\ Cardinality(ActiveOf(s)) \in Nat
          /\ IsFiniteSet(Z) /\ Cardinality(Z) \in Nat
      BY <1>0, <1>5, CountsAreFinite, FS_CardinalityType
    <3>3. Cardinality(Counted(s))
            = Cardinality(ActiveOf(s)) + Cardinality(Z) - Cardinality(ActiveOf(s) \cap Z)
      BY <2>1, <3>2, FS_Union
    <3> QED
      BY <3>1, <3>2, <3>3
  <2> HIDE DEF Z, R
  <2> QED
    BY <1>0, <1>5, <2>2, CountsAreFinite, FS_CardinalityType
<1>7. /\ Cardinality(R) + Cardinality(Sends(s)') <= Cardinality(Task)
      /\ Cardinality(R) \in Nat /\ Cardinality(Sends(s)') \in Nat
  <2>1. R \cap Sends(s)' = {} /\ R \cup Sends(s)' \in SUBSET Task
    BY <1>1 DEF Sends, Sending, Reviving, At
  <2>2. IsFiniteSet(Sends(s)')
    <3>1. Sends(s)' \in SUBSET Task
      BY <2>1
    <3> QED
      BY <3>1, TaskAssumption, FS_Subset
  <2> HIDE DEF R
  <2>3. Cardinality(R \cup Sends(s)') <= Cardinality(Task)
    BY <2>1, TaskAssumption, FS_Subset
  <2>4. Cardinality(R \cup Sends(s)') = Cardinality(R) + Cardinality(Sends(s)')
    <3>1. Cardinality(R \cap Sends(s)') = 0
      BY <2>1, FS_EmptySet
    <3>2. Cardinality(R) \in Nat /\ Cardinality(Sends(s)') \in Nat
      BY <1>5, <2>2, FS_CardinalityType
    <3>3. Cardinality(R \cup Sends(s)')
            = Cardinality(R) + Cardinality(Sends(s)') - Cardinality(R \cap Sends(s)')
      BY <1>5, <2>2, FS_Union
    <3> QED
      BY <3>1, <3>2, <3>3
  <2> QED
    BY <1>5, <2>2, <2>3, <2>4, FS_CardinalityType
<1>8. Cardinality(Counted(s)') + Cardinality(Sends(s)') <= MaxActive + Cardinality(Task) - 1
  <2>1. Cardinality(ActiveOf(s)) < MaxActive
    BY DEF HasRoom
  <2>2. Counted(s)' = Counted(s)
    BY <1>3
  <2> HIDE DEF R
  <2> QED
    BY <1>0, <1>6, <1>7, <2>1, <2>2, CountsAreFinite, ParamsAssumption
<1>9. ASSUME NEW a \in Account, a # s
      PROVE  Cardinality(Counted(a)') + Cardinality(Sends(a)') <= MaxActive + Cardinality(Task) - 1
  <2>1. Sends(a)' = Sends(a)
    BY <1>0, <1>1, <1>9 DEF Sends, Sending, At
  <2> QED
    BY <1>3, <2>1 DEF CountInv
<1> QED
  BY <1>0, <1>8, <1>9 DEF CountInv

\* The insert: the sender has one request more and one send less.
LEMMA InsertingStep ==
    ASSUME IInv, CountInv, NEW t \in Task, NEW s \in Account, s = task[t].actor,
           At(t, "s_insert"), Finish(t),
           NEW r, r.sender = s, requests' = requests \cup {r}
    PROVE  CountInv'
<1>0. task \in [Task -> Handler] /\ IsFiniteSet(requests)
  BY DEF IInv, TypeOK, CountInv
<1>1. /\ \A u \in Task : u # t => task'[u] = task[u]
      /\ task'[t].pc = "idle"
  BY <1>0, IdleHandler DEF Finish
<1>2. \A q \in requests : Revivable(q)' => Revivable(q)
  BY <1>1 DEF Revivable, Reviving
<1>3. \A a \in Account : Counted(a)' \subseteq Counted(a) \cup (IF a = s THEN {r} ELSE {})
  BY <1>2 DEF Counted, Expired
<1>4. IsFiniteSet(requests')
  BY <1>0, FS_AddElement
<1>5. t \in Sends(s) /\ Sends(s)' = Sends(s) \ {t}
  BY <1>1 DEF Sends, Sending, At
<1>6. Cardinality(Sends(s)') = Cardinality(Sends(s)) - 1
  BY <1>0, <1>5, CountsAreFinite, FS_RemoveElement
<1>7. Cardinality(Counted(s)') <= Cardinality(Counted(s)) + 1 /\ Cardinality(Counted(s)') \in Nat
  <2>1. IsFiniteSet(Counted(s)) /\ Cardinality(Counted(s)) \in Nat
    BY <1>0, CountsAreFinite
  <2>2. IsFiniteSet(Counted(s) \cup {r}) /\ Cardinality(Counted(s) \cup {r}) <= Cardinality(Counted(s)) + 1
    BY <2>1, FS_AddElement
  <2>3. Counted(s)' \in SUBSET (Counted(s) \cup {r})
    BY <1>3, <1>5
  <2>4. IsFiniteSet(Counted(s)') /\ Cardinality(Counted(s)') <= Cardinality(Counted(s) \cup {r})
    BY <2>2, <2>3, FS_Subset
  <2> QED
    BY <2>1, <2>2, <2>4, FS_CardinalityType
<1>8. Cardinality(Counted(s)') + Cardinality(Sends(s)') <= MaxActive + Cardinality(Task) - 1
  <2>1. Cardinality(Counted(s)) + Cardinality(Sends(s)) <= MaxActive + Cardinality(Task) - 1
    BY <1>5 DEF CountInv
  <2> QED
    BY <1>0, <1>6, <1>7, <2>1, CountsAreFinite, ParamsAssumption
<1>9. ASSUME NEW a \in Account, a # s
      PROVE  Cardinality(Counted(a)') + Cardinality(Sends(a)') <= MaxActive + Cardinality(Task) - 1
  <2>1. Counted(a)' \in SUBSET Counted(a) /\ Sends(a)' = Sends(a)
    BY <1>1, <1>3, <1>9 DEF Sends, Sending
  <2>2. Cardinality(Counted(a)') <= Cardinality(Counted(a)) /\ Cardinality(Counted(a)') \in Nat
    BY <1>0, <2>1, CountsAreFinite, FS_Subset, FS_CardinalityType
  <2>3. Cardinality(Counted(a)) + Cardinality(Sends(a)) <= MaxActive + Cardinality(Task) - 1
    BY DEF CountInv
  <2> QED
    BY <1>0, <2>1, <2>2, <2>3, CountsAreFinite, ParamsAssumption
<1> QED
  BY <1>4, <1>8, <1>9 DEF CountInv

\* A step that replaces rows one for one and counts none that did not count.
LEMMA ReplacingStep ==
    ASSUME CountInv, NEW f, requests' = {f[r] : r \in requests},
           \A a \in Account : \A r \in requests :
              f[r] \in Counted(a)' => r \in Counted(a),
           \A a \in Account : Sends(a)' \subseteq Sends(a)
    PROVE  CountInv'
<1>1. IsFiniteSet(requests) /\ \A q \in requests' : \E r \in requests : f[r] = q
  BY DEF CountInv
<1>2. IsFiniteSet(requests')
  BY <1>1, ImageBound
<1>3. ASSUME NEW a \in Account PROVE Cardinality(Counted(a)') <= Cardinality(Counted(a))
  <2>1. ASSUME NEW q \in Counted(a)' PROVE \E r \in Counted(a) : f[r] = q
    <3>1. q \in requests'
      BY DEF Counted
    <3>2. PICK r \in requests : f[r] = q
      BY <1>1, <3>1
    <3> QED
      BY <3>2
  <2>2. IsFiniteSet(Counted(a))
    BY <1>1, CountsAreFinite
  <2> QED
    BY <2>1, <2>2, ImageBound
<1> QED
  BY <1>2, <1>3, ShrinkStep

\* The UPDATE of a renewal: the row it changes was counted already.
LEMMA RenewingStep ==
    ASSUME IInv, CountInv, NEW t \in Task, RenewWrite(t)
    PROVE  CountInv'
<1> DEFINE f == [r \in requests |-> IF r.rid = task[t].rid THEN Extended(r, task[t].lease) ELSE r]
<1>0. task \in [Task -> Handler] /\ requests \subseteq Row
  BY DEF IInv, TypeOK
<1>1. /\ \A u \in Task : u # t => task'[u] = task[u]
      /\ task'[t].pc = "idle"
  BY <1>0, IdleHandler DEF RenewWrite, Finish
<1>2. requests' = {f[r] : r \in requests}
  BY DEF RenewWrite
<1>3. \A r \in requests : f[r].sender = r.sender /\ f[r].rid = r.rid
  BY <1>0 DEF Extended, Row
<1>4. ASSUME NEW a \in Account, NEW r \in requests, f[r] \in Counted(a)'
      PROVE  r \in Counted(a)
  <2>1. r.sender = a
    BY <1>3, <1>4 DEF Counted
  <2>2. CASE r.rid = task[t].rid
    BY <2>1, <2>2 DEF RenewWrite, At, Counted, Revivable, Reviving
  <2>3. CASE r.rid # task[t].rid
    <3>1. f[r] = r
      BY <2>3
    <3> HIDE DEF f
    <3>2. ~Expired(r) \/ Revivable(r)'
      BY <1>4, <3>1 DEF Counted, Expired
    <3> QED
      BY <1>1, <2>1, <3>2 DEF Counted, Revivable, Reviving
  <2> QED
    BY <2>2, <2>3
<1>5. \A a \in Account : Sends(a)' \subseteq Sends(a)
  BY <1>1 DEF Sends, Sending
<1> HIDE DEF f
<1> QED
  BY <1>2, <1>4, <1>5, ReplacingStep

\* The clock only expires requests.
LEMMA AgeingStep ==
    ASSUME IInv, CountInv, Tick
    PROVE  CountInv'
<1> DEFINE f == [r \in requests |-> [r EXCEPT !.lease = Earlier(r.lease), !.hard = Earlier(r.hard)]]
<1>0. task \in [Task -> Handler] /\ requests \subseteq Row
  BY DEF IInv, TypeOK
<1>1. \A u \in Task : /\ task'[u].pc = task[u].pc /\ task'[u].rid = task[u].rid
                      /\ task'[u].actor = task[u].actor
  BY <1>0 DEF Tick, Handler
<1>2. requests' = {f[r] : r \in requests}
  BY DEF Tick
<1>3. \A r \in requests : /\ f[r].sender = r.sender /\ f[r].rid = r.rid
                          /\ f[r].lease = Earlier(r.lease) /\ f[r].hard = Earlier(r.hard)
  BY <1>0 DEF Row
<1> HIDE DEF f
<1>4. ASSUME NEW a \in Account, NEW r \in requests, NEW q, q = f[r], q \in Counted(a)'
      PROVE  r \in Counted(a)
  <2>1. r.sender = a /\ (~Expired(q) \/ Revivable(q)')
    BY <1>3, <1>4 DEF Counted, Expired
  <2>2. Expired(r) => Expired(q)
    BY <1>3, <1>4 DEF Expired, Earlier
  <2>3. Revivable(q)' => Revivable(r)
    BY <1>1, <1>3, <1>4 DEF Revivable
  <2> QED
    BY <2>1, <2>2, <2>3 DEF Counted
<1>5. \A a \in Account : Sends(a)' \subseteq Sends(a)
  BY <1>1 DEF Sends
<1> QED
  BY <1>2, <1>4, <1>5, ReplacingStep

-----------------------------------------------------------------------------
(* Every step                                                              *)

LEMMA SendCountInv ==
    ASSUME IInv, CountInv, NEW t \in Task, SendStep(t)
    PROVE  CountInv'
<1> USE DEF Sending, Reviving
<1>0. task \in [Task -> Handler]
  BY DEF IInv, TypeOK
<1>1. ASSUME NEW s \in Account, NEW p \in Account \cup {Unknown}, NEW c \in ClientId,
             SendStart(t, s, p, c)
      PROVE  CountInv'
  <2> DEFINE h == [Idle EXCEPT !.pc = "s_expire", !.actor = s, !.peer = p, !.client = c]
  <2>1. h.pc = "s_expire" /\ task' = [task EXCEPT ![t] = h] /\ requests' = requests
    BY <1>1 DEF SendStart, Begin, Idle
  <2> HIDE DEF h
  <2> QED
    BY <1>0, <2>1, QuietHandler
<1>2. CASE SendExpire(t)
  BY <1>0, <1>2, GotoHandler DEF SendExpire, RemoveExpired
<1>3. CASE SendLookup(t)
  BY <1>0, <1>3, GotoHandler, EndingHandler DEF SendLookup
<1>4. CASE SendCount(t)
  <2>1. CASE Finish(t)
    BY <1>0, <1>4, <2>1, EndingHandler DEF SendCount
  <2>2. CASE HasRoom(task[t].actor) /\ Goto(t, "s_resolve")
    <3>1. task[t].actor \in Account
      BY <1>4 DEF SendCount, At, IInv, ArgumentsOK
    <3> QED
      BY <1>4, <2>2, <3>1, CountingStep DEF SendCount
  <2> QED
    BY <1>4, <2>1, <2>2 DEF SendCount
<1>5. CASE SendResolve(t)
  <2>1. CASE Finish(t)
    BY <1>0, <1>5, <2>1, EndingHandler DEF SendResolve
  <2>2. ASSUME NEW id \in Fresh,
               task' = [task EXCEPT ![t].pc = "s_check", ![t].rid = id,
                                    ![t].lease = LeaseTTL, ![t].hard = HardTTL]
        PROVE  CountInv'
    <3> DEFINE h == [task[t] EXCEPT !.pc = "s_check", !.rid = id,
                                    !.lease = LeaseTTL, !.hard = HardTTL]
    <3>1. task' = [task EXCEPT ![t] = h]
      BY <1>0, <2>2
    <3>2. task[t] \in Handler /\ task[t].pc = "s_resolve" /\ requests' = requests
      BY <1>0, <1>5 DEF SendResolve, At
    <3>3. h.pc = "s_check" /\ h.actor = task[t].actor
      BY <3>2 DEF Handler
    <3> HIDE DEF h
    <3> QED
      BY <1>0, <3>1, <3>2, <3>3, QuietHandler
  <2> QED
    BY <1>5, <2>1, <2>2 DEF SendResolve
<1>6. CASE SendCheck(t)
  BY <1>0, <1>6, GotoHandler, EndingHandler DEF SendCheck, At
<1>7. CASE SendInsert(t)
  <2>1. CASE UNCHANGED requests
    BY <1>0, <1>7, <2>1, EndingHandler DEF SendInsert
  <2>2. CASE ~UNCHANGED requests
    <3>1. task[t].actor \in Account
      BY <1>7 DEF SendInsert, At, IInv, ArgumentsOK
    <3>2. PICK r : r.sender = task[t].actor /\ requests' = requests \cup {r}
      BY <1>7, <2>2 DEF SendInsert
    <3> QED
      BY <1>7, <3>1, <3>2, InsertingStep DEF SendInsert
  <2> QED
    BY <2>1, <2>2
<1> QED
  BY <1>1, <1>2, <1>3, <1>4, <1>5, <1>6, <1>7 DEF SendStep

LEMMA RenewCountInv ==
    ASSUME IInv, CountInv, NEW t \in Task, RenewStep(t)
    PROVE  CountInv'
<1> USE DEF Sending, Reviving
<1>0. task \in [Task -> Handler]
  BY DEF IInv, TypeOK
<1>1. ASSUME NEW s \in Account, NEW id \in RequestId, RenewStart(t, s, id) PROVE CountInv'
  <2> DEFINE h == [Idle EXCEPT !.pc = "r_expire", !.actor = s, !.rid = id]
  <2>1. h.pc = "r_expire" /\ task' = [task EXCEPT ![t] = h] /\ requests' = requests
    BY <1>1 DEF RenewStart, Begin, Idle
  <2> HIDE DEF h
  <2> QED
    BY <1>0, <2>1, QuietHandler
<1>2. CASE RenewExpire(t)
  BY <1>0, <1>2, GotoHandler DEF RenewExpire, RemoveExpired
<1>3. CASE RenewRead(t)
  <2>1. CASE Finish(t)
    BY <1>0, <1>3, <2>1, EndingHandler DEF RenewRead
  <2>2. ASSUME NEW r \in Owned(task[t].rid, task[t].actor),
               task' = [task EXCEPT ![t].pc = "r_stamp", ![t].hard = r.hard]
        PROVE  CountInv'
    <3> DEFINE h == [task[t] EXCEPT !.pc = "r_stamp", !.hard = r.hard]
    <3>1. task' = [task EXCEPT ![t] = h]
      BY <1>0, <2>2
    <3>2. h.pc = "r_stamp" /\ h.rid = task[t].rid /\ task[t].pc = "r_read" /\ requests' = requests
      BY <1>0, <1>3 DEF RenewRead, At, Handler
    <3> HIDE DEF h
    <3> QED
      BY <1>0, <3>1, <3>2, QuietHandler
  <2> QED
    BY <1>3, <2>1, <2>2 DEF RenewRead
<1>4. CASE RenewStamp(t)
  <2> DEFINE h == [task[t] EXCEPT !.pc = "r_write", !.lease = RenewedLease(task[t].hard)]
  <2>1. task' = [task EXCEPT ![t] = h] /\ requests' = requests
    BY <1>0, <1>4 DEF RenewStamp
  <2>2. h.pc = "r_write" /\ h.rid = task[t].rid /\ task[t].pc = "r_stamp"
    BY <1>0, <1>4 DEF RenewStamp, At, Handler
  <2> HIDE DEF h
  <2> QED
    BY <1>0, <2>1, <2>2, QuietHandler
<1>5. CASE RenewWrite(t)
  BY <1>5, RenewingStep
<1> QED
  BY <1>1, <1>2, <1>3, <1>4, <1>5 DEF RenewStep

LEMMA OtherCountInv ==
    ASSUME IInv, CountInv, NEW t \in Task, CancelStep(t) \/ BlockStep(t) \/ Abort(t)
    PROVE  CountInv'
<1> USE DEF Sending, Reviving
<1>0. task \in [Task -> Handler]
  BY DEF IInv, TypeOK
<1>1. ASSUME NEW h, Begin(t, h), UNCHANGED requests, h.pc \in {"c_read", "b_insert"} PROVE CountInv'
  BY <1>0, <1>1, QuietHandler DEF Begin
<1>2. ASSUME NEW s \in Account, NEW id \in RequestId, CancelStart(t, s, id) PROVE CountInv'
  <2> DEFINE h == [Idle EXCEPT !.pc = "c_read", !.actor = s, !.rid = id]
  <2>1. Begin(t, h) /\ UNCHANGED requests /\ h.pc = "c_read"
    BY <1>2 DEF CancelStart, Idle
  <2> HIDE DEF h
  <2> QED
    BY <1>1, <2>1
<1>3. ASSUME NEW b \in Account, NEW p \in Account, BlockStart(t, b, p) PROVE CountInv'
  <2> DEFINE h == [Idle EXCEPT !.pc = "b_insert", !.actor = b, !.peer = p]
  <2>1. Begin(t, h) /\ UNCHANGED requests /\ h.pc = "b_insert"
    BY <1>3 DEF BlockStart, Idle
  <2> HIDE DEF h
  <2> QED
    BY <1>1, <2>1
<1>4. CASE CancelRead(t) \/ CancelDelete(t)
  BY <1>0, <1>4, GotoHandler, EndingHandler DEF CancelRead, CancelDelete
<1>5. CASE BlockInsert(t) \/ BlockDelete(t)
  BY <1>0, <1>5, GotoHandler DEF BlockInsert, BlockDelete
<1>6. CASE BlockReply(t) \/ BlockVanished(t) \/ Abort(t)
  BY <1>0, <1>6, EndingHandler DEF BlockReply, BlockVanished, Abort
<1> QED
  BY <1>2, <1>3, <1>4, <1>5, <1>6 DEF CancelStep, BlockStep

LEMMA StepCountInv == IInv /\ CountInv /\ [Next]_vars => CountInv'
<1> SUFFICES ASSUME IInv, CountInv, [Next]_vars PROVE CountInv'
  OBVIOUS
<1>1. ASSUME task' = task, requests' \subseteq requests PROVE CountInv'
  <2>1. \A a \in Account : Sends(a)' \subseteq Sends(a)
    BY <1>1 DEF Sends
  <2>2. \A a \in Account : Counted(a)' \subseteq Counted(a)
    BY <1>1 DEF Counted, Expired, Revivable
  <2> QED
    BY <1>1, <2>1, <2>2, SubsetStep
<1>2. CASE Cleanup \/ Restart \/ UNCHANGED vars \/ \E b, p \in Account : Unblock(b, p)
  BY <1>1, <1>2 DEF Cleanup, Restart, RemoveExpired, Unblock, vars
<1>3. CASE Crash
  <2>1. requests' = requests /\ \A u \in Task : task'[u].pc = "idle"
    BY <1>3, IdleHandler DEF Crash
  <2>2. \A a \in Account : Sends(a)' \subseteq Sends(a)
    BY <2>1 DEF Sends, Sending
  <2>3. \A a \in Account : Counted(a)' \subseteq Counted(a)
    BY <2>1 DEF Counted, Expired, Revivable, Reviving
  <2> QED
    BY <2>1, <2>2, <2>3, SubsetStep
<1> QED
  BY <1>2, <1>3, SendCountInv, RenewCountInv, OtherCountInv, AgeingStep DEF Next, Environment

LEMMA InitCountInv == Init => CountInv
<1> SUFFICES ASSUME Init PROVE CountInv
  OBVIOUS
<1>1. IsFiniteSet(requests)
  BY FS_EmptySet DEF Init
<1>2. ASSUME NEW a \in Account
      PROVE  Cardinality(Counted(a)) + Cardinality(Sends(a)) <= MaxActive + Cardinality(Task) - 1
  <2>1. Counted(a) = {} /\ Sends(a) = {}
    BY IdleHandler DEF Init, Counted, Sends, Sending
  <2> QED
    BY <1>1, <2>1, CountsAreFinite, FS_EmptySet, ParamsAssumption
<1> QED
  BY <1>1, <1>2 DEF CountInv

\* A sender exceeds the limit by at most one request for every other handler
\* that can run at the same time, whatever the limit and their number.
THEOREM LimitHolds == Spec => []ActiveBounded
<1>1. IInv /\ CountInv => ActiveBounded
  <2> SUFFICES ASSUME CountInv, NEW a \in Account
               PROVE  Cardinality(ActiveOf(a)) <= MaxActive + Cardinality(Task) - 1
    BY DEF ActiveBounded
  <2>1. Cardinality(Counted(a)) + Cardinality(Sends(a)) <= MaxActive + Cardinality(Task) - 1
    BY DEF CountInv
  <2> QED
    BY <2>1, CountsAreFinite, ParamsAssumption DEF CountInv
<1>2. Init => CountInv
  BY InitCountInv
<1>3. IInv /\ CountInv /\ [Next]_vars => CountInv'
  BY StepCountInv
<1> QED
  BY <1>1, <1>2, <1>3, Invariant, PTL DEF Spec

=============================================================================
