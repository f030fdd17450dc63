---------------------- MODULE LiveChatRefinementProofs ----------------------
(* The step simulation behind LiveChatRefinement: under the invariant of   *)
(* LiveChat every step of every handler is a step of RequestBook or leaves *)
(* the book, the blocks and the mandates alone.                            *)
EXTENDS LiveChatRefinement, LiveChatProofs

\* What one handler's step does to the mandates.
LEMMA MandatesStep ==
    ASSUME task \in [Task -> Handler], NEW t \in Task, NEW h,
           task' = [task EXCEPT ![t] = h]
    PROVE  /\ mandates' \subseteq mandates \cup MandateOf(h)
           /\ mandates \subseteq mandates' \cup MandateOf(task[t])
           /\ MandateOf(h) \subseteq mandates'
           /\ MandateOf(task[t]) \subseteq mandates
<1>1. \A u \in Task : task'[u] = IF u = t THEN h ELSE task[u]
  OBVIOUS
<1>2. mandates' = UNION {MandateOf(task'[u]) : u \in Task}
  BY DEF mandates, MandateOf, RowOf
<1> HIDE DEF MandateOf
<1>3. MandateOf(task[t]) \subseteq mandates
  BY DEF mandates
<1>4. MandateOf(h) \subseteq mandates'
  BY <1>1, <1>2
<1>5. mandates' \subseteq mandates \cup MandateOf(h)
  <2> SUFFICES ASSUME NEW m \in mandates', m \notin MandateOf(h) PROVE m \in mandates
    OBVIOUS
  <2>1. PICK u \in Task : m \in MandateOf(task'[u])
    BY <1>2
  <2>2. u # t
    BY <1>1, <2>1
  <2> QED
    BY <1>1, <2>1, <2>2 DEF mandates
<1>6. mandates \subseteq mandates' \cup MandateOf(task[t])
  <2> SUFFICES ASSUME NEW m \in mandates, m \notin MandateOf(task[t]) PROVE m \in mandates'
    OBVIOUS
  <2>1. PICK u \in Task : m \in MandateOf(task[u])
    BY DEF mandates
  <2>2. u # t
    BY <2>1
  <2> QED
    BY <1>1, <1>2, <2>1, <2>2
<1> QED
  BY <1>3, <1>4, <1>5, <1>6

LEMMA NoMandate ==
    ASSUME NEW h, h.pc \notin {"s_insert", "r_stamp", "r_write", "c_delete", "b_delete"}
    PROVE  MandateOf(h) = {}
BY DEF MandateOf

LEMMA QuietStep ==
    ASSUME task \in [Task -> Handler], NEW t \in Task, NEW h,
           task' = [task EXCEPT ![t] = h],
           MandateOf(h) = MandateOf(task[t])
    PROVE  mandates' = mandates
BY MandatesStep

LEMMA LosingStep ==
    ASSUME task \in [Task -> Handler], NEW t \in Task, Finish(t)
    PROVE  mandates' \subseteq mandates
<1>1. MandateOf(Idle) = {}
  BY IdleHandler, NoMandate
<1> QED
  BY <1>1, MandatesStep DEF Finish

LEMMA SpendingStep ==
    ASSUME task \in [Task -> Handler], NEW t \in Task, Finish(t),
           NEW m, MandateOf(task[t]) = {m}
    PROVE  m \in mandates /\ Book!Spend(m)
<1>1. mandates' \subseteq mandates
  BY LosingStep
<1>2. mandates \subseteq mandates' \cup {m} /\ m \in mandates
  BY MandatesStep DEF Finish
<1> QED
  BY <1>1, <1>2 DEF Book!Spend

LEMMA DecidingStep ==
    ASSUME task \in [Task -> Handler], NEW t \in Task, NEW h,
           task' = [task EXCEPT ![t] = h],
           NEW m, MandateOf(h) = {m}, MandateOf(task[t]) = {}
    PROVE  Book!Decide(m)
BY MandatesStep DEF Book!Decide

\* Steps from one statement to the next that decide nothing.
LEMMA GotoStutter ==
    ASSUME task \in [Task -> Handler], NEW t \in Task, NEW l, Goto(t, l),
           {l, task[t].pc} \cap {"s_insert", "r_stamp", "r_write", "c_delete", "b_delete"} = {}
    PROVE  mandates' = mandates
<1> DEFINE h == [task[t] EXCEPT !.pc = l]
<1>1. h.pc = l
  BY DEF Handler
<1>2. MandateOf(h) = {} /\ MandateOf(task[t]) = {}
  BY <1>1, NoMandate
<1>3. task' = [task EXCEPT ![t] = h]
  BY DEF Goto
<1> HIDE DEF h
<1> QED
  BY <1>2, <1>3, QuietStep

\* Steps after which the handler is gone and the tables are as they were.
LEMMA FinishLoses ==
    ASSUME task \in [Task -> Handler], NEW t \in Task, Finish(t), UNCHANGED <<requests, blocks>>
    PROVE  Book!Lose
BY LosingStep DEF Book!Lose

LEMMA ExpireForgets ==
    ASSUME RemoveExpired, UNCHANGED blocks, mandates' = mandates
    PROVE  Book!Forget
BY DEF RemoveExpired, Expired, Book!Forget, Book!Lapsed

LEMMA BeginStutter ==
    ASSUME task \in [Task -> Handler], NEW t \in Task, NEW h, Begin(t, h),
           h.pc \in {"s_expire", "r_expire", "c_read", "b_insert"}
    PROVE  mandates' = mandates
<1>1. MandateOf(h) = {} /\ MandateOf(task[t]) = {}
  BY NoMandate DEF Begin
<1> QED
  BY <1>1, QuietStep DEF Begin

-----------------------------------------------------------------------------
(* sendLiveChatRequest                                                     *)

LEMMA SendSimulates ==
    ASSUME IInv, NEW t \in Task, SendStep(t)
    PROVE  [Book!Next]_(Book!vars)
<1> USE DEF Book!vars
<1>0. task \in [Task -> Handler]
  BY DEF IInv, TypeOK
<1>1. ASSUME NEW s \in Account, NEW p \in Account \cup {Unknown}, NEW c \in ClientId,
             SendStart(t, s, p, c)
      PROVE  UNCHANGED Book!vars
  <2> DEFINE h == [Idle EXCEPT !.pc = "s_expire", !.actor = s, !.peer = p, !.client = c]
  <2>1. h.pc = "s_expire" /\ Begin(t, h)
    BY <1>1 DEF SendStart, Idle
  <2> HIDE DEF h
  <2> QED
    BY <1>0, <1>1, <2>1, BeginStutter DEF SendStart
<1>2. CASE SendExpire(t)
  <2>1. mandates' = mandates
    BY <1>0, <1>2, GotoStutter DEF SendExpire, At
  <2> QED
    BY <1>2, <2>1, ExpireForgets DEF SendExpire, Book!Next
<1>3. CASE SendLookup(t)
  <2>1. CASE Finish(t)
    BY <1>0, <1>3, <2>1, FinishLoses DEF SendLookup, Book!Next
  <2>2. CASE Goto(t, "s_count")
    BY <1>0, <1>3, <2>2, GotoStutter DEF SendLookup, At
  <2> QED
    BY <1>3, <2>1, <2>2 DEF SendLookup
<1>4. CASE SendCount(t)
  <2>1. CASE Finish(t)
    BY <1>0, <1>4, <2>1, FinishLoses DEF SendCount, Book!Next
  <2>2. CASE Goto(t, "s_resolve")
    BY <1>0, <1>4, <2>2, GotoStutter DEF SendCount, At
  <2> QED
    BY <1>4, <2>1, <2>2 DEF SendCount
<1>5. CASE SendResolve(t)
  <2>1. CASE Finish(t)
    BY <1>0, <1>5, <2>1, FinishLoses DEF SendResolve, Book!Next
  <2>2. ASSUME NEW id \in Fresh,
               task' = [task EXCEPT ![t].pc = "s_check", ![t].rid = id,
                                    ![t].lease = LeaseTTL, ![t].hard = HardTTL]
        PROVE  mandates' = mandates
    <3> DEFINE h == [task[t] EXCEPT !.pc = "s_check", !.rid = id,
                                    !.lease = LeaseTTL, !.hard = HardTTL]
    <3>1. task' = [task EXCEPT ![t] = h]
      BY <1>0, <2>2
    <3>2. task[t] \in Handler /\ task[t].pc = "s_resolve"
      BY <1>0, <1>5 DEF SendResolve, At
    <3>3. h.pc = "s_check"
      BY <3>2 DEF Handler
    <3> HIDE DEF h
    <3>4. MandateOf(h) = {} /\ MandateOf(task[t]) = {}
      BY <3>2, <3>3, NoMandate
    <3> QED
      BY <1>0, <3>1, <3>4, QuietStep
  <2> QED
    BY <1>5, <2>1, <2>2 DEF SendResolve
<1>6. CASE SendCheck(t)
  <2>1. CASE Finish(t)
    BY <1>0, <1>6, <2>1, FinishLoses DEF SendCheck, Book!Next
  <2>2. CASE Accepts(task[t].peer, task[t].actor) /\ Goto(t, "s_insert")
    <3> DEFINE h == [task[t] EXCEPT !.pc = "s_insert"]
               r == RowOf(task[t])
    <3>1. task[t].pc = "s_check" /\ task[t] \in Handler
      BY <1>0, <1>6 DEF SendCheck, At
    <3>2. /\ task[t].rid \in RequestId /\ task[t].client \in ClientId
          /\ task[t].actor \in Account /\ task[t].peer \in Account
          /\ task[t].lease <= task[t].hard
      BY <3>1 DEF IInv, ArgumentsOK, SendResolved, NewLeaseWithinHard, Minting, SendPc
    <3>3. r \in Book!Request
      BY <3>1, <3>2 DEF RowOf, Handler, Book!Request
    <3>4. r.lease <= r.hard /\ r.sender # r.recipient /\ <<r.recipient, r.sender>> \notin blocks
      BY <2>2, <3>2 DEF RowOf, Accepts
    <3>5. Book!Unused(r.rid)
      <4>1. \A q \in requests : q.rid # r.rid
        BY <3>1 DEF IInv, MintedIdsUnused, Minting, RowOf
      <4>2. ASSUME NEW m \in mandates, m.op = "store" PROVE m.row.rid # r.rid
        <5>1. PICK u \in Task : m \in MandateOf(task[u])
          BY DEF mandates
        <5>2. task[u].pc = "s_insert" /\ m.row = RowOf(task[u])
          BY <4>2, <5>1 DEF MandateOf
        <5>3. u # t => task[u].rid # task[t].rid
          BY <3>1, <5>2 DEF IInv, MintedIdsUnused, Minting, Bound
        <5> QED
          BY <3>1, <5>2, <5>3 DEF RowOf
      <4> QED
        BY <4>1, <4>2 DEF Book!Unused
    <3>6. h.pc = "s_insert" /\ RowOf(h) = r /\ task' = [task EXCEPT ![t] = h]
      BY <2>2, <3>1 DEF Goto, Handler, RowOf
    <3>7. MandateOf(h) = {Book!ToStore(r)} /\ MandateOf(task[t]) = {}
      BY <3>1, <3>6 DEF MandateOf, Book!ToStore
    <3>8. Book!Decide(Book!ToStore(r))
      <4> HIDE DEF h, r
      <4> QED
        BY <1>0, <3>6, <3>7, DecidingStep
    <3> QED
      <4> HIDE DEF r
      <4> QED
        BY <1>6, <3>3, <3>4, <3>5, <3>8 DEF SendCheck, Book!DecideSend, Book!Next
  <2> QED
    BY <1>6, <2>1, <2>2 DEF SendCheck
<1>7. CASE SendInsert(t)
  <2> DEFINE r == RowOf(task[t])
  <2>1. CASE IndexAdmits(task[t].actor, task[t].client) /\ requests' = requests \cup {r}
    <3>1. MandateOf(task[t]) = {Book!ToStore(r)}
      BY <1>7 DEF SendInsert, At, MandateOf, Book!ToStore
    <3>2. Book!ToStore(r) \in mandates /\ Book!Spend(Book!ToStore(r))
      BY <1>0, <1>7, <3>1, SpendingStep DEF SendInsert
    <3>3. Book!Store(r)
      BY <1>7, <2>1, <3>2 DEF SendInsert, IndexAdmits, SameKey, RowOf, Book!Store
    <3>4. Book!ToStore(r).op = "store" /\ Book!ToStore(r).row = r
      BY DEF Book!ToStore
    <3> HIDE DEF r
    <3> QED
      BY <3>2, <3>3, <3>4 DEF Book!Next
  <2>2. CASE UNCHANGED requests
    BY <1>0, <1>7, <2>2, FinishLoses DEF SendInsert, Book!Next
  <2> QED
    BY <1>7, <2>1, <2>2 DEF SendInsert, RowOf
<1> QED
  BY <1>1, <1>2, <1>3, <1>4, <1>5, <1>6, <1>7 DEF SendStep

(* renewLiveChatRequest and cancelLiveChatRequest                          *)

LEMMA RenewSimulates ==
    ASSUME IInv, NEW t \in Task, RenewStep(t)
    PROVE  [Book!Next]_(Book!vars)
<1> USE DEF Book!vars
<1>0. task \in [Task -> Handler]
  BY DEF IInv, TypeOK
<1>1. ASSUME NEW s \in Account, NEW id \in RequestId, RenewStart(t, s, id)
      PROVE  UNCHANGED Book!vars
  <2> DEFINE h == [Idle EXCEPT !.pc = "r_expire", !.actor = s, !.rid = id]
  <2>1. h.pc = "r_expire" /\ Begin(t, h)
    BY <1>1 DEF RenewStart, Idle
  <2> HIDE DEF h
  <2> QED
    BY <1>0, <1>1, <2>1, BeginStutter DEF RenewStart
<1>2. CASE RenewExpire(t)
  <2>1. mandates' = mandates
    BY <1>0, <1>2, GotoStutter DEF RenewExpire, At
  <2> QED
    BY <1>2, <2>1, ExpireForgets DEF RenewExpire, Book!Next
<1>3. CASE RenewRead(t)
  <2>1. CASE Finish(t)
    BY <1>0, <1>3, <2>1, FinishLoses DEF RenewRead, Book!Next
  <2>2. ASSUME NEW r \in Owned(task[t].rid, task[t].actor),
               task' = [task EXCEPT ![t].pc = "r_stamp", ![t].hard = r.hard]
        PROVE  Book!DecideRenewal
    <3> DEFINE h == [task[t] EXCEPT !.pc = "r_stamp", !.hard = r.hard]
    <3>1. task' = [task EXCEPT ![t] = h]
      BY <1>0, <2>2
    <3>2. h.pc = "r_stamp" /\ h.rid = r.rid /\ h.actor = r.sender /\ task[t].pc = "r_read"
      BY <1>0, <1>3, <2>2 DEF RenewRead, At, Handler, Owned
    <3> HIDE DEF h
    <3>3. MandateOf(h) = {Book!ToRenew(r.rid, r.sender)} /\ MandateOf(task[t]) = {}
      BY <3>2, NoMandate DEF MandateOf, Book!ToRenew
    <3>4. Book!Decide(Book!ToRenew(r.rid, r.sender))
      BY <1>0, <3>1, <3>3, DecidingStep
    <3> QED
      BY <1>3, <2>2, <3>4 DEF RenewRead, Owned, Book!DecideRenewal
  <2> QED
    BY <1>3, <2>1, <2>2 DEF RenewRead, Book!Next
<1>4. CASE RenewStamp(t)
  <2> DEFINE h == [task[t] EXCEPT !.pc = "r_write", !.lease = RenewedLease(task[t].hard)]
  <2>1. task' = [task EXCEPT ![t] = h]
    BY <1>0, <1>4 DEF RenewStamp
  <2>2. h.pc = "r_write" /\ h.rid = task[t].rid /\ h.actor = task[t].actor /\ task[t].pc = "r_stamp"
    BY <1>0, <1>4 DEF RenewStamp, At, Handler
  <2> HIDE DEF h
  <2>3. MandateOf(h) = MandateOf(task[t])
    BY <2>2 DEF MandateOf
  <2> QED
    BY <1>0, <1>4, <2>1, <2>3, QuietStep DEF RenewStamp
<1>5. CASE RenewWrite(t)
  <2> DEFINE id == task[t].rid
             a == task[t].actor
             m == Book!ToRenew(id, a)
  <2>1. task[t].pc = "r_write" /\ task[t] \in Handler
    BY <1>0, <1>5 DEF RenewWrite, At
  <2>2. MandateOf(task[t]) = {m}
    BY <2>1 DEF MandateOf, Book!ToRenew
  <2>3. m \in mandates /\ Book!Spend(m)
    BY <1>0, <1>5, <2>2, SpendingStep DEF RenewWrite
  <2>4. CASE \A r \in requests : r.rid # id
    <3>1. requests' = requests
      BY <1>5, <2>4 DEF RenewWrite
    <3> QED
      BY <1>0, <1>5, <3>1, FinishLoses DEF RenewWrite, Book!Next
  <2>5. ASSUME NEW r \in requests, r.rid = id PROVE Book!Renew(id, a)
    <3>1. r.sender = a /\ task[t].lease <= r.hard /\ task[t].lease \in 0 .. LeaseTTL
      BY <2>1, <2>5 DEF IInv, RenewalKnowsItsRow, RenewedLeaseWithinHard, Handler
    <3>2. \A q \in requests : q.rid = id => q = r
      BY <2>5 DEF IInv, IdsUnique
    <3>3. requests' = (requests \ {r}) \cup {[r EXCEPT !.lease = task[t].lease]}
      BY <1>5, <2>5, <3>2 DEF RenewWrite, Extended
    <3> HIDE DEF m
    <3> QED
      BY <1>5, <2>3, <2>5, <3>1, <3>3 DEF RenewWrite, Book!Renew, m
  <2>6. m.op = "renew" /\ m.rid = id /\ m.by = a
    BY DEF Book!ToRenew
  <2> HIDE DEF m, id, a
  <2> QED
    BY <2>3, <2>4, <2>5, <2>6 DEF Book!Next
<1> QED
  BY <1>1, <1>2, <1>3, <1>4, <1>5 DEF RenewStep

LEMMA CancelSimulates ==
    ASSUME IInv, NEW t \in Task, CancelStep(t)
    PROVE  [Book!Next]_(Book!vars)
<1> USE DEF Book!vars
<1>0. task \in [Task -> Handler]
  BY DEF IInv, TypeOK
<1>1. ASSUME NEW s \in Account, NEW id \in RequestId, CancelStart(t, s, id)
      PROVE  UNCHANGED Book!vars
  <2> DEFINE h == [Idle EXCEPT !.pc = "c_read", !.actor = s, !.rid = id]
  <2>1. h.pc = "c_read" /\ Begin(t, h)
    BY <1>1 DEF CancelStart, Idle
  <2> HIDE DEF h
  <2> QED
    BY <1>0, <1>1, <2>1, BeginStutter DEF CancelStart
<1>2. CASE CancelRead(t)
  <2>1. CASE Finish(t)
    BY <1>0, <1>2, <2>1, FinishLoses DEF CancelRead, Book!Next
  <2>2. CASE Owned(task[t].rid, task[t].actor) # {} /\ Goto(t, "c_delete")
    <3> DEFINE h == [task[t] EXCEPT !.pc = "c_delete"]
    <3>1. PICK r \in requests : r.rid = task[t].rid /\ r.sender = task[t].actor
      BY <2>2 DEF Owned
    <3>2. task' = [task EXCEPT ![t] = h]
      BY <2>2 DEF Goto
    <3>3. h.pc = "c_delete" /\ h.rid = r.rid /\ h.actor = r.sender /\ task[t].pc = "c_read"
      BY <1>0, <1>2, <3>1 DEF CancelRead, At, Handler
    <3> HIDE DEF h
    <3>4. MandateOf(h) = {Book!ToCancel(r.rid, r.sender)} /\ MandateOf(task[t]) = {}
      BY <3>3, NoMandate DEF MandateOf, Book!ToCancel
    <3>5. Book!Decide(Book!ToCancel(r.rid, r.sender))
      BY <1>0, <3>2, <3>4, DecidingStep
    <3> QED
      BY <1>2, <3>5 DEF CancelRead, Book!DecideCancel, Book!Next
  <2> QED
    BY <1>2, <2>1, <2>2 DEF CancelRead
<1>3. CASE CancelDelete(t)
  <2> DEFINE id == task[t].rid
             a == task[t].actor
             m == Book!ToCancel(id, a)
  <2>1. task[t].pc = "c_delete"
    BY <1>3 DEF CancelDelete, At
  <2>2. MandateOf(task[t]) = {m}
    BY <2>1 DEF MandateOf, Book!ToCancel
  <2>3. m \in mandates /\ Book!Spend(m)
    BY <1>0, <1>3, <2>2, SpendingStep DEF CancelDelete
  <2>4. CASE \A r \in requests : r.rid # id
    <3>1. requests' = requests
      BY <1>3, <2>4 DEF CancelDelete
    <3> QED
      BY <1>0, <1>3, <3>1, FinishLoses DEF CancelDelete, Book!Next
  <2>5. ASSUME NEW r \in requests, r.rid = id PROVE Book!Cancel(id, a)
    <3>1. r.sender = a
      BY <2>1, <2>5 DEF IInv, CancelOwnsItsRow
    <3>2. \A q \in requests : q.rid = id => q = r
      BY <2>5 DEF IInv, IdsUnique
    <3>3. requests' = requests \ {r}
      BY <1>3, <2>5, <3>2 DEF CancelDelete
    <3> HIDE DEF m
    <3> QED
      BY <1>3, <2>3, <2>5, <3>1, <3>3 DEF CancelDelete, Book!Cancel, m
  <2>6. m.op = "cancel" /\ m.rid = id /\ m.by = a
    BY DEF Book!ToCancel
  <2> HIDE DEF m, id, a
  <2> QED
    BY <2>3, <2>4, <2>5, <2>6 DEF Book!Next
<1> QED
  BY <1>1, <1>2, <1>3 DEF CancelStep

-----------------------------------------------------------------------------
(* blockIdentity                                                           *)

LEMMA BlockSimulates ==
    ASSUME IInv, NEW t \in Task, BlockStep(t)
    PROVE  [Book!Next]_(Book!vars)
<1> USE DEF Book!vars
<1>0. task \in [Task -> Handler]
  BY DEF IInv, TypeOK
<1>1. ASSUME NEW b \in Account, NEW p \in Account, BlockStart(t, b, p)
      PROVE  UNCHANGED Book!vars
  <2> DEFINE h == [Idle EXCEPT !.pc = "b_insert", !.actor = b, !.peer = p]
  <2>1. h.pc = "b_insert" /\ Begin(t, h)
    BY <1>1 DEF BlockStart, Idle
  <2> HIDE DEF h
  <2> QED
    BY <1>0, <1>1, <2>1, BeginStutter DEF BlockStart
<1>2. CASE BlockInsert(t)
  <2> DEFINE h == [task[t] EXCEPT !.pc = "b_delete"]
             b == task[t].actor
             s == task[t].peer
  <2>1. task[t] \in Handler /\ task[t].pc = "b_insert"
    BY <1>0, <1>2 DEF BlockInsert, At
  <2>2. b \in Account /\ s \in Account /\ b # s
    BY <2>1 DEF IInv, ArgumentsOK, BlockPc
  <2>3. task' = [task EXCEPT ![t] = h]
    BY <1>2 DEF BlockInsert, Goto
  <2>4. h.pc = "b_delete" /\ h.actor = b /\ h.peer = s
    BY <2>1 DEF Handler
  <2> HIDE DEF h
  <2>5. MandateOf(h) = {Book!ToClear(b, s)} /\ MandateOf(task[t]) = {}
    BY <2>1, <2>4, NoMandate DEF MandateOf, Book!ToClear
  <2>6. Book!Decide(Book!ToClear(b, s))
    BY <1>0, <2>3, <2>5, DecidingStep
  <2>7. Book!Block(b, s)
    BY <1>2, <2>2, <2>6 DEF BlockInsert, Book!Block
  <2> QED
    BY <2>2, <2>7 DEF Book!Next
<1>3. CASE BlockDelete(t)
  <2> DEFINE b == task[t].actor
             s == task[t].peer
             m == Book!ToClear(b, s)
             h == [task[t] EXCEPT !.pc = "b_read"]
  <2>1. task[t] \in Handler /\ task[t].pc = "b_delete"
    BY <1>0, <1>3 DEF BlockDelete, At
  <2>2. MandateOf(task[t]) = {m}
    BY <2>1 DEF MandateOf, Book!ToClear
  <2>3. task' = [task EXCEPT ![t] = h] /\ h.pc = "b_read"
    BY <1>3, <2>1 DEF BlockDelete, Goto, Handler
  <2>4. m \in mandates /\ Book!Spend(m)
    <3> HIDE DEF h, m
    <3>1. MandateOf(h) = {}
      BY <2>3, NoMandate
    <3>2. mandates' \subseteq mandates /\ mandates \subseteq mandates' \cup {m} /\ m \in mandates
      BY <1>0, <2>2, <2>3, <3>1, MandatesStep
    <3> QED
      BY <3>2 DEF Book!Spend
  <2>5. Book!Clear(b, s)
    BY <1>3, <2>4 DEF BlockDelete, Book!Clear
  <2>6. m.op = "clear" /\ m.by = b /\ m.peer = s
    BY DEF Book!ToClear
  <2> HIDE DEF m, b, s
  <2> QED
    BY <2>4, <2>5, <2>6 DEF Book!Next
<1>4. CASE BlockReply(t)
  BY <1>0, <1>4, FinishLoses DEF BlockReply, Book!Next
<1>5. CASE BlockVanished(t)
  BY <1>0, <1>5, FinishLoses DEF BlockVanished, Book!Next
<1> QED
  BY <1>1, <1>2, <1>3, <1>4, <1>5 DEF BlockStep

-----------------------------------------------------------------------------
(* The environment                                                         *)

LEMMA TickSimulates ==
    ASSUME IInv, Tick PROVE Book!Tick
<1>0. task \in [Task -> Handler]
  BY DEF IInv, TypeOK
<1>1. requests' = {Book!Aged(r) : r \in requests}
  BY DEF Tick, Earlier, Book!Aged, Book!Less
<1>2. ASSUME NEW u \in Task
      PROVE  MandateOf(task'[u]) = {Book!AgedMandate(m) : m \in MandateOf(task[u])}
  <2> DEFINE h == task[u]
             k == [h EXCEPT !.lease = Earlier(h.lease), !.hard = Earlier(h.hard)]
  <2>1. task'[u] = k
    BY DEF Tick
  <2>2. h \in Handler
    BY <1>0
  <2>3. /\ k.pc = h.pc /\ k.actor = h.actor /\ k.peer = h.peer /\ k.rid = h.rid /\ k.client = h.client
        /\ k.lease = Earlier(h.lease) /\ k.hard = Earlier(h.hard)
    BY <2>2 DEF Handler
  <2> HIDE DEF h, k
  <2>4. RowOf(k) = Book!Aged(RowOf(h))
    <3> DEFINE S == [rid : RequestId \cup {None}, client : ClientId \cup {None},
                     sender : Account \cup {None}, recipient : Account \cup {Unknown, None},
                     lease : 0 .. LeaseTTL, hard : 0 .. HardTTL]
               p == RowOf(k)
               q == Book!Aged(RowOf(h))
    <3>1. h.lease \in 0 .. LeaseTTL /\ h.hard \in 0 .. HardTTL
      BY <2>2 DEF Handler
    <3>2. /\ k.lease = Book!Less(h.lease) /\ k.lease \in 0 .. LeaseTTL
          /\ k.hard = Book!Less(h.hard) /\ k.hard \in 0 .. HardTTL
      BY <2>3, <3>1, ParamsAssumption DEF Book!Less, Earlier
    <3>3. RowOf(h) \in S /\ p \in S
      BY <2>2, <2>3, <3>1, <3>2 DEF RowOf, Handler
    <3>4. /\ q \in S
          /\ q.rid = h.rid /\ q.client = h.client /\ q.sender = h.actor /\ q.recipient = h.peer
          /\ q.lease = k.lease /\ q.hard = k.hard
      BY <3>2, <3>3 DEF RowOf, Book!Aged
    <3>5. /\ p.rid = h.rid /\ p.client = h.client /\ p.sender = h.actor /\ p.recipient = h.peer
          /\ p.lease = k.lease /\ p.hard = k.hard
      BY <2>3 DEF RowOf
    <3> HIDE DEF p, q
    <3>6. p = q
      BY <3>3, <3>4, <3>5
    <3> QED
      BY <3>6 DEF p, q
  <2>5. CASE h.pc = "s_insert"
    <3>1. MandateOf(h) = {Book!ToStore(RowOf(h))} /\ MandateOf(k) = {Book!ToStore(RowOf(k))}
      BY <2>3, <2>5 DEF MandateOf, Book!ToStore
    <3>2. Book!AgedMandate(Book!ToStore(RowOf(h))) = Book!ToStore(RowOf(k))
      BY <2>4 DEF Book!AgedMandate, Book!ToStore
    <3>3. MandateOf(k) = {Book!AgedMandate(m) : m \in MandateOf(h)}
      BY <3>1, <3>2
    <3> QED
      BY <2>1, <3>3 DEF h
  <2>6. CASE h.pc # "s_insert"
    <3>1. MandateOf(k) = MandateOf(h)
      BY <2>3, <2>6 DEF MandateOf
    <3>2. \A m \in MandateOf(h) : m.op # "store"
      BY <2>6 DEF MandateOf
    <3>3. \A m \in MandateOf(h) : Book!AgedMandate(m) = m
      BY <3>2 DEF Book!AgedMandate
    <3>4. MandateOf(k) = {Book!AgedMandate(m) : m \in MandateOf(h)}
      BY <3>1, <3>3
    <3> QED
      BY <2>1, <3>4 DEF h
  <2> QED
    BY <2>5, <2>6
<1>3. mandates' = UNION {MandateOf(task'[u]) : u \in Task}
  BY DEF mandates, MandateOf, RowOf
<1>4. mandates' = {Book!AgedMandate(m) : m \in mandates}
  <2>1. ASSUME NEW m \in mandates PROVE Book!AgedMandate(m) \in mandates'
    <3>1. PICK u \in Task : m \in MandateOf(task[u])
      BY DEF mandates
    <3> QED
      BY <1>2, <1>3, <3>1
  <2>2. ASSUME NEW n \in mandates' PROVE \E m \in mandates : n = Book!AgedMandate(m)
    <3>1. PICK u \in Task : n \in MandateOf(task'[u])
      BY <1>3
    <3>2. PICK m \in MandateOf(task[u]) : n = Book!AgedMandate(m)
      BY <1>2, <3>1
    <3> QED
      BY <3>2 DEF mandates
  <2> QED
    BY <2>1, <2>2
<1> QED
  BY <1>1, <1>4 DEF Tick, Book!Tick

LEMMA EnvironmentSimulates ==
    ASSUME IInv, Environment
    PROVE  [Book!Next]_(Book!vars)
<1>0. task \in [Task -> Handler]
  BY DEF IInv, TypeOK
<1>1. CASE Cleanup \/ Restart
  <2>1. mandates' = mandates
    BY <1>1 DEF Cleanup, Restart, mandates, MandateOf, RowOf
  <2> QED
    BY <1>1, <2>1, ExpireForgets DEF Cleanup, Restart, Book!Next
<1>2. CASE Crash
  <2>1. \A u \in Task : MandateOf(task'[u]) = {}
    BY <1>2, IdleHandler, NoMandate DEF Crash
  <2>2. mandates' = UNION {MandateOf(task'[u]) : u \in Task}
    BY DEF mandates, MandateOf, RowOf
  <2>3. mandates' = {}
    BY <2>1, <2>2
  <2> QED
    BY <1>2, <2>3 DEF Crash, Book!Lose, Book!Next
<1>3. CASE Tick
  BY <1>3, TickSimulates DEF Book!Next
<1>4. ASSUME NEW t \in Task, Abort(t) PROVE Book!Next
  BY <1>0, <1>4, FinishLoses DEF Abort, Book!Next
<1> QED
  BY <1>1, <1>2, <1>3, <1>4 DEF Environment

-----------------------------------------------------------------------------
LEMMA NextSimulates ==
    ASSUME IInv, [Next]_vars
    PROVE  [Book!Next]_(Book!vars)
<1>1. ASSUME NEW b \in Account, NEW p \in Account, Unblock(b, p) PROVE Book!Next
  <2>1. mandates' = mandates
    BY <1>1 DEF Unblock, mandates, MandateOf, RowOf
  <2> QED
    BY <1>1, <2>1 DEF Unblock, Book!Unblock, Book!Next
<1>2. CASE UNCHANGED vars
  BY <1>2 DEF vars, Book!vars, mandates, MandateOf, RowOf
<1> QED
  BY <1>1, <1>2, SendSimulates, RenewSimulates, CancelSimulates, BlockSimulates,
     EnvironmentSimulates DEF Next

LEMMA InitSimulates == Init => Book!Init
<1> SUFFICES ASSUME Init PROVE Book!Init
  OBVIOUS
<1>1. \A t \in Task : MandateOf(task[t]) = {}
  BY IdleHandler, NoMandate DEF Init
<1>2. mandates = {}
  BY <1>1 DEF mandates
<1> QED
  BY <1>2 DEF Init, Book!Init

\* The rendezvous, for any accounts, handlers and durations: everything its
\* handlers do to the tables, interleaved, retried, dropped or crashed in
\* whatever way, is an atomic decision or an atomic effect of RequestBook.
THEOREM RefinesRequestBook == Spec => ImplementsRequestBook
<1>1. Spec => []IInv
  BY Invariant
<1>2. Init => Book!Init
  BY InitSimulates
<1>3. IInv /\ [Next]_vars => [Book!Next]_(Book!vars)
  BY NextSimulates
<1> QED
  BY <1>1, <1>2, <1>3, PTL DEF Spec, ImplementsRequestBook, Book!Spec

-----------------------------------------------------------------------------
(* What the book implies                                                   *)

LEMMA AgedRequest ==
    ASSUME NEW r \in Book!Request
    PROVE  /\ Book!Aged(r) \in Book!Request
           /\ Book!Aged(r).rid = r.rid /\ Book!Aged(r).client = r.client
           /\ Book!Aged(r).sender = r.sender /\ Book!Aged(r).recipient = r.recipient
           /\ r.lease <= r.hard => Book!Aged(r).lease <= Book!Aged(r).hard
<1> DEFINE l == Book!Less(r.lease)
           h == Book!Less(r.hard)
           q == [r EXCEPT !.lease = l, !.hard = h]
<1>1. l \in 0 .. LeaseTTL /\ h \in 0 .. HardTTL /\ (r.lease <= r.hard => l <= h)
  BY ParamsAssumption DEF Book!Less, Book!Request
<1>2. Book!Aged(r) = q
  BY DEF Book!Aged
<1> HIDE DEF l, h
<1>3. /\ q \in Book!Request /\ q.lease = l /\ q.hard = h
      /\ q.rid = r.rid /\ q.client = r.client /\ q.sender = r.sender /\ q.recipient = r.recipient
  BY <1>1 DEF Book!Request
<1> HIDE DEF q
<1> QED
  BY <1>1, <1>2, <1>3

LEMMA AgedMandates ==
    ASSUME BookInv, Book!Tick
    PROVE  \A m \in mandates' : m.op = "store" =>
              \E n \in mandates : n.op = "store" /\ m.row = Book!Aged(n.row)
BY DEF Book!Tick, Book!AgedMandate, Book!ToStore

LEMMA InitBookInv == Book!Init => BookInv
BY DEF Book!Init, BookInv, LeaseWithinHard, OneRequestPerClientId

\* Only DecideSend adds a request to store.
LEMMA StoresStay ==
    ASSUME Book!Next, ~Book!Tick, ~Book!DecideSend
    PROVE  \A m \in mandates' : m.op = "store" => m \in mandates
<1>1. ASSUME NEW d, d.op # "store", Book!Decide(d)
      PROVE  \A m \in mandates' : m.op = "store" => m \in mandates
  BY <1>1 DEF Book!Decide
<1>2. ASSUME NEW d, Book!Spend(d) PROVE mandates' \subseteq mandates
  BY <1>2 DEF Book!Spend
<1>3. CASE Book!DecideRenewal
  <2>1. PICK r \in requests : Book!Decide(Book!ToRenew(r.rid, r.sender))
    BY <1>3 DEF Book!DecideRenewal
  <2> QED
    BY <1>1, <2>1 DEF Book!ToRenew
<1>4. CASE Book!DecideCancel
  <2>1. PICK r \in requests : Book!Decide(Book!ToCancel(r.rid, r.sender))
    BY <1>4 DEF Book!DecideCancel
  <2> QED
    BY <1>1, <2>1 DEF Book!ToCancel
<1>5. ASSUME NEW b \in Account, NEW s \in Account, Book!Block(b, s)
      PROVE  \A m \in mandates' : m.op = "store" => m \in mandates
  BY <1>1, <1>5 DEF Book!Block, Book!ToClear
<1>6. ASSUME NEW m \in mandates,
             Book!Store(m.row) \/ Book!Renew(m.rid, m.by) \/ Book!Cancel(m.rid, m.by) \/ Book!Clear(m.by, m.peer)
      PROVE  mandates' \subseteq mandates
  BY <1>2, <1>6 DEF Book!Store, Book!Renew, Book!Cancel, Book!Clear
<1>7. ASSUME Book!Forget \/ Book!Lose \/ \E b, s \in Account : Book!Unblock(b, s)
      PROVE  mandates' \subseteq mandates
  BY <1>7 DEF Book!Forget, Book!Lose, Book!Unblock
<1> QED
  BY <1>3, <1>4, <1>5, <1>6, <1>7 DEF Book!Next

\* How the stored requests change.
LEMMA RequestsMove ==
    ASSUME BookInv, Book!Next, ~Book!Tick
    PROVE  \/ requests' \subseteq requests
           \/ \E m \in mandates : /\ m.op = "store" /\ requests' = requests \cup {m.row}
                                  /\ \A q \in requests : ~(q.sender = m.row.sender /\ q.client = m.row.client)
           \/ \E r \in requests, n \in 0 .. LeaseTTL :
                 n <= r.hard /\ requests' = (requests \ {r}) \cup {[r EXCEPT !.lease = n]}
BY DEF Book!Next, Book!Tick, Book!DecideSend, Book!DecideRenewal, Book!DecideCancel, Book!Store, Book!Renew,
   Book!Cancel, Book!Clear, Book!Block, Book!Unblock, Book!Forget, Book!Lose

LEMMA RenewedRequest ==
    ASSUME NEW r \in Book!Request, NEW n \in 0 .. LeaseTTL, n <= r.hard
    PROVE  LET q == [r EXCEPT !.lease = n] IN
           /\ q \in Book!Request /\ q.lease <= q.hard
           /\ q.rid = r.rid /\ q.client = r.client /\ q.sender = r.sender /\ q.recipient = r.recipient
BY DEF Book!Request

LEMMA StepBookInv == BookInv /\ [Book!Next]_(Book!vars) => BookInv'
<1> SUFFICES ASSUME BookInv, [Book!Next]_(Book!vars) PROVE BookInv'
  OBVIOUS
<1>1. CASE UNCHANGED Book!vars
  BY <1>1 DEF Book!vars, BookInv, LeaseWithinHard, OneRequestPerClientId
<1>2. CASE Book!Tick
  <2>1. requests' = {Book!Aged(r) : r \in requests}
    BY <1>2 DEF Book!Tick
  <2>2. \A r \in requests : /\ Book!Aged(r) \in Book!Request
                            /\ Book!Aged(r).client = r.client /\ Book!Aged(r).sender = r.sender
                            /\ Book!Aged(r).lease <= Book!Aged(r).hard
    BY AgedRequest DEF BookInv, LeaseWithinHard
  <2>3. \A m \in mandates' : m.op = "store" => m.row \in Book!Request /\ m.row.lease <= m.row.hard
    <3> SUFFICES ASSUME NEW m \in mandates', m.op = "store"
                 PROVE  m.row \in Book!Request /\ m.row.lease <= m.row.hard
      OBVIOUS
    <3>1. PICK n \in mandates : n.op = "store" /\ m.row = Book!Aged(n.row)
      BY <1>2, AgedMandates
    <3>2. n.row \in Book!Request /\ n.row.lease <= n.row.hard
      BY <3>1 DEF BookInv
    <3> QED
      BY <3>1, <3>2, AgedRequest
  <2>4. requests' \subseteq Book!Request /\ LeaseWithinHard'
    BY <2>1, <2>2 DEF LeaseWithinHard
  <2>5. OneRequestPerClientId'
    BY <2>1, <2>2 DEF BookInv, OneRequestPerClientId
  <2> QED
    BY <2>3, <2>4, <2>5 DEF BookInv
<1>3. CASE Book!Next /\ ~Book!Tick
  <2>1. \A m \in mandates' : m.op = "store" => m.row \in Book!Request /\ m.row.lease <= m.row.hard
    <3>1. CASE Book!DecideSend
      <4>1. PICK r \in Book!Request : r.lease <= r.hard /\ mandates' = mandates \cup {Book!ToStore(r)}
        BY <3>1 DEF Book!DecideSend, Book!Decide
      <4> QED
        BY <4>1 DEF BookInv, Book!ToStore
    <3>2. CASE ~Book!DecideSend
      BY <1>3, <3>2, StoresStay DEF BookInv
    <3> QED
      BY <3>1, <3>2
  <2>2. CASE requests' \subseteq requests
    BY <2>1, <2>2 DEF BookInv, LeaseWithinHard, OneRequestPerClientId
  <2>3. ASSUME NEW m \in mandates, m.op = "store", requests' = requests \cup {m.row},
               \A q \in requests : ~(q.sender = m.row.sender /\ q.client = m.row.client)
        PROVE  BookInv'
    <3>1. m.row \in Book!Request /\ m.row.lease <= m.row.hard
      BY <2>3 DEF BookInv
    <3> QED
      BY <2>1, <2>3, <3>1 DEF BookInv, LeaseWithinHard, OneRequestPerClientId
  <2>4. ASSUME NEW r \in requests, NEW n \in 0 .. LeaseTTL, n <= r.hard,
               requests' = (requests \ {r}) \cup {[r EXCEPT !.lease = n]}
        PROVE  BookInv'
    <3> DEFINE q == [r EXCEPT !.lease = n]
    <3>1. q \in Book!Request /\ q.lease <= q.hard /\ q.client = r.client /\ q.sender = r.sender
      BY <2>4, RenewedRequest DEF BookInv
    <3>2. requests' = (requests \ {r}) \cup {q}
      BY <2>4
    <3> HIDE DEF q
    <3> QED
      BY <2>1, <3>1, <3>2 DEF BookInv, LeaseWithinHard, OneRequestPerClientId
  <2> QED
    BY <1>3, <2>2, <2>3, <2>4, RequestsMove
<1> QED
  BY <1>1, <1>2, <1>3

\* Whatever implements the book keeps each lease inside its hard expiry and
\* one request per client_request_id.
THEOREM BookKeepsTheTable == ImplementsRequestBook => [](LeaseWithinHard /\ OneRequestPerClientId)
<1>1. BookInv => LeaseWithinHard /\ OneRequestPerClientId
  BY DEF BookInv
<1> QED
  BY <1>1, InitBookInv, StepBookInv, PTL DEF ImplementsRequestBook, Book!Spec

LEMMA SealedInBook == SealsAgree
<1> USE DEF SealsAgree
<1> SUFFICES ASSUME NEW b \in Account, NEW s \in Account PROVE Sealed(b, s) <=> BookSealed(b, s)
  OBVIOUS
<1>1. ASSUME NEW t \in Task, At(t, "s_insert"), task[t].actor = s, task[t].peer = b
      PROVE  \E m \in mandates : m.op = "store" /\ m.row.sender = s /\ m.row.recipient = b
  <2>1. [op |-> "store", row |-> RowOf(task[t])] \in mandates
    BY <1>1 DEF At, mandates, MandateOf
  <2> QED
    BY <1>1, <2>1 DEF RowOf
<1>2. ASSUME NEW m \in mandates, m.op = "store", m.row.sender = s, m.row.recipient = b
      PROVE  \E t \in Task : At(t, "s_insert") /\ task[t].actor = s /\ task[t].peer = b
  <2>1. PICK t \in Task : m \in MandateOf(task[t])
    BY DEF mandates
  <2>2. At(t, "s_insert") /\ m.row = RowOf(task[t])
    BY <1>2, <2>1 DEF At, MandateOf
  <2> QED
    BY <1>2, <2>2 DEF RowOf
<1> QED
  BY <1>1, <1>2 DEF Sealed, BookSealed

\* A seal of the book breaks by an unblock only.
LEMMA SealStep ==
    ASSUME BookInv, [Book!Next]_(Book!vars), NEW b \in Account, NEW s \in Account,
           BookSealed(b, s), <<b, s>> \in blocks'
    PROVE  BookSealed(b, s)'
<1>1. CASE UNCHANGED Book!vars
  BY <1>1 DEF Book!vars, BookSealed
<1>2. CASE Book!Tick
  <2>1. requests' = {Book!Aged(r) : r \in requests}
    BY <1>2 DEF Book!Tick
  <2>2. \A r \in requests : Book!Aged(r).sender = r.sender /\ Book!Aged(r).recipient = r.recipient
    BY AgedRequest DEF BookInv
  <2>3. \A q \in requests' : ~(q.sender = s /\ q.recipient = b)
    BY <2>1, <2>2 DEF BookSealed
  <2>4. ASSUME NEW m \in mandates', m.op = "store" PROVE ~(m.row.sender = s /\ m.row.recipient = b)
    <3>1. PICK n \in mandates : n.op = "store" /\ m.row = Book!Aged(n.row)
      BY <1>2, <2>4, AgedMandates
    <3>2. n.row \in Book!Request /\ ~(n.row.sender = s /\ n.row.recipient = b)
      BY <3>1 DEF BookInv, BookSealed
    <3> QED
      BY <3>1, <3>2, AgedRequest
  <2> QED
    BY <2>3, <2>4 DEF BookSealed
<1>3. CASE Book!Next /\ ~Book!Tick
  <2>1. ASSUME NEW m \in mandates', m.op = "store" PROVE ~(m.row.sender = s /\ m.row.recipient = b)
    <3>1. CASE Book!DecideSend
      <4>1. PICK r \in Book!Request : /\ <<r.recipient, r.sender>> \notin blocks
                                      /\ mandates' = mandates \cup {Book!ToStore(r)}
        BY <3>1 DEF Book!DecideSend, Book!Decide
      <4>2. CASE m = Book!ToStore(r)
        BY <4>1, <4>2 DEF BookSealed, Book!ToStore
      <4>3. CASE m \in mandates
        BY <2>1, <4>3 DEF BookSealed
      <4> QED
        BY <4>1, <4>2, <4>3
    <3>2. CASE ~Book!DecideSend
      BY <1>3, <2>1, <3>2, StoresStay DEF BookSealed
    <3> QED
      BY <3>1, <3>2
  <2>2. \A q \in requests' : ~(q.sender = s /\ q.recipient = b)
    <3>1. CASE requests' \subseteq requests
      BY <3>1 DEF BookSealed
    <3>2. ASSUME NEW m \in mandates, m.op = "store", requests' = requests \cup {m.row}
          PROVE  \A q \in requests' : ~(q.sender = s /\ q.recipient = b)
      BY <3>2 DEF BookSealed
    <3>3. ASSUME NEW r \in requests, NEW n \in 0 .. LeaseTTL, n <= r.hard,
                 requests' = (requests \ {r}) \cup {[r EXCEPT !.lease = n]}
          PROVE  \A q \in requests' : ~(q.sender = s /\ q.recipient = b)
      <4>1. [r EXCEPT !.lease = n].sender = r.sender /\ [r EXCEPT !.lease = n].recipient = r.recipient
        BY <3>3, RenewedRequest DEF BookInv
      <4> QED
        BY <3>3, <4>1 DEF BookSealed
    <3> QED
      BY <1>3, <3>1, <3>2, <3>3, RequestsMove
  <2> QED
    BY <2>1, <2>2 DEF BookSealed
<1> QED
  BY <1>1, <1>2, <1>3

\* Whatever implements the book keeps a block sealed: the sends that are past
\* their check are mandates, and the book shows them all.
THEOREM BookKeepsSeals == ImplementsRequestBook => SealedBlockStaysSealed
<1>1. ASSUME BookInv, [Book!Next]_(Book!vars), SealsAgree, SealsAgree',
             NEW b \in Account, NEW s \in Account, Sealed(b, s), <<b, s>> \in blocks'
      PROVE  Sealed(b, s)'
  <2>1. BookSealed(b, s)
    BY <1>1 DEF SealsAgree
  <2>2. BookSealed(b, s)'
    BY <1>1, <2>1, SealStep
  <2> QED
    BY <1>1, <2>2 DEF SealsAgree
<1>2. BookInv /\ [Book!Next]_(Book!vars) /\ SealsAgree /\ SealsAgree' =>
        [\A b, s \in Account : Sealed(b, s) /\ <<b, s>> \in blocks' => Sealed(b, s)']_vars
  BY <1>1
<1> QED
  BY <1>2, SealedInBook, InitBookInv, StepBookInv, PTL
     DEF ImplementsRequestBook, Book!Spec, SealedBlockStaysSealed

\* A request leaves the book expired, or by a mandate for its sender's cancel
\* or its recipient's block.
LEMMA RemovalStep ==
    ASSUME BookInv, [Book!Next]_(Book!vars), NEW r \in requests, Gone(r), ~Expired(r)
    PROVE  \E m \in mandates : \/ m.op = "cancel" /\ m.by = r.sender
                               \/ m.op = "clear" /\ m.by = r.recipient /\ m.peer = r.sender
<1>1. r \notin requests'
  BY DEF Gone
<1>2. CASE Book!Tick
  <2>1. Book!Aged(r) \in requests' /\ Book!Aged(r).rid = r.rid
    BY <1>2, AgedRequest DEF Book!Tick, BookInv
  <2> QED
    BY <2>1 DEF Gone
<1>3. ASSUME NEW m \in mandates, m.op = "renew", Book!Renew(m.rid, m.by) PROVE FALSE
  <2>1. PICK q \in requests, n \in 0 .. LeaseTTL :
           n <= q.hard /\ requests' = (requests \ {q}) \cup {[q EXCEPT !.lease = n]}
    BY <1>3 DEF Book!Renew
  <2>2. [q EXCEPT !.lease = n].rid = q.rid
    BY <2>1, RenewedRequest DEF BookInv
  <2> QED
    BY <1>1, <2>1, <2>2 DEF Gone
<1>4. ASSUME NEW m \in mandates, m.op = "cancel", Book!Cancel(m.rid, m.by)
      PROVE  m.by = r.sender
  BY <1>1, <1>4 DEF Book!Cancel
<1>5. ASSUME NEW m \in mandates, m.op = "clear", Book!Clear(m.by, m.peer)
      PROVE  m.by = r.recipient /\ m.peer = r.sender
  BY <1>1, <1>5 DEF Book!Clear
<1>6. CASE Book!Forget
  BY <1>1, <1>6 DEF Book!Forget, Book!Lapsed, Expired
<1>7. ASSUME NEW m \in mandates, Book!Store(m.row) PROVE FALSE
  BY <1>1, <1>7 DEF Book!Store
<1>8. ASSUME requests' = requests PROVE FALSE
  BY <1>1, <1>8
<1>9. CASE UNCHANGED Book!vars \/ Book!DecideSend \/ Book!DecideRenewal \/ Book!DecideCancel \/ Book!Lose
           \/ \E b, s \in Account : Book!Block(b, s) \/ Book!Unblock(b, s)
  BY <1>8, <1>9 DEF Book!vars, Book!DecideSend, Book!DecideRenewal, Book!DecideCancel, Book!Lose,
     Book!Block, Book!Unblock
<1>10. CASE \E m \in mandates : \/ m.op = "store" /\ Book!Store(m.row)
                                \/ m.op = "renew" /\ Book!Renew(m.rid, m.by)
                                \/ m.op = "cancel" /\ Book!Cancel(m.rid, m.by)
                                \/ m.op = "clear" /\ Book!Clear(m.by, m.peer)
  <2>1. PICK m \in mandates : \/ m.op = "store" /\ Book!Store(m.row)
                              \/ m.op = "renew" /\ Book!Renew(m.rid, m.by)
                              \/ m.op = "cancel" /\ Book!Cancel(m.rid, m.by)
                              \/ m.op = "clear" /\ Book!Clear(m.by, m.peer)
    BY <1>10
  <2>2. CASE m.op = "cancel" /\ Book!Cancel(m.rid, m.by)
    <3>1. m.by = r.sender
      BY <1>4, <2>2
    <3> QED
      BY <2>2, <3>1
  <2>3. CASE m.op = "clear" /\ Book!Clear(m.by, m.peer)
    BY <1>5, <2>3
  <2> QED
    BY <1>3, <1>7, <2>1, <2>2, <2>3
<1>11. CASE Book!Next
  <2>1. \/ Book!DecideSend \/ Book!DecideRenewal \/ Book!DecideCancel
        \/ \E m \in mandates : \/ m.op = "store" /\ Book!Store(m.row)
                               \/ m.op = "renew" /\ Book!Renew(m.rid, m.by)
                               \/ m.op = "cancel" /\ Book!Cancel(m.rid, m.by)
                               \/ m.op = "clear" /\ Book!Clear(m.by, m.peer)
        \/ \E b, s \in Account : Book!Block(b, s) \/ Book!Unblock(b, s)
        \/ Book!Forget \/ Book!Lose \/ Book!Tick
    BY <1>11 DEF Book!Next
  <2> QED
    BY <1>2, <1>6, <1>9, <1>10, <2>1
<1> QED
  BY <1>9, <1>11

\* Whatever implements the book removes a live request for its sender or for
\* the recipient that blocked the sender, and for nobody else.
THEOREM BookAuthorisesRemovals == ImplementsRequestBook => RemovalIsAuthorised
<1>1. ASSUME NEW m \in mandates, m.op \in {"cancel", "clear"}
      PROVE  \E t \in Task : \/ m.op = "cancel" /\ At(t, "c_delete") /\ task[t].actor = m.by
                             \/ /\ m.op = "clear" /\ At(t, "b_delete")
                                /\ task[t].actor = m.by /\ task[t].peer = m.peer
  <2>1. PICK t \in Task : m \in MandateOf(task[t])
    BY DEF mandates
  <2> QED
    BY <1>1, <2>1 DEF MandateOf, At
<1>2. ASSUME BookInv, [Book!Next]_(Book!vars), NEW r \in requests, Gone(r)
      PROVE  \/ Expired(r)
             \/ \E t \in Task : \/ At(t, "c_delete") /\ task[t].actor = r.sender
                                \/ /\ At(t, "b_delete")
                                   /\ task[t].actor = r.recipient
                                   /\ task[t].peer = r.sender
  <2>1. CASE ~Expired(r)
    <3>1. PICK m \in mandates : \/ m.op = "cancel" /\ m.by = r.sender
                                \/ m.op = "clear" /\ m.by = r.recipient /\ m.peer = r.sender
      BY <1>2, <2>1, RemovalStep
    <3> QED
      BY <1>1, <3>1
  <2> QED
    BY <2>1
<1>3. BookInv /\ [Book!Next]_(Book!vars) =>
        [\A r \in requests : Gone(r) =>
            \/ Expired(r)
            \/ \E t \in Task : \/ At(t, "c_delete") /\ task[t].actor = r.sender
                               \/ /\ At(t, "b_delete")
                                  /\ task[t].actor = r.recipient
                                  /\ task[t].peer = r.sender]_vars
  BY <1>2
<1> QED
  BY <1>3, InitBookInv, StepBookInv, PTL DEF ImplementsRequestBook, Book!Spec, RemovalIsAuthorised

=============================================================================
