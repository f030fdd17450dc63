--------------------------- MODULE LiveChatProofs ---------------------------
(* Theorems about LiveChat for every number of accounts, client ids,       *)
(* request ids and concurrent handlers, and every LeaseTTL <= HardTTL.     *)
EXTENDS LiveChat, TLAPS

LEMMA IdleHandler == Idle \in Handler /\ Idle.pc = "idle"
BY ParamsAssumption DEF Idle, Handler, Pc

LEMMA InitIInv == Init => IInv
<1> SUFFICES ASSUME Init PROVE IInv
  OBVIOUS
<1>1. TypeOK
  BY IdleHandler DEF Init, TypeOK
<1>2. \A t \in Task : task[t].pc = "idle"
  BY IdleHandler DEF Init
<1> QED
  BY <1>1, <1>2 DEF Init, IInv, ArgumentsOK, SendResolved, IdsUnique, MintedIdsUnused,
     LeaseWithinHard, NewLeaseWithinHard, RenewedLeaseWithinHard, RenewalKnowsItsRow,
     CancelOwnsItsRow, OneRequestPerClientId, Minting, Bound, SendPc, RenewPc, CancelPc, BlockPc

\* A step of handler t that leaves it as h and only removes rows keeps the
\* invariant when h meets what the invariant says of a handler.
LEMMA HandlerStep ==
    ASSUME IInv, NEW t \in Task, NEW h \in Handler,
           task' = [task EXCEPT ![t] = h],
           requests' \subseteq requests,
           blocks' \subseteq Account \X Account, up' \in BOOLEAN,
           h.pc # "idle" => h.actor \in Account,
           h.pc \in SendPc => h.client \in ClientId,
           h.pc \in RenewPc \cup CancelPc => h.rid \in RequestId,
           h.pc \in BlockPc => h.peer \in Account \ {h.actor},
           h.pc \in Minting =>
              /\ h.peer \in Account /\ h.rid \in RequestId /\ h.lease <= h.hard
              /\ \A r \in requests : r.rid # h.rid
              /\ \A u \in Task \ {t} : task[u].pc \in Bound => task[u].rid # h.rid,
           h.pc \in Bound =>
              \A u \in Task \ {t} : task[u].pc \in Minting => task[u].rid # h.rid,
           h.pc \in {"r_stamp", "r_write"} =>
              \A r \in requests : r.rid = h.rid => r.sender = h.actor /\ r.hard = h.hard,
           h.pc = "r_write" => h.lease <= h.hard,
           h.pc = "c_delete" => \A r \in requests : r.rid = h.rid => r.sender = h.actor
    PROVE  IInv'
<1>1. \A u \in Task : task'[u] = IF u = t THEN h ELSE task[u]
  BY DEF IInv, TypeOK
<1>2. TypeOK'
  BY <1>1 DEF IInv, TypeOK
<1>3. ArgumentsOK'
  BY <1>1 DEF IInv, ArgumentsOK
<1>4. SendResolved'
  BY <1>1 DEF IInv, SendResolved
<1>5. IdsUnique' /\ LeaseWithinHard' /\ OneRequestPerClientId'
  BY DEF IInv, IdsUnique, LeaseWithinHard, OneRequestPerClientId
<1>6. MintedIdsUnused'
  BY <1>1 DEF IInv, MintedIdsUnused
<1>7. NewLeaseWithinHard' /\ RenewedLeaseWithinHard'
  BY <1>1 DEF IInv, NewLeaseWithinHard, RenewedLeaseWithinHard
<1>8. RenewalKnowsItsRow' /\ CancelOwnsItsRow'
  BY <1>1 DEF IInv, RenewalKnowsItsRow, CancelOwnsItsRow
<1> QED
  BY <1>2, <1>3, <1>4, <1>5, <1>6, <1>7, <1>8 DEF IInv

LEMMA FinishStep ==
    ASSUME IInv, NEW t \in Task, Finish(t), requests' \subseteq requests,
           blocks' \subseteq Account \X Account, up' \in BOOLEAN
    PROVE  IInv'
BY IdleHandler, HandlerStep DEF Finish, SendPc, RenewPc, CancelPc, BlockPc, Minting, Bound

\* The same for a step to the next statement, which changes only the label.
LEMMA GotoStep ==
    ASSUME IInv, NEW t \in Task, NEW l \in Pc, Goto(t, l),
           requests' \subseteq requests, blocks' \subseteq Account \X Account, up' = up,
           task[t].pc # "idle",
           l \in SendPc => task[t].client \in ClientId,
           l \in RenewPc \cup CancelPc => task[t].rid \in RequestId,
           l \in BlockPc => task[t].peer \in Account \ {task[t].actor},
           l \in Minting => task[t].pc \in Minting,
           l \in Bound => \A u \in Task \ {t} : task[u].pc \in Minting => task[u].rid # task[t].rid,
           l \notin {"r_stamp", "r_write"},
           l = "c_delete" => \A r \in requests : r.rid = task[t].rid => r.sender = task[t].actor
    PROVE  IInv'
<1> DEFINE h == [task[t] EXCEPT !.pc = l]
<1>1. task[t] \in Handler
  BY DEF IInv, TypeOK
<1>2. h \in Handler /\ h.pc = l /\ h.actor = task[t].actor /\ h.peer = task[t].peer
         /\ h.client = task[t].client /\ h.rid = task[t].rid
         /\ h.lease = task[t].lease /\ h.hard = task[t].hard
  BY <1>1 DEF Handler
<1>3. task' = [task EXCEPT ![t] = h]
  BY DEF Goto
<1>4. task[t].actor \in Account
  BY DEF IInv, ArgumentsOK
<1>5. l \in Minting => /\ task[t].peer \in Account /\ task[t].rid \in RequestId
                       /\ task[t].lease <= task[t].hard
                       /\ \A r \in requests : r.rid # task[t].rid
                       /\ \A u \in Task \ {t} : task[u].pc \in Bound => task[u].rid # task[t].rid
  BY DEF IInv, SendResolved, NewLeaseWithinHard, MintedIdsUnused
<1>6. up' \in BOOLEAN
  BY DEF IInv, TypeOK
<1> HIDE DEF h
<1> QED
  BY <1>2, <1>3, <1>4, <1>5, <1>6, HandlerStep

----
(* sendLiveChatRequest                                                     *)

LEMMA SendStartIInv ==
    ASSUME IInv, NEW t \in Task, NEW s \in Account, NEW p \in Account \cup {Unknown},
           NEW c \in ClientId, SendStart(t, s, p, c)
    PROVE  IInv'
<1> DEFINE h == [Idle EXCEPT !.pc = "s_expire", !.actor = s, !.peer = p, !.client = c]
<1>1. h.pc = "s_expire" /\ h.actor = s /\ h.client = c
  BY DEF Idle
<1>0. h \in Handler
  <2>1. "s_expire" \in Pc
    BY DEF Pc, SendPc
  <2> QED
    BY <2>1, IdleHandler DEF Handler
<1>2. task' = [task EXCEPT ![t] = h] /\ requests' = requests /\ blocks' = blocks /\ up' = up
  BY DEF SendStart, Begin
<1>3. blocks' \subseteq Account \X Account /\ up' \in BOOLEAN
  BY <1>2 DEF IInv, TypeOK
<1> HIDE DEF h
<1> QED
  BY <1>0, <1>1, <1>2, <1>3, HandlerStep DEF SendPc, RenewPc, CancelPc, BlockPc, Minting, Bound

LEMMA SendExpireIInv ==
    ASSUME IInv, NEW t \in Task, SendExpire(t) PROVE IInv'
<1>1. task[t].client \in ClientId
  BY DEF SendExpire, At, IInv, ArgumentsOK, SendPc
<1> QED
  BY <1>1, GotoStep DEF SendExpire, At, RemoveExpired, IInv, TypeOK, Pc, SendPc, RenewPc, CancelPc,
     BlockPc, Minting, Bound

LEMMA SendLookupIInv ==
    ASSUME IInv, NEW t \in Task, SendLookup(t) PROVE IInv'
<1>1. task[t].client \in ClientId
  BY DEF SendLookup, At, IInv, ArgumentsOK, SendPc
<1>2. blocks' \subseteq Account \X Account /\ up' \in BOOLEAN /\ requests' = requests /\ up' = up
  BY DEF SendLookup, IInv, TypeOK
<1>3. CASE Finish(t)
  BY <1>2, <1>3, FinishStep
<1>4. CASE Goto(t, "s_count")
  BY <1>1, <1>2, <1>4, GotoStep DEF SendLookup, At, Pc, SendPc, RenewPc, CancelPc,
     BlockPc, Minting, Bound
<1> QED
  BY <1>3, <1>4 DEF SendLookup

LEMMA SendCountIInv ==
    ASSUME IInv, NEW t \in Task, SendCount(t) PROVE IInv'
<1>1. task[t].client \in ClientId
  BY DEF SendCount, At, IInv, ArgumentsOK, SendPc
<1>2. blocks' \subseteq Account \X Account /\ up' \in BOOLEAN /\ requests' = requests /\ up' = up
  BY DEF SendCount, IInv, TypeOK
<1>3. CASE Finish(t)
  BY <1>2, <1>3, FinishStep
<1>4. CASE Goto(t, "s_resolve")
  BY <1>1, <1>2, <1>4, GotoStep DEF SendCount, At, Pc, SendPc, RenewPc, CancelPc,
     BlockPc, Minting, Bound
<1> QED
  BY <1>3, <1>4 DEF SendCount

LEMMA SendResolveIInv ==
    ASSUME IInv, NEW t \in Task, SendResolve(t) PROVE IInv'
<1>1. /\ task[t] \in Handler /\ task[t].client \in ClientId /\ task[t].actor \in Account
  BY DEF SendResolve, At, IInv, TypeOK, ArgumentsOK, SendPc
<1>2. blocks' \subseteq Account \X Account /\ up' \in BOOLEAN /\ requests' = requests
  BY DEF SendResolve, IInv, TypeOK
<1>3. CASE Finish(t)
  BY <1>2, <1>3, FinishStep
<1>4. ASSUME NEW id \in Fresh, Known(task[t].peer),
             task' = [task EXCEPT ![t].pc = "s_check", ![t].rid = id,
                                  ![t].lease = LeaseTTL, ![t].hard = HardTTL]
      PROVE  IInv'
  <2> DEFINE h == [task[t] EXCEPT !.pc = "s_check", !.rid = id, !.lease = LeaseTTL, !.hard = HardTTL]
  <2>1. /\ id \in RequestId /\ \A r \in requests : r.rid # id
        /\ \A u \in Task : task[u].rid # id
    BY <1>4 DEF Fresh
  <2>2. h \in Handler /\ h.pc = "s_check" /\ h.actor = task[t].actor /\ h.peer = task[t].peer
           /\ h.client = task[t].client /\ h.rid = id /\ h.lease = LeaseTTL /\ h.hard = HardTTL
    <3>1. "s_check" \in Pc /\ LeaseTTL \in 0 .. LeaseTTL /\ HardTTL \in 0 .. HardTTL
      BY ParamsAssumption DEF Pc, SendPc
    <3>2. h \in Handler
      BY <1>1, <2>1, <3>1 DEF Handler
    <3> QED
      BY <1>1, <3>2 DEF Handler
  <2>3. task' = [task EXCEPT ![t] = h]
    BY <1>4 DEF IInv, TypeOK
  <2>4. h.peer \in Account /\ h.lease <= h.hard
    BY <1>4, <2>2, ParamsAssumption DEF Known
  <2> HIDE DEF h
  <2> QED
    BY <1>1, <1>2, <2>1, <2>2, <2>3, <2>4, HandlerStep
       DEF SendPc, RenewPc, CancelPc, BlockPc, Minting, Bound
<1> QED
  BY <1>3, <1>4 DEF SendResolve

LEMMA SendCheckIInv ==
    ASSUME IInv, NEW t \in Task, SendCheck(t) PROVE IInv'
<1>1. /\ task[t].client \in ClientId /\ task[t].pc = "s_check"
      /\ \A u \in Task \ {t} : task[u].pc \in Minting => task[u].rid # task[t].rid
  BY DEF SendCheck, At, IInv, ArgumentsOK, SendPc, MintedIdsUnused, Minting, Bound
<1>2. blocks' \subseteq Account \X Account /\ up' \in BOOLEAN /\ requests' = requests /\ up' = up
  BY DEF SendCheck, IInv, TypeOK
<1>3. CASE Finish(t)
  BY <1>2, <1>3, FinishStep
<1>4. CASE Goto(t, "s_insert")
  BY <1>1, <1>2, <1>4, GotoStep DEF Pc, SendPc, RenewPc, CancelPc, BlockPc, Minting, Bound
<1> QED
  BY <1>3, <1>4 DEF SendCheck

\* The insert adds a row under an id and a key that no other row has.
LEMMA SendInsertIInv ==
    ASSUME IInv, NEW t \in Task, SendInsert(t) PROVE IInv'
<1>1. blocks' \subseteq Account \X Account /\ up' \in BOOLEAN
  BY DEF SendInsert, IInv, TypeOK
<1>2. CASE requests' = requests
  BY <1>1, <1>2, FinishStep DEF SendInsert
<1>3. CASE requests' # requests
  <2> DEFINE new == [rid |-> task[t].rid, client |-> task[t].client,
                     sender |-> task[t].actor, recipient |-> task[t].peer,
                     lease |-> task[t].lease, hard |-> task[t].hard]
  <2>1. /\ requests' = requests \cup {new}
        /\ \A r \in requests : ~SameKey(r, task[t].actor, task[t].client)
        /\ task' = [task EXCEPT ![t] = Idle]
    BY <1>3 DEF SendInsert, IndexAdmits, Finish
  <2>2. task[t] \in Handler /\ task[t].pc = "s_insert"
    BY DEF IInv, TypeOK, SendInsert, At
  <2>3. /\ new \in Row /\ new.rid = task[t].rid /\ new.sender = task[t].actor
        /\ new.client = task[t].client /\ new.lease <= new.hard
    BY <2>2 DEF Row, Handler, IInv, ArgumentsOK, SendResolved, NewLeaseWithinHard, SendPc, Minting
  <2>4. /\ \A r \in requests : r.rid # task[t].rid
        /\ \A u \in Task \ {t} : task[u].pc \in Bound => task[u].rid # task[t].rid
    BY <2>2 DEF IInv, MintedIdsUnused, Minting
  <2>5. \A u \in Task : task'[u] = IF u = t THEN Idle ELSE task[u]
    BY <2>1 DEF IInv, TypeOK
  <2> HIDE DEF new
  <2>6. TypeOK'
    BY <1>1, <2>1, <2>3, <2>5, IdleHandler DEF IInv, TypeOK
  <2>7. ArgumentsOK' /\ SendResolved' /\ NewLeaseWithinHard' /\ RenewedLeaseWithinHard'
    BY <2>5, IdleHandler DEF IInv, ArgumentsOK, SendResolved, NewLeaseWithinHard,
       RenewedLeaseWithinHard, SendPc, RenewPc, CancelPc, BlockPc, Minting
  <2>8. IdsUnique'
    BY <2>1, <2>3, <2>4 DEF IInv, IdsUnique
  <2>9. MintedIdsUnused'
    BY <2>1, <2>3, <2>4, <2>5, IdleHandler DEF IInv, MintedIdsUnused, Minting, Bound
  <2>10. LeaseWithinHard'
    BY <2>1, <2>3 DEF IInv, LeaseWithinHard
  <2>11. RenewalKnowsItsRow' /\ CancelOwnsItsRow'
    BY <2>1, <2>3, <2>4, <2>5, IdleHandler DEF IInv, RenewalKnowsItsRow, CancelOwnsItsRow, Bound
  <2>12. OneRequestPerClientId'
    BY <2>1, <2>3 DEF IInv, OneRequestPerClientId, SameKey
  <2> QED
    BY <2>6, <2>7, <2>8, <2>9, <2>10, <2>11, <2>12 DEF IInv
<1> QED
  BY <1>2, <1>3

----
(* renewLiveChatRequest                                                    *)

LEMMA RenewStartIInv ==
    ASSUME IInv, NEW t \in Task, NEW s \in Account, NEW id \in RequestId, RenewStart(t, s, id)
    PROVE  IInv'
<1> DEFINE h == [Idle EXCEPT !.pc = "r_expire", !.actor = s, !.rid = id]
<1>1. h.pc = "r_expire" /\ h.actor = s /\ h.rid = id
  BY DEF Idle
<1>2. h \in Handler
  <2>1. "r_expire" \in Pc
    BY DEF Pc, RenewPc
  <2> QED
    BY <2>1, IdleHandler DEF Handler
<1>3. task' = [task EXCEPT ![t] = h] /\ requests' = requests /\ blocks' = blocks /\ up' = up
  BY DEF RenewStart, Begin
<1>4. blocks' \subseteq Account \X Account /\ up' \in BOOLEAN
  BY <1>3 DEF IInv, TypeOK
<1> HIDE DEF h
<1> QED
  BY <1>1, <1>2, <1>3, <1>4, HandlerStep DEF SendPc, RenewPc, CancelPc, BlockPc, Minting, Bound

LEMMA RenewExpireIInv ==
    ASSUME IInv, NEW t \in Task, RenewExpire(t) PROVE IInv'
<1>1. task[t].rid \in RequestId
  BY DEF RenewExpire, At, IInv, ArgumentsOK, RenewPc
<1> QED
  BY <1>1, GotoStep DEF RenewExpire, At, RemoveExpired, IInv, TypeOK, Pc, SendPc, RenewPc, CancelPc,
     BlockPc, Minting, Bound

\* The row read is on the table, so its id is not one being minted.
LEMMA RenewReadIInv ==
    ASSUME IInv, NEW t \in Task, RenewRead(t) PROVE IInv'
<1>1. /\ task[t] \in Handler /\ task[t].rid \in RequestId /\ task[t].actor \in Account
  BY DEF RenewRead, At, IInv, TypeOK, ArgumentsOK, RenewPc
<1>2. blocks' \subseteq Account \X Account /\ up' \in BOOLEAN /\ requests' = requests
  BY DEF RenewRead, IInv, TypeOK
<1>3. CASE Finish(t)
  BY <1>2, <1>3, FinishStep
<1>4. ASSUME NEW r \in Owned(task[t].rid, task[t].actor),
             task' = [task EXCEPT ![t].pc = "r_stamp", ![t].hard = r.hard]
      PROVE  IInv'
  <2> DEFINE h == [task[t] EXCEPT !.pc = "r_stamp", !.hard = r.hard]
  <2>1. r \in requests /\ r \in Row /\ r.rid = task[t].rid /\ r.sender = task[t].actor
    BY <1>4 DEF Owned, IInv, TypeOK
  <2>2. r.hard \in 0 .. HardTTL /\ "r_stamp" \in Pc
    BY <2>1 DEF Row, Pc, RenewPc
  <2>3. h \in Handler
    BY <1>1, <2>2 DEF Handler
  <2>4. h.pc = "r_stamp" /\ h.actor = task[t].actor /\ h.rid = task[t].rid /\ h.hard = r.hard
    BY <1>1 DEF Handler
  <2>5. task' = [task EXCEPT ![t] = h]
    BY <1>4 DEF IInv, TypeOK
  <2>6. \A q \in requests : q.rid = h.rid => q.sender = h.actor /\ q.hard = h.hard
    BY <2>1, <2>4 DEF IInv, IdsUnique
  <2>7. \A u \in Task : task[u].pc \in Minting => task[u].rid # h.rid
    BY <2>1, <2>4 DEF IInv, MintedIdsUnused
  <2> HIDE DEF h
  <2> QED
    BY <1>1, <1>2, <2>3, <2>4, <2>5, <2>6, <2>7, HandlerStep
       DEF SendPc, RenewPc, CancelPc, BlockPc, Minting
<1> QED
  BY <1>3, <1>4 DEF RenewRead

LEMMA RenewStampIInv ==
    ASSUME IInv, NEW t \in Task, RenewStamp(t) PROVE IInv'
<1> DEFINE h == [task[t] EXCEPT !.pc = "r_write", !.lease = RenewedLease(task[t].hard)]
<1>1. /\ task[t] \in Handler /\ task[t].pc = "r_stamp" /\ task[t].rid \in RequestId
      /\ task[t].actor \in Account
  BY DEF RenewStamp, At, IInv, TypeOK, ArgumentsOK, RenewPc
<1>2. blocks' \subseteq Account \X Account /\ up' \in BOOLEAN /\ requests' = requests
  BY DEF RenewStamp, IInv, TypeOK
<1>3. /\ RenewedLease(task[t].hard) \in 0 .. LeaseTTL
      /\ RenewedLease(task[t].hard) <= task[t].hard
  <2>1. task[t].hard \in Nat
    BY <1>1, ParamsAssumption DEF Handler
  <2> QED
    BY <2>1, ParamsAssumption DEF RenewedLease, Least
<1>4. h \in Handler
  <2>1. "r_write" \in Pc
    BY DEF Pc, RenewPc
  <2> QED
    BY <1>1, <1>3, <2>1 DEF Handler
<1>5. /\ h.pc = "r_write" /\ h.actor = task[t].actor /\ h.rid = task[t].rid
      /\ h.hard = task[t].hard /\ h.lease = RenewedLease(task[t].hard)
  BY <1>1 DEF Handler
<1>6. task' = [task EXCEPT ![t] = h]
  BY DEF RenewStamp, IInv, TypeOK
<1>7. \A q \in requests : q.rid = h.rid => q.sender = h.actor /\ q.hard = h.hard
  BY <1>1, <1>5 DEF IInv, RenewalKnowsItsRow
<1>8. \A u \in Task \ {t} : task[u].pc \in Minting => task[u].rid # h.rid
  BY <1>1, <1>5 DEF IInv, MintedIdsUnused, Bound
<1> HIDE DEF h
<1> QED
  BY <1>1, <1>2, <1>3, <1>4, <1>5, <1>6, <1>7, <1>8, HandlerStep
     DEF SendPc, RenewPc, CancelPc, BlockPc, Minting

\* The UPDATE changes the lease of one row and nothing else, and stays within
\* the hard expiry because the row still carries the one the renewal read.
LEMMA RenewWriteIInv ==
    ASSUME IInv, NEW t \in Task, RenewWrite(t) PROVE IInv'
<1> DEFINE g(r) == IF r.rid = task[t].rid THEN Extended(r, task[t].lease) ELSE r
<1>1. task[t] \in Handler /\ task[t].pc = "r_write" /\ task[t].lease \in 0 .. LeaseTTL
  BY DEF RenewWrite, At, IInv, TypeOK, Handler
<1>2. /\ requests' = {g(r) : r \in requests}
      /\ \A u \in Task : task'[u] = IF u = t THEN Idle ELSE task[u]
      /\ task' \in [Task -> Handler] /\ blocks' = blocks /\ up' = up
  BY IdleHandler DEF RenewWrite, Finish, IInv, TypeOK
<1>3. ASSUME NEW r \in requests
      PROVE  /\ g(r) \in Row /\ g(r).rid = r.rid /\ g(r).client = r.client
             /\ g(r).sender = r.sender /\ g(r).hard = r.hard /\ g(r).lease <= g(r).hard
  <2>1. r \in Row /\ r.lease <= r.hard
    BY DEF IInv, TypeOK, LeaseWithinHard
  <2>2. CASE r.rid = task[t].rid
    <3>1. task[t].lease <= r.hard
      BY <1>1, <2>2 DEF IInv, RenewalKnowsItsRow, RenewedLeaseWithinHard
    <3> QED
      BY <1>1, <2>1, <2>2, <3>1 DEF Extended, Row
  <2>3. CASE r.rid # task[t].rid
    BY <2>1, <2>3
  <2> QED
    BY <2>2, <2>3
<1>4. /\ requests' \subseteq Row
      /\ \A q \in requests' : \E r \in requests :
            /\ q = g(r) /\ q.rid = r.rid /\ q.client = r.client /\ q.sender = r.sender
            /\ q.hard = r.hard /\ q.lease <= q.hard
  BY <1>2, <1>3
<1> HIDE DEF g
<1>5. TypeOK'
  BY <1>2, <1>4 DEF IInv, TypeOK
<1>6. ArgumentsOK' /\ SendResolved' /\ NewLeaseWithinHard' /\ RenewedLeaseWithinHard'
  BY <1>2, IdleHandler DEF IInv, ArgumentsOK, SendResolved, NewLeaseWithinHard,
     RenewedLeaseWithinHard, SendPc, RenewPc, CancelPc, BlockPc, Minting
<1>7. IdsUnique' /\ OneRequestPerClientId'
  BY <1>4 DEF IInv, IdsUnique, OneRequestPerClientId
<1>8. MintedIdsUnused'
  BY <1>2, <1>4, IdleHandler DEF IInv, MintedIdsUnused, Minting, Bound
<1>9. LeaseWithinHard'
  BY <1>4 DEF LeaseWithinHard
<1>10. RenewalKnowsItsRow' /\ CancelOwnsItsRow'
  BY <1>2, <1>4, IdleHandler DEF IInv, RenewalKnowsItsRow, CancelOwnsItsRow
<1> QED
  BY <1>5, <1>6, <1>7, <1>8, <1>9, <1>10 DEF IInv

----
(* cancelLiveChatRequest, blockIdentity and unblockIdentity                *)

LEMMA CancelStartIInv ==
    ASSUME IInv, NEW t \in Task, NEW s \in Account, NEW id \in RequestId, CancelStart(t, s, id)
    PROVE  IInv'
<1> DEFINE h == [Idle EXCEPT !.pc = "c_read", !.actor = s, !.rid = id]
<1>1. h.pc = "c_read" /\ h.actor = s /\ h.rid = id
  BY DEF Idle
<1>2. h \in Handler
  <2>1. "c_read" \in Pc
    BY DEF Pc, CancelPc
  <2> QED
    BY <2>1, IdleHandler DEF Handler
<1>3. task' = [task EXCEPT ![t] = h] /\ requests' = requests /\ blocks' = blocks /\ up' = up
  BY DEF CancelStart, Begin
<1>4. blocks' \subseteq Account \X Account /\ up' \in BOOLEAN
  BY <1>3 DEF IInv, TypeOK
<1> HIDE DEF h
<1> QED
  BY <1>1, <1>2, <1>3, <1>4, HandlerStep DEF SendPc, RenewPc, CancelPc, BlockPc, Minting, Bound

LEMMA CancelReadIInv ==
    ASSUME IInv, NEW t \in Task, CancelRead(t) PROVE IInv'
<1>1. /\ task[t].rid \in RequestId /\ task[t].pc = "c_read"
  BY DEF CancelRead, At, IInv, ArgumentsOK, CancelPc
<1>2. blocks' \subseteq Account \X Account /\ up' \in BOOLEAN /\ requests' = requests /\ up' = up
  BY DEF CancelRead, IInv, TypeOK
<1>3. CASE Finish(t)
  BY <1>2, <1>3, FinishStep
<1>4. CASE Owned(task[t].rid, task[t].actor) # {} /\ Goto(t, "c_delete")
  <2>1. PICK r \in requests : r.rid = task[t].rid /\ r.sender = task[t].actor
    BY <1>4 DEF Owned
  <2>2. \A q \in requests : q.rid = task[t].rid => q.sender = task[t].actor
    BY <2>1 DEF IInv, IdsUnique
  <2>3. \A u \in Task : task[u].pc \in Minting => task[u].rid # task[t].rid
    BY <2>1 DEF IInv, MintedIdsUnused
  <2> QED
    BY <1>1, <1>2, <1>4, <2>2, <2>3, GotoStep DEF Pc, SendPc, RenewPc, CancelPc, BlockPc, Minting
<1> QED
  BY <1>3, <1>4 DEF CancelRead

LEMMA CancelDeleteIInv ==
    ASSUME IInv, NEW t \in Task, CancelDelete(t) PROVE IInv'
BY FinishStep DEF CancelDelete, IInv, TypeOK

LEMMA BlockStartIInv ==
    ASSUME IInv, NEW t \in Task, NEW b \in Account, NEW p \in Account, BlockStart(t, b, p)
    PROVE  IInv'
<1> DEFINE h == [Idle EXCEPT !.pc = "b_insert", !.actor = b, !.peer = p]
<1>1. h.pc = "b_insert" /\ h.actor = b /\ h.peer = p
  BY DEF Idle
<1>2. h \in Handler
  <2>1. "b_insert" \in Pc
    BY DEF Pc, BlockPc
  <2> QED
    BY <2>1, IdleHandler DEF Handler
<1>3. /\ task' = [task EXCEPT ![t] = h] /\ requests' = requests /\ blocks' = blocks /\ up' = up
      /\ b # p
  BY DEF BlockStart, Begin
<1>4. blocks' \subseteq Account \X Account /\ up' \in BOOLEAN
  BY <1>3 DEF IInv, TypeOK
<1> HIDE DEF h
<1> QED
  BY <1>1, <1>2, <1>3, <1>4, HandlerStep DEF SendPc, RenewPc, CancelPc, BlockPc, Minting, Bound

LEMMA BlockInsertIInv ==
    ASSUME IInv, NEW t \in Task, BlockInsert(t) PROVE IInv'
<1>1. /\ task[t].pc = "b_insert" /\ task[t].actor \in Account
      /\ task[t].peer \in Account \ {task[t].actor}
  BY DEF BlockInsert, At, IInv, ArgumentsOK, BlockPc
<1>2. blocks' \subseteq Account \X Account
  BY <1>1 DEF BlockInsert, IInv, TypeOK
<1> QED
  BY <1>1, <1>2, GotoStep DEF BlockInsert, Pc, SendPc, RenewPc, CancelPc, BlockPc, Minting, Bound

LEMMA BlockDeleteIInv ==
    ASSUME IInv, NEW t \in Task, BlockDelete(t) PROVE IInv'
<1>1. task[t].pc = "b_delete" /\ task[t].peer \in Account \ {task[t].actor}
  BY DEF BlockDelete, At, IInv, ArgumentsOK, BlockPc
<1>2. blocks' \subseteq Account \X Account
  BY DEF BlockDelete, IInv, TypeOK
<1> QED
  BY <1>1, <1>2, GotoStep DEF BlockDelete, Pc, SendPc, RenewPc, CancelPc, BlockPc, Minting, Bound

LEMMA BlockEndIInv ==
    ASSUME IInv, NEW t \in Task, BlockReply(t) \/ BlockVanished(t) PROVE IInv'
BY FinishStep DEF BlockReply, BlockVanished, IInv, TypeOK

\* A step that leaves the handlers alone and only removes rows.
LEMMA IdleStep ==
    ASSUME IInv, task' = task, requests' \subseteq requests,
           blocks' \subseteq Account \X Account, up' \in BOOLEAN
    PROVE  IInv'
<1>1. TypeOK' /\ ArgumentsOK' /\ SendResolved'
  BY DEF IInv, TypeOK, ArgumentsOK, SendResolved
<1>2. IdsUnique' /\ MintedIdsUnused' /\ OneRequestPerClientId'
  BY DEF IInv, IdsUnique, MintedIdsUnused, OneRequestPerClientId
<1>3. LeaseWithinHard' /\ NewLeaseWithinHard' /\ RenewedLeaseWithinHard'
  BY DEF IInv, LeaseWithinHard, NewLeaseWithinHard, RenewedLeaseWithinHard
<1>4. RenewalKnowsItsRow' /\ CancelOwnsItsRow'
  BY DEF IInv, RenewalKnowsItsRow, CancelOwnsItsRow
<1> QED
  BY <1>1, <1>2, <1>3, <1>4 DEF IInv

LEMMA UnblockIInv ==
    ASSUME IInv, NEW b \in Account, NEW p \in Account, Unblock(b, p) PROVE IInv'
BY IdleStep DEF Unblock, IInv, TypeOK

----
(* The environment                                                         *)

LEMMA CleanupIInv == ASSUME IInv, Cleanup \/ Restart PROVE IInv'
BY IdleStep DEF Cleanup, Restart, RemoveExpired, IInv, TypeOK

LEMMA AbortIInv == ASSUME IInv, NEW t \in Task, Abort(t) PROVE IInv'
BY FinishStep DEF Abort, IInv, TypeOK

LEMMA CrashIInv == ASSUME IInv, Crash PROVE IInv'
<1>1. /\ \A t \in Task : task'[t] = Idle /\ task'[t].pc = "idle"
      /\ task' \in [Task -> Handler] /\ requests' = requests /\ blocks' = blocks /\ up' \in BOOLEAN
  BY IdleHandler DEF Crash
<1>2. TypeOK' /\ ArgumentsOK' /\ SendResolved'
  BY <1>1 DEF IInv, TypeOK, ArgumentsOK, SendResolved, SendPc, RenewPc, CancelPc, BlockPc, Minting
<1>3. IdsUnique' /\ MintedIdsUnused' /\ OneRequestPerClientId'
  BY <1>1 DEF IInv, IdsUnique, MintedIdsUnused, OneRequestPerClientId, Minting
<1>4. LeaseWithinHard' /\ NewLeaseWithinHard' /\ RenewedLeaseWithinHard'
  BY <1>1 DEF IInv, LeaseWithinHard, NewLeaseWithinHard, RenewedLeaseWithinHard, Minting
<1>5. RenewalKnowsItsRow' /\ CancelOwnsItsRow'
  BY <1>1 DEF RenewalKnowsItsRow, CancelOwnsItsRow
<1> QED
  BY <1>2, <1>3, <1>4, <1>5 DEF IInv

LEMMA EarlierBounds ==
    ASSUME NEW m \in Nat, NEW n \in 0 .. m PROVE Earlier(n) \in 0 .. m
BY DEF Earlier

LEMMA EarlierMonotone ==
    ASSUME NEW m \in Nat, NEW n \in Nat, m <= n PROVE Earlier(m) <= Earlier(n)
BY DEF Earlier

\* Time moves every instant by the same amount, so orders and equalities
\* between instants stay.
LEMMA TickIInv == ASSUME IInv, Tick PROVE IInv'
<1> DEFINE g(r) == [r EXCEPT !.lease = Earlier(r.lease), !.hard = Earlier(r.hard)]
<1>1. ASSUME NEW r \in requests
      PROVE  /\ g(r) \in Row /\ g(r).rid = r.rid /\ g(r).client = r.client
             /\ g(r).sender = r.sender /\ g(r).hard = Earlier(r.hard) /\ g(r).lease <= g(r).hard
  <2>1. r \in Row /\ r.lease <= r.hard
    BY DEF IInv, TypeOK, LeaseWithinHard
  <2>2. Earlier(r.lease) \in 0 .. LeaseTTL /\ Earlier(r.hard) \in 0 .. HardTTL
    BY <2>1, EarlierBounds, ParamsAssumption DEF Row
  <2>3. Earlier(r.lease) <= Earlier(r.hard)
    BY <2>1, EarlierMonotone, ParamsAssumption DEF Row
  <2> QED
    BY <2>1, <2>2, <2>3 DEF Row
<1>2. ASSUME NEW t \in Task
      PROVE  /\ g(task[t]) \in Handler /\ g(task[t]).pc = task[t].pc
             /\ g(task[t]).actor = task[t].actor /\ g(task[t]).peer = task[t].peer
             /\ g(task[t]).client = task[t].client /\ g(task[t]).rid = task[t].rid
             /\ g(task[t]).hard = Earlier(task[t].hard)
             /\ task[t].lease <= task[t].hard => g(task[t]).lease <= g(task[t]).hard
  <2>1. task[t] \in Handler
    BY DEF IInv, TypeOK
  <2>2. Earlier(task[t].lease) \in 0 .. LeaseTTL /\ Earlier(task[t].hard) \in 0 .. HardTTL
    BY <2>1, EarlierBounds, ParamsAssumption DEF Handler
  <2>3. task[t].lease <= task[t].hard => Earlier(task[t].lease) <= Earlier(task[t].hard)
    BY <2>1, EarlierMonotone, ParamsAssumption DEF Handler
  <2>4. g(task[t]) \in Handler
    BY <2>1, <2>2 DEF Handler
  <2> QED
    BY <2>1, <2>3, <2>4 DEF Handler
<1>3. /\ requests' = {g(r) : r \in requests} /\ task' = [t \in Task |-> g(task[t])]
      /\ blocks' = blocks /\ up' = up
  BY DEF Tick
<1>4. /\ requests' \subseteq Row
      /\ \A q \in requests' : \E r \in requests :
            /\ q = g(r) /\ q.rid = r.rid /\ q.client = r.client /\ q.sender = r.sender
            /\ q.hard = Earlier(r.hard) /\ q.lease <= q.hard
  BY <1>1, <1>3
<1>5. /\ task' \in [Task -> Handler]
      /\ \A t \in Task :
            /\ task'[t].pc = task[t].pc /\ task'[t].actor = task[t].actor
            /\ task'[t].peer = task[t].peer /\ task'[t].client = task[t].client
            /\ task'[t].rid = task[t].rid /\ task'[t].hard = Earlier(task[t].hard)
            /\ task[t].lease <= task[t].hard => task'[t].lease <= task'[t].hard
  BY <1>2, <1>3
<1> HIDE DEF g
<1>6. TypeOK' /\ ArgumentsOK' /\ SendResolved'
  BY <1>3, <1>4, <1>5 DEF IInv, TypeOK, ArgumentsOK, SendResolved
<1>7. IdsUnique' /\ OneRequestPerClientId'
  BY <1>4 DEF IInv, IdsUnique, OneRequestPerClientId
<1>8. MintedIdsUnused'
  BY <1>4, <1>5 DEF IInv, MintedIdsUnused
<1>9. LeaseWithinHard' /\ NewLeaseWithinHard' /\ RenewedLeaseWithinHard'
  BY <1>4, <1>5 DEF IInv, LeaseWithinHard, NewLeaseWithinHard, RenewedLeaseWithinHard
<1>10. RenewalKnowsItsRow' /\ CancelOwnsItsRow'
  BY <1>4, <1>5 DEF IInv, RenewalKnowsItsRow, CancelOwnsItsRow
<1> QED
  BY <1>6, <1>7, <1>8, <1>9, <1>10 DEF IInv

----
(* The theorems                                                            *)

LEMMA StepIInv == IInv /\ [Next]_vars => IInv'
<1> SUFFICES ASSUME IInv, [Next]_vars PROVE IInv'
  OBVIOUS
<1>1. CASE UNCHANGED vars
  BY <1>1, IdleStep DEF vars, IInv, TypeOK
<1>2. ASSUME NEW t \in Task, SendStep(t) PROVE IInv'
  BY <1>2, SendStartIInv, SendExpireIInv, SendLookupIInv, SendCountIInv, SendResolveIInv,
     SendCheckIInv, SendInsertIInv DEF SendStep
<1>3. ASSUME NEW t \in Task, RenewStep(t) PROVE IInv'
  BY <1>3, RenewStartIInv, RenewExpireIInv, RenewReadIInv, RenewStampIInv, RenewWriteIInv
     DEF RenewStep
<1>4. ASSUME NEW t \in Task, CancelStep(t) PROVE IInv'
  BY <1>4, CancelStartIInv, CancelReadIInv, CancelDeleteIInv DEF CancelStep
<1>5. ASSUME NEW t \in Task, BlockStep(t) PROVE IInv'
  BY <1>5, BlockStartIInv, BlockInsertIInv, BlockDeleteIInv, BlockEndIInv DEF BlockStep
<1>6. ASSUME NEW b \in Account, NEW p \in Account, Unblock(b, p) PROVE IInv'
  BY <1>6, UnblockIInv
<1>7. CASE Environment
  BY <1>7, CleanupIInv, CrashIInv, TickIInv, AbortIInv DEF Environment
<1> QED
  BY <1>1, <1>2, <1>3, <1>4, <1>5, <1>6, <1>7 DEF Next

\* The strengthened invariant holds in every reachable state.
THEOREM Invariant == Spec => []IInv
<1>1. Init => IInv
  BY InitIInv
<1>2. IInv /\ [Next]_vars => IInv'
  BY StepIInv
<1> QED
  BY <1>1, <1>2, PTL DEF Spec

\* Rows, blocks and handlers keep their shape; in particular every stored
\* recipient is an account.
THEOREM TypeCorrect == Spec => []TypeOK
<1>1. IInv => TypeOK
  BY DEF IInv
<1> QED
  BY <1>1, Invariant, PTL

\* No interleaving of renewals, delays and restarts stretches a lease beyond
\* the hard expiry of its request.
THEOREM LeaseNeverOutlivesHardExpiry == Spec => []LeaseWithinHard
<1>1. IInv => LeaseWithinHard
  BY DEF IInv
<1> QED
  BY <1>1, Invariant, PTL

\* However many retries run at once, a client_request_id stores one request.
THEOREM RetriesStoreOneRequest == Spec => []OneRequestPerClientId
<1>1. IInv => OneRequestPerClientId
  BY DEF IInv
<1> QED
  BY <1>1, Invariant, PTL

----
(* Action properties                                                       *)

\* Where the rows of the next state come from: a row that was there, in the
\* hands of the same parties and due no later unless its renewal is written,
\* or a send about to insert.
Inherits(q, r) ==
    /\ r.rid = q.rid /\ r.sender = q.sender /\ r.recipient = q.recipient /\ r.client = q.client
    /\ q.hard <= r.hard
    /\ q.lease <= r.lease \/ \E t \in Task : At(t, "r_write") /\ task[t].rid = r.rid

InsertedBy(t, q) ==
    /\ At(t, "s_insert") /\ q.sender = task[t].actor /\ q.recipient = task[t].peer
    /\ q.rid = task[t].rid

LEMMA InheritsItself == ASSUME IInv, NEW r \in requests PROVE Inherits(r, r)
<1>1. r.lease \in Nat /\ r.hard \in Nat
  BY ParamsAssumption DEF IInv, TypeOK, Row
<1> QED
  BY <1>1 DEF Inherits

LEMMA OtherStepsOnlyRemove ==
    ASSUME [Next]_vars, \A t \in Task : ~SendInsert(t) /\ ~RenewWrite(t), ~Tick
    PROVE  requests' \subseteq requests
<1>1. CASE UNCHANGED vars
  BY <1>1 DEF vars
<1>2. ASSUME NEW t \in Task, SendStep(t) PROVE requests' \subseteq requests
  BY <1>2 DEF SendStep, SendStart, SendExpire, SendLookup, SendCount, SendResolve, SendCheck,
     RemoveExpired
<1>3. ASSUME NEW t \in Task, RenewStep(t) PROVE requests' \subseteq requests
  BY <1>3 DEF RenewStep, RenewStart, RenewExpire, RenewRead, RenewStamp, RemoveExpired
<1>4. ASSUME NEW t \in Task, CancelStep(t) \/ BlockStep(t) PROVE requests' \subseteq requests
  BY <1>4 DEF CancelStep, CancelStart, CancelRead, CancelDelete, BlockStep, BlockStart,
     BlockInsert, BlockDelete, BlockReply, BlockVanished
<1>5. CASE Environment \/ \E b, p \in Account : Unblock(b, p)
  BY <1>5 DEF Environment, Cleanup, Crash, Restart, Abort, Unblock, RemoveExpired
<1> QED
  BY <1>1, <1>2, <1>3, <1>4, <1>5 DEF Next

LEMMA RowsOfNextState ==
    ASSUME IInv, [Next]_vars, NEW q \in requests'
    PROVE  (\E r \in requests : Inherits(q, r)) \/ (\E t \in Task : InsertedBy(t, q))
<1>1. CASE ~Tick /\ \A t \in Task : ~SendInsert(t) /\ ~RenewWrite(t)
  BY <1>1, OtherStepsOnlyRemove, InheritsItself
<1>2. ASSUME NEW t \in Task, SendInsert(t)
      PROVE  (\E r \in requests : Inherits(q, r)) \/ InsertedBy(t, q)
  <2>1. CASE q \in requests
    BY <2>1, InheritsItself
  <2>2. CASE q \notin requests
    <3>1. /\ At(t, "s_insert")
          /\ q = [rid |-> task[t].rid, client |-> task[t].client,
                  sender |-> task[t].actor, recipient |-> task[t].peer,
                  lease |-> task[t].lease, hard |-> task[t].hard]
      BY <1>2, <2>2 DEF SendInsert
    <3> QED
      BY <3>1 DEF InsertedBy
  <2> QED
    BY <2>1, <2>2
<1>3. ASSUME NEW t \in Task, RenewWrite(t) PROVE \E r \in requests : Inherits(q, r)
  <2>1. PICK r \in requests : q = IF r.rid = task[t].rid THEN Extended(r, task[t].lease) ELSE r
    BY <1>3 DEF RenewWrite
  <2>2. r \in Row /\ r.hard \in Nat
    BY ParamsAssumption DEF IInv, TypeOK, Row
  <2>3. CASE r.rid = task[t].rid
    <3>1. At(t, "r_write")
      BY <1>3 DEF RenewWrite
    <3>2. /\ q.rid = r.rid /\ q.sender = r.sender /\ q.recipient = r.recipient
          /\ q.client = r.client /\ q.hard = r.hard
      BY <2>1, <2>2, <2>3 DEF Extended, Row
    <3> QED
      BY <2>2, <2>3, <3>1, <3>2 DEF Inherits
  <2>4. CASE r.rid # task[t].rid
    BY <2>1, <2>4, InheritsItself
  <2> QED
    BY <2>3, <2>4
<1>4. CASE Tick
  <2>1. PICK r \in requests : q = [r EXCEPT !.lease = Earlier(r.lease), !.hard = Earlier(r.hard)]
    BY <1>4 DEF Tick
  <2>2. r \in Row /\ r.hard \in Nat /\ r.lease \in Nat
    BY ParamsAssumption DEF IInv, TypeOK, Row
  <2>3. Earlier(r.hard) <= r.hard /\ Earlier(r.lease) <= r.lease
    BY <2>2 DEF Earlier
  <2>4. /\ q.rid = r.rid /\ q.sender = r.sender /\ q.recipient = r.recipient
        /\ q.client = r.client /\ q.hard = Earlier(r.hard) /\ q.lease = Earlier(r.lease)
    BY <2>1, <2>2 DEF Row
  <2> QED
    BY <2>3, <2>4 DEF Inherits
<1> QED
  BY <1>1, <1>2, <1>3, <1>4

\* A handler is at the insert only if it was there or passes the block check.
LEMMA InsertersPassedTheCheck ==
    ASSUME IInv, [Next]_vars, NEW t \in Task, task'[t].pc = "s_insert"
    PROVE  /\ task'[t].actor = task[t].actor /\ task'[t].peer = task[t].peer
           /\ task[t].pc = "s_insert" \/ (Accepts(task[t].peer, task[t].actor) /\ blocks' = blocks)
<1> DEFINE Kept == task'[t] = task[t]
<1>1. task \in [Task -> Handler] /\ task[t] \in Handler
  BY DEF IInv, TypeOK
<1>2. CASE UNCHANGED vars
  BY <1>2 DEF vars
<1>3. ASSUME NEW u \in Task, SendStep(u), ~SendCheck(u) PROVE Kept
  <2>1. CASE \E s \in Account, p \in Account \cup {Unknown}, c \in ClientId : SendStart(u, s, p, c)
    BY <1>1, <2>1 DEF SendStart, Begin, Idle
  <2>2. CASE SendResolve(u)
    <3>1. CASE Finish(u)
      BY <1>1, <3>1 DEF Finish, Idle
    <3>2. CASE \E id \in Fresh :
                  task' = [task EXCEPT ![u].pc = "s_check", ![u].rid = id,
                                       ![u].lease = LeaseTTL, ![u].hard = HardTTL]
      BY <1>1, <3>2 DEF Handler
    <3> QED
      BY <2>2, <3>1, <3>2 DEF SendResolve
  <2>3. CASE SendExpire(u) \/ SendLookup(u) \/ SendCount(u) \/ SendInsert(u)
    BY <1>1, <2>3 DEF SendExpire, SendLookup, SendCount, SendInsert, Goto, Finish, Idle, Handler
  <2> QED
    BY <1>3, <2>1, <2>2, <2>3 DEF SendStep
<1>4. ASSUME NEW u \in Task, RenewStep(u) PROVE Kept
  <2>1. CASE \E s \in Account, id \in RequestId : RenewStart(u, s, id)
    BY <1>1, <2>1 DEF RenewStart, Begin, Idle
  <2>2. CASE RenewRead(u) \/ RenewStamp(u)
    BY <1>1, <2>2 DEF RenewRead, RenewStamp, Finish, Idle, Handler
  <2>3. CASE RenewExpire(u) \/ RenewWrite(u)
    BY <1>1, <2>3 DEF RenewExpire, RenewWrite, Goto, Finish, Idle, Handler
  <2> QED
    BY <1>4, <2>1, <2>2, <2>3 DEF RenewStep
<1>5. ASSUME NEW u \in Task, CancelStep(u) PROVE Kept
  <2>1. CASE \E s \in Account, id \in RequestId : CancelStart(u, s, id)
    BY <1>1, <2>1 DEF CancelStart, Begin, Idle
  <2>2. CASE CancelRead(u) \/ CancelDelete(u)
    BY <1>1, <2>2 DEF CancelRead, CancelDelete, Goto, Finish, Idle, Handler
  <2> QED
    BY <1>5, <2>1, <2>2 DEF CancelStep
<1>6. ASSUME NEW u \in Task, BlockStep(u) PROVE Kept
  <2>1. CASE \E b, p \in Account : BlockStart(u, b, p)
    BY <1>1, <2>1 DEF BlockStart, Begin, Idle
  <2>2. CASE BlockInsert(u) \/ BlockDelete(u) \/ BlockReply(u) \/ BlockVanished(u)
    BY <1>1, <2>2 DEF BlockInsert, BlockDelete, BlockReply, BlockVanished, Goto, Finish, Idle, Handler
  <2> QED
    BY <1>6, <2>1, <2>2 DEF BlockStep
<1>7. CASE Cleanup \/ Restart \/ \E b, p \in Account : Unblock(b, p)
  BY <1>7 DEF Cleanup, Restart, Unblock
<1>8. CASE Crash \/ \E u \in Task : Abort(u)
  BY <1>1, <1>8 DEF Crash, Abort, Finish, Idle
<1>9. CASE Tick
  BY <1>1, <1>9 DEF Tick, Handler
<1>10. ASSUME NEW u \in Task, SendCheck(u)
       PROVE  /\ task'[t].actor = task[t].actor /\ task'[t].peer = task[t].peer
              /\ task[t].pc = "s_insert" \/ (Accepts(task[t].peer, task[t].actor) /\ blocks' = blocks)
  <2>1. CASE u # t
    BY <1>1, <1>10, <2>1 DEF SendCheck, Goto, Finish
  <2>2. CASE u = t
    BY <1>1, <1>10, <2>2 DEF SendCheck, Goto, Finish, Idle, Handler
  <2> QED
    BY <2>1, <2>2
<1> QED
  BY <1>2, <1>3, <1>4, <1>5, <1>6, <1>7, <1>8, <1>9, <1>10 DEF Next, Environment

LEMMA SealedStep ==
    ASSUME IInv, [Next]_vars, NEW b \in Account, NEW s \in Account, Sealed(b, s),
           <<b, s>> \in blocks'
    PROVE  Sealed(b, s)'
<1>1. ASSUME NEW q \in requests', q.sender = s, q.recipient = b PROVE FALSE
  BY <1>1, RowsOfNextState DEF Sealed, Inherits, InsertedBy
<1>2. ASSUME NEW t \in Task, task'[t].pc = "s_insert", task'[t].actor = s, task'[t].peer = b
      PROVE  FALSE
  BY <1>2, InsertersPassedTheCheck DEF Sealed, At, Accepts
<1> QED
  BY <1>1, <1>2 DEF Sealed, At

\* A sealed block opens only by unblockIdentity.
THEOREM SealedBlocksHold == Spec => SealedBlockStaysSealed
<1>1. IInv /\ [Next]_vars =>
        [\A b, s \in Account : Sealed(b, s) /\ <<b, s>> \in blocks' => Sealed(b, s)']_vars
  BY SealedStep
<1> QED
  BY <1>1, Invariant, PTL DEF Spec, SealedBlockStaysSealed

\* A stored request keeps its parties and its hard expiry, and its lease is
\* postponed by its own sender's renewal only.
THEOREM OnlySendersRenew == Spec => OnlyTheSenderRenews
<1>1. ASSUME IInv, [Next]_vars, NEW r \in requests, NEW q \in requests', q.rid = r.rid
      PROVE  /\ q.sender = r.sender /\ q.recipient = r.recipient /\ q.client = r.client
             /\ q.hard <= r.hard
             /\ q.lease > r.lease =>
                   \E t \in Task : At(t, "r_write") /\ task[t].actor = r.sender
  <2>1. ~ \E t \in Task : InsertedBy(t, q)
    BY <1>1 DEF InsertedBy, At, IInv, MintedIdsUnused, Minting
  <2>2. Inherits(q, r)
    BY <1>1, <2>1, RowsOfNextState DEF Inherits, IInv, IdsUnique
  <2>3. q \in Row /\ r \in Row
    BY <1>1, StepIInv DEF IInv, TypeOK
  <2>4. q.lease <= r.lease => ~(q.lease > r.lease)
    BY <2>3, ParamsAssumption DEF Row
  <2>5. \A t \in Task : At(t, "r_write") /\ task[t].rid = r.rid => task[t].actor = r.sender
    BY <1>1 DEF At, IInv, RenewalKnowsItsRow
  <2> QED
    BY <2>2, <2>4, <2>5 DEF Inherits
<1>2. IInv /\ [Next]_vars =>
        [\A r \in requests, q \in requests' : q.rid = r.rid =>
          /\ q.sender = r.sender /\ q.recipient = r.recipient /\ q.client = r.client
          /\ q.hard <= r.hard
          /\ q.lease > r.lease =>
                \E t \in Task : At(t, "r_write") /\ task[t].actor = r.sender]_vars
  BY <1>1
<1> QED
  BY <1>2, Invariant, PTL DEF Spec, OnlyTheSenderRenews

\* The steps that delete rows.
LEMMA OnlyTheseDelete ==
    ASSUME IInv, [Next]_vars, NEW r \in requests, Gone(r)
    PROVE  \/ RemoveExpired
           \/ \E t \in Task : CancelDelete(t) \/ BlockDelete(t)
<1> SUFFICES ASSUME ~RemoveExpired, \A t \in Task : ~CancelDelete(t) /\ ~BlockDelete(t)
             PROVE  \E q \in requests' : q.rid = r.rid
  BY DEF Gone
<1>1. CASE UNCHANGED vars
  BY <1>1 DEF vars
<1>2. ASSUME NEW t \in Task, SendStep(t) PROVE r \in requests'
  BY <1>2 DEF SendStep, SendStart, SendExpire, SendLookup, SendCount, SendResolve, SendCheck,
     SendInsert
<1>3. ASSUME NEW t \in Task, RenewStep(t), ~RenewWrite(t) PROVE r \in requests'
  BY <1>3 DEF RenewStep, RenewStart, RenewExpire, RenewRead, RenewStamp
<1>4. ASSUME NEW t \in Task, CancelStep(t) \/ BlockStep(t) PROVE r \in requests'
  BY <1>4 DEF CancelStep, CancelStart, CancelRead, BlockStep, BlockStart, BlockInsert,
     BlockReply, BlockVanished
<1>5. ASSUME NEW t \in Task, RenewWrite(t) PROVE \E q \in requests' : q.rid = r.rid
  <2> DEFINE q == IF r.rid = task[t].rid THEN Extended(r, task[t].lease) ELSE r
  <2>1. q \in requests'
    BY <1>5 DEF RenewWrite
  <2>2. q.rid = r.rid
    BY DEF Extended, IInv, TypeOK, Row
  <2> QED
    BY <2>1, <2>2
<1>6. CASE Tick
  <2> DEFINE q == [r EXCEPT !.lease = Earlier(r.lease), !.hard = Earlier(r.hard)]
  <2>1. q \in requests'
    BY <1>6 DEF Tick
  <2>2. q.rid = r.rid
    BY DEF IInv, TypeOK, Row
  <2> QED
    BY <2>1, <2>2
<1>7. CASE (Environment /\ ~Tick) \/ \E b, p \in Account : Unblock(b, p)
  BY <1>7 DEF Environment, Cleanup, Restart, Crash, Abort, Unblock
<1> QED
  BY <1>1, <1>2, <1>3, <1>4, <1>5, <1>6, <1>7 DEF Next

\* A request goes because it expired, because its sender cancels it, or
\* because its recipient blocks the sender.
THEOREM RemovalsAreAuthorised == Spec => RemovalIsAuthorised
<1>1. ASSUME IInv, [Next]_vars, NEW r \in requests, Gone(r), ~Expired(r)
      PROVE  \E t \in Task : \/ At(t, "c_delete") /\ task[t].actor = r.sender
                             \/ /\ At(t, "b_delete")
                                /\ task[t].actor = r.recipient
                                /\ task[t].peer = r.sender
  <2>1. ~RemoveExpired
    BY <1>1 DEF RemoveExpired, Gone
  <2>2. PICK t \in Task : CancelDelete(t) \/ BlockDelete(t)
    BY <1>1, <2>1, OnlyTheseDelete
  <2>3. CASE CancelDelete(t)
    BY <1>1, <2>3 DEF CancelDelete, At, Gone, IInv, CancelOwnsItsRow
  <2>4. CASE BlockDelete(t)
    BY <1>1, <2>4 DEF BlockDelete, At, Gone
  <2> QED
    BY <2>2, <2>3, <2>4
<1>2. IInv /\ [Next]_vars =>
        [\A r \in requests : Gone(r) =>
          \/ Expired(r)
          \/ \E t \in Task : \/ At(t, "c_delete") /\ task[t].actor = r.sender
                             \/ /\ At(t, "b_delete")
                                /\ task[t].actor = r.recipient
                                /\ task[t].peer = r.sender]_vars
  BY <1>1
<1> QED
  BY <1>2, Invariant, PTL DEF Spec, RemovalIsAuthorised

====
