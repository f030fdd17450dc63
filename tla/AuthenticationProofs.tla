------------------------ MODULE AuthenticationProofs ------------------------
(* Theorems about Authentication for every number of accounts, challenges  *)
(* and concurrent handlers, every challenge lifetime and every day length. *)
EXTENDS AuthenticationRefinement, TLAPS

LEMMA IdleHandler == Idle \in Handler /\ Idle.pc = "idle"
BY ParamsAssumption DEF Idle, Handler, Pc

LEMMA InitIInv == Init => IInv
<1> SUFFICES ASSUME Init PROVE IInv
  OBVIOUS
<1>1. \A t \in Task : task[t].pc = "idle"
  BY IdleHandler DEF Init
<1>2. TypeOK
  BY IdleHandler, ParamsAssumption DEF Init, TypeOK
<1>3. ArgumentsOK /\ InsertsAreNew /\ ClaimsAreMinted /\ ClaimsAreSigned /\ WinnersAreAlone
  BY <1>1 DEF ArgumentsOK, InsertsAreNew, ClaimsAreMinted, ClaimsAreSigned, WinnersAreAlone,
     AuthPc, Reading, Claiming
<1>4. LockMatches /\ SnapshotsUnspent
  BY <1>1, ParamsAssumption DEF Init, LockMatches, SnapshotsUnspent, Reading
<1>5. /\ IdsUnique /\ RowsAreMinted /\ PastDayMeansExpired /\ SessionsAreMinted
      /\ OneSessionPerChallenge /\ SessionMeansUsed
  BY DEF Init, IdsUnique, RowsAreMinted, PastDayMeansExpired, SessionsAreMinted,
     OneSessionPerChallenge, SessionMeansUsed
<1> QED
  BY <1>2, <1>3, <1>4, <1>5 DEF IInv

\* A step of handler t that leaves it as h and stores nothing keeps the
\* invariant when h meets what the invariant says of a handler.
LEMMA HandlerStep ==
    ASSUME IInv, NEW t \in Task, NEW h \in Handler, task' = [task EXCEPT ![t] = h],
           challenges' = challenges, owner' = owner, issued' = issued, tod' = tod,
           up' \in BOOLEAN,
           h.pc = "a_commit" => writer = None /\ writer' = t,
           h.pc # "a_commit" => writer' = LockAfter(t),
           h.pc \notin {"q_insert", "a_issue"},
           h.pc = "q_lookup" => h.account \in Account \cup {Unknown},
           h.pc = "q_mint" => h.account \in Account,
           h.pc \in AuthPc => h.account \in Account /\ h.cid \in ChallengeId,
           h.pc \in Claiming =>
              /\ owner[h.cid] = h.account
              /\ \A u \in Task \ {t} : task[u].pc = "q_insert" => task[u].cid # h.cid,
           h.pc \in {"a_update", "a_commit"} => h.by = h.account /\ h.over = h.cid,
           (h.pc \in Reading /\ ~h.stale) \/ h.pc = "a_commit" => Unspent(h.cid)
    PROVE  IInv'
<1>1. \A u \in Task : task'[u] = IF u = t THEN h ELSE task[u]
  BY DEF IInv, TypeOK
<1>2. TypeOK'
  BY <1>1 DEF IInv, TypeOK, LockAfter
<1>3. ArgumentsOK'
  BY <1>1 DEF IInv, ArgumentsOK
<1>4. /\ IdsUnique' /\ RowsAreMinted' /\ PastDayMeansExpired' /\ SessionsAreMinted'
      /\ OneSessionPerChallenge' /\ SessionMeansUsed'
  BY DEF IInv, IdsUnique, RowsAreMinted, PastDayMeansExpired, SessionsAreMinted,
     OneSessionPerChallenge, SessionMeansUsed
<1>5. InsertsAreNew'
  BY <1>1 DEF IInv, InsertsAreNew
<1>6. ClaimsAreMinted' /\ ClaimsAreSigned'
  BY <1>1 DEF IInv, ClaimsAreMinted, ClaimsAreSigned
<1>7. LockMatches'
  BY <1>1, ParamsAssumption DEF IInv, LockMatches, LockAfter
<1>8. SnapshotsUnspent'
  BY <1>1 DEF IInv, SnapshotsUnspent, Unspent
<1>9. WinnersAreAlone'
  BY <1>1 DEF IInv, WinnersAreAlone
<1> QED
  BY <1>2, <1>3, <1>4, <1>5, <1>6, <1>7, <1>8, <1>9 DEF IInv

\* A handler that ends, rolling back what it had open.
LEMMA FinishStep ==
    ASSUME IInv, NEW t \in Task, Finish(t), writer' = LockAfter(t),
           challenges' = challenges, owner' = owner, issued' = issued, tod' = tod, up' = up
    PROVE  IInv'
<1>1. up' \in BOOLEAN
  BY DEF IInv, TypeOK
<1> QED
  BY <1>1, IdleHandler, HandlerStep DEF Finish, AuthPc, Reading, Claiming

\* A handler not between UPDATE and commit holds no lock.
LEMMA NoLock ==
    ASSUME IInv, NEW t \in Task, task[t].pc # "a_commit"
    PROVE  LockAfter(t) = writer
BY DEF IInv, LockMatches, LockAfter

----
(* requestChallenge                                                        *)

LEMMA ChallengeStartIInv ==
    ASSUME IInv, NEW t \in Task, NEW a \in Account \cup {Unknown}, ChallengeStart(t, a) PROVE IInv'
<1> DEFINE h == [Idle EXCEPT !.pc = "q_lookup", !.account = a]
<1>1. h.pc = "q_lookup" /\ h.account = a
  BY DEF Idle
<1>2. h \in Handler
  <2>1. "q_lookup" \in Pc
    BY DEF Pc, ChallengePc
  <2> QED
    BY <2>1, IdleHandler DEF Handler
<1>3. /\ task' = [task EXCEPT ![t] = h] /\ task[t].pc = "idle" /\ up' = up /\ writer' = writer
      /\ challenges' = challenges /\ owner' = owner /\ issued' = issued /\ tod' = tod
  BY DEF ChallengeStart, Begin
<1>4. up' \in BOOLEAN /\ writer' = LockAfter(t)
  BY <1>3, NoLock DEF IInv, TypeOK
<1> HIDE DEF h
<1> QED
  BY <1>1, <1>2, <1>3, <1>4, HandlerStep DEF AuthPc, Reading, Claiming

LEMMA ChallengeLookupIInv ==
    ASSUME IInv, NEW t \in Task, ChallengeLookup(t) PROVE IInv'
<1>1. /\ task[t] \in Handler /\ task[t].pc = "q_lookup" /\ task[t].account \in Account \cup {Unknown}
      /\ writer' = writer /\ up' = up /\ up \in BOOLEAN
      /\ challenges' = challenges /\ owner' = owner /\ issued' = issued /\ tod' = tod
  BY DEF ChallengeLookup, At, IInv, TypeOK, ArgumentsOK
<1>2. writer' = LockAfter(t)
  BY <1>1, NoLock
<1>3. CASE Finish(t)
  BY <1>1, <1>2, <1>3, FinishStep
<1>4. CASE Registered(task[t].account) /\ Goto(t, "q_mint")
  <2> DEFINE h == [task[t] EXCEPT !.pc = "q_mint"]
  <2>1. h \in Handler /\ h.pc = "q_mint" /\ h.account = task[t].account
    BY <1>1 DEF Handler, Pc, ChallengePc
  <2>2. task' = [task EXCEPT ![t] = h]
    BY <1>4 DEF Goto
  <2> HIDE DEF h
  <2> QED
    BY <1>1, <1>2, <1>4, <2>1, <2>2, HandlerStep DEF Registered, AuthPc, Reading, Claiming
<1> QED
  BY <1>3, <1>4 DEF ChallengeLookup

\* A fresh id is in no row, in no other insert and in no claim.
LEMMA ChallengeMintIInv ==
    ASSUME IInv, NEW t \in Task, ChallengeMint(t) PROVE IInv'
<1>1. PICK c \in ChallengeId :
         /\ owner[c] = None
         /\ owner' = [owner EXCEPT ![c] = task[t].account]
         /\ task' = [task EXCEPT ![t].pc = "q_insert", ![t].cid = c, ![t].left = ChallengeTTL]
  BY DEF ChallengeMint
<1>2. /\ task[t] \in Handler /\ task[t].pc = "q_mint" /\ task[t].account \in Account
      /\ challenges' = challenges /\ writer' = writer /\ tod' = tod /\ up' = up /\ issued' = issued
  BY DEF ChallengeMint, At, IInv, TypeOK, ArgumentsOK
<1> DEFINE h == [task[t] EXCEPT !.pc = "q_insert", !.cid = c, !.left = ChallengeTTL]
<1>3. h \in Handler
  <2>1. "q_insert" \in Pc /\ ChallengeTTL \in 0 .. ChallengeTTL
    BY ParamsAssumption DEF Pc, ChallengePc
  <2> QED
    BY <1>2, <2>1 DEF Handler
<1>4. h.pc = "q_insert" /\ h.cid = c /\ h.account = task[t].account
  BY <1>2 DEF Handler
<1>5. \A u \in Task : task'[u] = IF u = t THEN h ELSE task[u]
  BY <1>1 DEF IInv, TypeOK
<1>6. task' \in [Task -> Handler]
  BY <1>1, <1>3 DEF IInv, TypeOK
<1> HIDE DEF h
<1>7. \A d \in ChallengeId : owner'[d] = IF d = c THEN task[t].account ELSE owner[d]
  BY <1>1 DEF IInv, TypeOK
<1>8. /\ issued[c] = 0 /\ \A r \in challenges : r.cid # c
      /\ \A u \in Task : task[u].pc \in Claiming \cup {"q_insert"} => task[u].cid # c
  <2>1. issued[c] = 0
    BY <1>1 DEF IInv, SessionsAreMinted
  <2>2. \A r \in challenges : r.cid # c
    BY <1>1, ParamsAssumption DEF IInv, TypeOK, Row, RowsAreMinted
  <2>3. \A u \in Task : task[u].pc \in Claiming \cup {"q_insert"} => task[u].cid # c
    BY <1>1, ParamsAssumption DEF IInv, ArgumentsOK, ClaimsAreMinted, InsertsAreNew, Claiming,
       AuthPc, Reading
  <2> QED
    BY <2>1, <2>2, <2>3
<1>9. TypeOK'
  <2>1. owner' \in [ChallengeId -> Account \cup {None}]
    BY <1>1, <1>2 DEF IInv, TypeOK
  <2> QED
    BY <1>2, <1>6, <2>1 DEF IInv, TypeOK
<1>10. ArgumentsOK'
  BY <1>2, <1>4, <1>5 DEF IInv, ArgumentsOK, AuthPc, Reading
<1>11. /\ IdsUnique' /\ PastDayMeansExpired' /\ OneSessionPerChallenge' /\ SessionMeansUsed'
  BY <1>2 DEF IInv, IdsUnique, PastDayMeansExpired, OneSessionPerChallenge, SessionMeansUsed
<1>12. RowsAreMinted' /\ SessionsAreMinted'
  <2>1. RowsAreMinted'
    BY <1>2, <1>7, <1>8 DEF IInv, TypeOK, Row, RowsAreMinted
  <2>2. SessionsAreMinted'
    BY <1>2, <1>7, <1>8 DEF IInv, SessionsAreMinted
  <2> QED
    BY <2>1, <2>2
<1>13. InsertsAreNew'
  BY <1>2, <1>4, <1>5, <1>7, <1>8 DEF IInv, InsertsAreNew, ArgumentsOK, Claiming
<1>14. ClaimsAreMinted' /\ ClaimsAreSigned'
  <2>1. ClaimsAreMinted'
    BY <1>4, <1>5, <1>7, <1>8 DEF IInv, ClaimsAreMinted, ArgumentsOK, Claiming, AuthPc, Reading
  <2>2. ClaimsAreSigned'
    BY <1>4, <1>5 DEF IInv, ClaimsAreSigned
  <2> QED
    BY <2>1, <2>2
<1>15. LockMatches' /\ SnapshotsUnspent' /\ WinnersAreAlone'
  BY <1>2, <1>4, <1>5 DEF IInv, LockMatches, SnapshotsUnspent, WinnersAreAlone, Unspent, Reading
<1> QED
  BY <1>9, <1>10, <1>11, <1>12, <1>13, <1>14, <1>15 DEF IInv

\* What the commit of another transaction does to a handler.
LEMMA OutdateKeeps ==
    ASSUME NEW h \in Handler
    PROVE  /\ Outdate(h) \in Handler
           /\ Outdate(h).pc = h.pc /\ Outdate(h).account = h.account /\ Outdate(h).cid = h.cid
           /\ Outdate(h).by = h.by /\ Outdate(h).over = h.over
           /\ h.pc \in Reading => Outdate(h).stale
BY DEF Outdate, Handler

LEMMA ChallengeInsertIInv ==
    ASSUME IInv, NEW t \in Task, ChallengeInsert(t) PROVE IInv'
<1> DEFINE new == [cid |-> task[t].cid, account |-> task[t].account, left |-> task[t].left,
                   pastDay |-> FALSE, used |-> FALSE]
<1>1. /\ task[t] \in Handler /\ task[t].pc = "q_insert" /\ task[t].account \in Account
      /\ task[t].cid \in ChallengeId
      /\ challenges' = challenges \cup {new}
      /\ writer' = writer /\ tod' = tod /\ up' = up /\ owner' = owner /\ issued' = issued
  BY DEF ChallengeInsert, At, IInv, TypeOK, ArgumentsOK
<1>2. /\ new \in Row /\ new.cid = task[t].cid /\ new.account = task[t].account
      /\ new.pastDay = FALSE /\ new.used = FALSE
  BY <1>1 DEF Row, Handler
<1>3. /\ owner[task[t].cid] = task[t].account /\ issued[task[t].cid] = 0
      /\ \A r \in challenges : r.cid # task[t].cid
      /\ \A u \in Task : task[u].pc \in Claiming \cup {"q_insert"} /\ task[u].cid = task[t].cid => u = t
  BY <1>1 DEF IInv, InsertsAreNew
<1>4. \A u \in Task : task'[u] = IF u = t THEN Idle ELSE Outdate(task[u])
  BY DEF ChallengeInsert, CommitThenFinish
<1>5. \A u \in Task : Outdate(task[u]) \in Handler
  BY OutdateKeeps DEF IInv, TypeOK
<1>6. task' \in [Task -> Handler]
  BY <1>5, IdleHandler DEF ChallengeInsert, CommitThenFinish
<1>7. \A u \in Task \ {t} :
         /\ task'[u].pc = task[u].pc /\ task'[u].account = task[u].account
         /\ task'[u].cid = task[u].cid /\ task'[u].by = task[u].by /\ task'[u].over = task[u].over
         /\ task[u].pc \in Reading => task'[u].stale
  BY <1>4, OutdateKeeps DEF IInv, TypeOK
<1>8. task'[t].pc = "idle"
  BY <1>4, IdleHandler
<1> HIDE DEF new
<1>9. TypeOK'
  BY <1>1, <1>2, <1>6 DEF IInv, TypeOK
<1>10. ArgumentsOK' /\ ClaimsAreMinted' /\ ClaimsAreSigned'
  BY <1>1, <1>7, <1>8 DEF IInv, ArgumentsOK, ClaimsAreMinted, ClaimsAreSigned, AuthPc, Claiming,
     Reading
<1>11. /\ IdsUnique' /\ RowsAreMinted' /\ PastDayMeansExpired' /\ SessionMeansUsed'
  <2>1. IdsUnique'
    BY <1>1, <1>2, <1>3 DEF IInv, IdsUnique
  <2>2. RowsAreMinted' /\ PastDayMeansExpired'
    BY <1>1, <1>2, <1>3 DEF IInv, RowsAreMinted, PastDayMeansExpired
  <2>3. SessionMeansUsed'
    BY <1>1, <1>2, <1>3 DEF IInv, SessionMeansUsed
  <2> QED
    BY <2>1, <2>2, <2>3
<1>12. SessionsAreMinted' /\ OneSessionPerChallenge'
  BY <1>1 DEF IInv, SessionsAreMinted, OneSessionPerChallenge
<1>13. InsertsAreNew'
  BY <1>1, <1>2, <1>3, <1>7, <1>8 DEF IInv, InsertsAreNew, Claiming, Reading
<1>14. LockMatches'
  BY <1>1, <1>7, <1>8 DEF IInv, LockMatches
<1>15. SnapshotsUnspent'
  BY <1>1, <1>2, <1>7, <1>8 DEF IInv, SnapshotsUnspent, Unspent, Reading
<1>16. WinnersAreAlone'
  BY <1>1, <1>2, <1>3, <1>7, <1>8 DEF IInv, WinnersAreAlone, Claiming
<1> QED
  BY <1>9, <1>10, <1>11, <1>12, <1>13, <1>14, <1>15, <1>16 DEF IInv

----
(* authenticate                                                            *)

LEMMA AuthStartIInv ==
    ASSUME IInv, NEW t \in Task, NEW a \in Account, NEW by \in Account, NEW c \in ChallengeId,
           NEW over \in ChallengeId, AuthStart(t, a, c, by, over)
    PROVE  IInv'
<1> DEFINE h == [Idle EXCEPT !.pc = "a_read", !.account = a, !.cid = c, !.by = by, !.over = over]
<1>1. h.pc = "a_read" /\ h.account = a /\ h.cid = c
  BY DEF Idle
<1>2. h \in Handler
  <2>1. "a_read" \in Pc
    BY DEF Pc, AuthPc
  <2> QED
    BY <2>1, IdleHandler DEF Handler
<1>3. /\ task' = [task EXCEPT ![t] = h] /\ task[t].pc = "idle" /\ up' = up /\ writer' = writer
      /\ challenges' = challenges /\ owner' = owner /\ issued' = issued /\ tod' = tod
  BY DEF AuthStart, Begin
<1>4. up' \in BOOLEAN /\ writer' = LockAfter(t)
  BY <1>3, NoLock DEF IInv, TypeOK
<1> HIDE DEF h
<1> QED
  BY <1>1, <1>2, <1>3, <1>4, HandlerStep DEF Reading, Claiming

\* The row found is unused, so its challenge is unspent; whether the snapshot
\* stays up to date is the business of later steps.
LEMMA AuthReadIInv ==
    ASSUME IInv, NEW t \in Task, AuthRead(t) PROVE IInv'
<1>1. /\ task[t] \in Handler /\ task[t].pc = "a_read" /\ task[t].account \in Account
      /\ task[t].cid \in ChallengeId
      /\ writer' = writer /\ tod' = tod /\ up' = up /\ up \in BOOLEAN
      /\ challenges' = challenges /\ owner' = owner /\ issued' = issued
  BY DEF AuthRead, At, IInv, TypeOK, ArgumentsOK, AuthPc
<1>2. writer' = LockAfter(t)
  BY <1>1, NoLock
<1>3. CASE Finish(t)
  BY <1>1, <1>2, <1>3, FinishStep
<1>4. ASSUME NEW r \in Found(task[t].cid, task[t].account),
             task' = [task EXCEPT ![t].pc = "a_check", ![t].left = r.left]
      PROVE  IInv'
  <2> DEFINE h == [task[t] EXCEPT !.pc = "a_check", !.left = r.left]
  <2>1. /\ r \in challenges /\ r \in Row /\ r.cid = task[t].cid /\ r.account = task[t].account
        /\ ~r.used
    BY <1>4 DEF Found, IInv, TypeOK
  <2>2. h \in Handler
    <3>1. r.left \in 0 .. ChallengeTTL /\ "a_check" \in Pc
      BY <2>1 DEF Row, Pc, AuthPc, Reading
    <3> QED
      BY <1>1, <3>1 DEF Handler
  <2>3. h.pc = "a_check" /\ h.account = task[t].account /\ h.cid = task[t].cid
    BY <1>1 DEF Handler
  <2>4. task' = [task EXCEPT ![t] = h]
    BY <1>4 DEF IInv, TypeOK
  <2>5. owner[task[t].cid] = task[t].account
    BY <2>1 DEF IInv, RowsAreMinted
  <2>6. \A u \in Task : task[u].pc = "q_insert" => task[u].cid # task[t].cid
    BY <2>1 DEF IInv, InsertsAreNew
  <2>7. Unspent(task[t].cid)
    <3>1. \A q \in challenges : q.cid = task[t].cid => ~q.used
      BY <2>1 DEF IInv, IdsUnique
    <3>2. issued[task[t].cid] = 0
      <4>1. issued[task[t].cid] \in Nat
        BY <1>1 DEF IInv, TypeOK
      <4>2. ~(issued[task[t].cid] > 0)
        BY <2>1 DEF IInv, SessionMeansUsed
      <4> QED
        BY <4>1, <4>2
    <3>3. \A u \in Task : task[u].pc = "a_issue" => task[u].cid # task[t].cid
      BY <2>1 DEF IInv, WinnersAreAlone
    <3> QED
      BY <3>1, <3>2, <3>3 DEF Unspent
  <2> HIDE DEF h
  <2> QED
    BY <1>1, <1>2, <2>2, <2>3, <2>4, <2>5, <2>6, <2>7, HandlerStep DEF AuthPc, Reading, Claiming
<1> QED
  BY <1>3, <1>4 DEF AuthRead

LEMMA AuthCheckIInv ==
    ASSUME IInv, NEW t \in Task, AuthCheck(t) PROVE IInv'
<1>1. /\ task[t] \in Handler /\ task[t].pc = "a_check" /\ task[t].account \in Account
      /\ task[t].cid \in ChallengeId
      /\ writer' = writer /\ tod' = tod /\ up' = up /\ up \in BOOLEAN
      /\ challenges' = challenges /\ owner' = owner /\ issued' = issued
  BY DEF AuthCheck, At, IInv, TypeOK, ArgumentsOK, AuthPc, Reading
<1>2. writer' = LockAfter(t)
  BY <1>1, NoLock
<1>3. CASE Finish(t)
  BY <1>1, <1>2, <1>3, FinishStep
<1>4. CASE SignatureOk(task[t]) /\ Goto(t, "a_update")
  <2> DEFINE h == [task[t] EXCEPT !.pc = "a_update"]
  <2>1. h \in Handler
    BY <1>1 DEF Handler, Pc, AuthPc, Reading
  <2>2. /\ h.pc = "a_update" /\ h.account = task[t].account /\ h.cid = task[t].cid
        /\ h.by = task[t].by /\ h.over = task[t].over /\ h.stale = task[t].stale
    BY <1>1 DEF Handler
  <2>3. task' = [task EXCEPT ![t] = h]
    BY <1>4 DEF Goto
  <2>4. /\ owner[task[t].cid] = task[t].account
        /\ \A u \in Task \ {t} : task[u].pc = "q_insert" => task[u].cid # task[t].cid
    BY <1>1 DEF IInv, ClaimsAreMinted, InsertsAreNew, Claiming, Reading
  <2>5. ~task[t].stale => Unspent(task[t].cid)
    BY <1>1 DEF IInv, SnapshotsUnspent, Reading
  <2>6. task[t].by = task[t].account /\ task[t].over = task[t].cid
    BY <1>4 DEF SignatureOk
  <2> HIDE DEF h
  <2> QED
    BY <1>1, <1>2, <2>1, <2>2, <2>3, <2>4, <2>5, <2>6, HandlerStep
<1> QED
  BY <1>3, <1>4 DEF AuthCheck

\* The lock is granted to an up-to-date snapshot only, hence on an unspent
\* challenge.
LEMMA AuthUpdateIInv ==
    ASSUME IInv, NEW t \in Task, AuthUpdate(t) PROVE IInv'
<1>1. /\ task[t] \in Handler /\ task[t].pc = "a_update" /\ task[t].account \in Account
      /\ task[t].cid \in ChallengeId /\ tod' = tod /\ up' = up /\ up \in BOOLEAN
      /\ challenges' = challenges /\ owner' = owner /\ issued' = issued
  BY DEF AuthUpdate, At, IInv, TypeOK, ArgumentsOK, AuthPc, Reading
<1>2. CASE Finish(t) /\ UNCHANGED writer
  <2>1. writer' = LockAfter(t)
    BY <1>1, <1>2, NoLock
  <2> QED
    BY <1>1, <1>2, <2>1, FinishStep
<1>3. CASE Takes(t) /\ writer' = t /\ Goto(t, "a_commit")
  <2> DEFINE h == [task[t] EXCEPT !.pc = "a_commit"]
  <2>1. h \in Handler
    BY <1>1 DEF Handler, Pc, AuthPc
  <2>2. /\ h.pc = "a_commit" /\ h.account = task[t].account /\ h.cid = task[t].cid
        /\ h.by = task[t].by /\ h.over = task[t].over
    BY <1>1 DEF Handler
  <2>3. task' = [task EXCEPT ![t] = h]
    BY <1>3 DEF Goto
  <2>4. /\ owner[task[t].cid] = task[t].account
        /\ \A u \in Task \ {t} : task[u].pc = "q_insert" => task[u].cid # task[t].cid
    BY <1>1 DEF IInv, ClaimsAreMinted, InsertsAreNew, Claiming, Reading
  <2>5. Unspent(task[t].cid)
    BY <1>1, <1>3 DEF IInv, SnapshotsUnspent, Reading, Takes, MayWrite
  <2>6. task[t].by = task[t].account /\ task[t].over = task[t].cid
    BY <1>1 DEF IInv, ClaimsAreSigned
  <2> HIDE DEF h
  <2> QED
    BY <1>1, <1>3, <2>1, <2>2, <2>3, <2>4, <2>5, <2>6, HandlerStep DEF Takes, MayWrite
<1> QED
  BY <1>2, <1>3 DEF AuthUpdate

\* The commit spends the challenge: its row is used, every other snapshot is
\* out of date and nobody else holds the lock.
LEMMA AuthCommitIInv ==
    ASSUME IInv, NEW t \in Task, AuthCommit(t) PROVE IInv'
<1> DEFINE c == task[t].cid
           g(r) == IF r.cid = c THEN [r EXCEPT !.used = TRUE] ELSE r
<1>1. /\ task[t] \in Handler /\ task[t].pc = "a_commit" /\ task[t].account \in Account
      /\ c \in ChallengeId /\ writer = t
      /\ challenges' = {g(r) : r \in challenges} /\ writer' = None
      /\ tod' = tod /\ up' = up /\ owner' = owner /\ issued' = issued
  BY DEF AuthCommit, At, IInv, TypeOK, ArgumentsOK, LockMatches, AuthPc, Committed, LockAfter
<1>2. /\ Unspent(c) /\ owner[c] = task[t].account
      /\ task[t].by = task[t].account /\ task[t].over = c
      /\ \A u \in Task \ {t} : task[u].pc # "a_commit"
      /\ \A u \in Task : task[u].pc = "q_insert" => task[u].cid # c
  BY <1>1 DEF IInv, SnapshotsUnspent, ClaimsAreMinted, ClaimsAreSigned, LockMatches,
     InsertsAreNew, Claiming
<1>3. ASSUME NEW r \in challenges
      PROVE  /\ g(r) \in Row /\ g(r).cid = r.cid /\ g(r).account = r.account
             /\ g(r).left = r.left /\ g(r).pastDay = r.pastDay
             /\ g(r).used = (r.used \/ r.cid = c)
  <2>1. r \in Row
    BY DEF IInv, TypeOK
  <2>2. CASE r.cid = c
    BY <2>1, <2>2 DEF Row
  <2>3. CASE r.cid # c
    BY <2>1, <2>3 DEF Row
  <2> QED
    BY <2>2, <2>3
<1>4. ASSUME NEW q \in challenges'
      PROVE  \E r \in challenges :
                /\ q.cid = r.cid /\ q.account = r.account /\ q.left = r.left
                /\ q.pastDay = r.pastDay /\ q.used = (r.used \/ r.cid = c) /\ q = g(r)
  <2>1. PICK r \in challenges : q = g(r)
    BY <1>1
  <2> QED
    BY <1>3, <2>1
<1>5. challenges' \subseteq Row
  BY <1>1, <1>3
<1>6. [task[t] EXCEPT !.pc = "a_issue"] \in Handler
  BY <1>1 DEF Handler, Pc, AuthPc
<1>7. task' \in [Task -> Handler]
  <2>1. \A u \in Task : Outdate(task[u]) \in Handler
    BY OutdateKeeps DEF IInv, TypeOK
  <2> QED
    BY <1>6, <2>1 DEF AuthCommit, CommitThenGoto
<1>8. /\ task'[t].pc = "a_issue" /\ task'[t].account = task[t].account /\ task'[t].cid = c
      /\ task'[t].by = task[t].by /\ task'[t].over = task[t].over
  BY <1>1 DEF AuthCommit, CommitThenGoto, Handler
<1>9. \A u \in Task \ {t} :
         /\ task'[u].pc = task[u].pc /\ task'[u].account = task[u].account
         /\ task'[u].cid = task[u].cid /\ task'[u].by = task[u].by /\ task'[u].over = task[u].over
         /\ task[u].pc \in Reading => task'[u].stale
  BY OutdateKeeps DEF AuthCommit, CommitThenGoto, IInv, TypeOK
<1> HIDE DEF g, c
<1>10. TypeOK'
  BY <1>1, <1>5, <1>7 DEF IInv, TypeOK
<1>11. ArgumentsOK' /\ ClaimsAreMinted' /\ ClaimsAreSigned'
  BY <1>1, <1>2, <1>8, <1>9 DEF IInv, ArgumentsOK, ClaimsAreMinted, ClaimsAreSigned, AuthPc,
     Claiming, Reading
<1>12. /\ IdsUnique' /\ RowsAreMinted' /\ PastDayMeansExpired'
  BY <1>1, <1>4 DEF IInv, IdsUnique, RowsAreMinted, PastDayMeansExpired
<1>13. SessionsAreMinted' /\ OneSessionPerChallenge' /\ SessionMeansUsed'
  BY <1>1, <1>4 DEF IInv, SessionsAreMinted, OneSessionPerChallenge, SessionMeansUsed
<1>14. InsertsAreNew'
  BY <1>1, <1>2, <1>4, <1>8, <1>9 DEF IInv, InsertsAreNew, Claiming, Reading
<1>15. LockMatches'
  BY <1>1, <1>2, <1>8, <1>9, ParamsAssumption DEF LockMatches
<1>16. SnapshotsUnspent'
  BY <1>2, <1>8, <1>9 DEF SnapshotsUnspent, Reading
<1>17. WinnersAreAlone'
  <2>1. \A u \in Task \ {t} : task'[u].pc = "a_issue" => task'[u].cid # c
    BY <1>2, <1>9 DEF Unspent
  <2>2. \A q \in challenges' : q.cid = c => q.used
    BY <1>4
  <2>3. ASSUME NEW u \in Task \ {t}, task'[u].pc = "a_issue"
        PROVE  /\ issued[task'[u].cid] = 0
               /\ \A q \in challenges' : q.cid = task'[u].cid => q.used
               /\ \A v \in Task \ {t} : task'[v].pc = "a_issue" /\ task'[v].cid = task'[u].cid => v = u
    <3>1. task[u].pc = "a_issue" /\ task'[u].cid = task[u].cid
      BY <1>9, <2>3
    <3>2. /\ issued[task[u].cid] = 0
          /\ \A r \in challenges : r.cid = task[u].cid => r.used
          /\ \A v \in Task : task[v].pc = "a_issue" /\ task[v].cid = task[u].cid => v = u
      BY <3>1 DEF IInv, WinnersAreAlone
    <3>3. \A q \in challenges' : q.cid = task'[u].cid => q.used
      BY <1>4, <3>1, <3>2
    <3> QED
      BY <1>9, <3>1, <3>2, <3>3
  <2>4. issued[c] = 0
    BY <1>2 DEF Unspent
  <2> QED
    BY <1>1, <1>8, <2>1, <2>2, <2>3, <2>4 DEF WinnersAreAlone
<1> QED
  BY <1>10, <1>11, <1>12, <1>13, <1>14, <1>15, <1>16, <1>17 DEF IInv

LEMMA AuthIssueIInv ==
    ASSUME IInv, NEW t \in Task, AuthIssue(t) PROVE IInv'
<1> DEFINE c == task[t].cid
<1>1. /\ task[t].pc = "a_issue" /\ c \in ChallengeId
      /\ issued' = [issued EXCEPT ![c] = @ + 1]
      /\ challenges' = challenges /\ writer' = writer /\ tod' = tod /\ up' = up /\ owner' = owner
  BY DEF AuthIssue, At, IInv, ArgumentsOK, AuthPc
<1>2. /\ issued[c] = 0 /\ owner[c] = task[t].account /\ task[t].account \in Account
      /\ \A r \in challenges : r.cid = c => r.used
      /\ \A u \in Task \ {t} : ~(task[u].pc = "a_issue" /\ task[u].cid = c)
      /\ \A u \in Task : task[u].pc = "q_insert" => task[u].cid # c
  BY <1>1 DEF IInv, WinnersAreAlone, ClaimsAreMinted, InsertsAreNew, ArgumentsOK, Claiming, AuthPc
<1>3. \A u \in Task : (task[u].pc \in Reading /\ ~task[u].stale) \/ task[u].pc = "a_commit"
                          => task[u].cid # c
  BY <1>1 DEF IInv, SnapshotsUnspent, Unspent
<1>4. issued' \in [ChallengeId -> Nat] /\ \A d \in ChallengeId : issued'[d] = IF d = c THEN 1 ELSE issued[d]
  BY <1>1, <1>2 DEF IInv, TypeOK
<1>5. \A u \in Task : task'[u] = IF u = t THEN Idle ELSE task[u]
  BY DEF AuthIssue, Finish, IInv, TypeOK
<1>6. task' \in [Task -> Handler]
  BY IdleHandler DEF AuthIssue, Finish, IInv, TypeOK
<1> HIDE DEF c
<1>7. TypeOK'
  BY <1>1, <1>4, <1>6 DEF IInv, TypeOK
<1>8. ArgumentsOK' /\ ClaimsAreMinted' /\ ClaimsAreSigned'
  BY <1>1, <1>5, IdleHandler DEF IInv, ArgumentsOK, ClaimsAreMinted, ClaimsAreSigned, AuthPc,
     Claiming, Reading
<1>9. IdsUnique' /\ RowsAreMinted' /\ PastDayMeansExpired'
  BY <1>1 DEF IInv, IdsUnique, RowsAreMinted, PastDayMeansExpired
<1>10. SessionsAreMinted' /\ OneSessionPerChallenge'
  BY <1>1, <1>2, <1>4, ParamsAssumption DEF IInv, SessionsAreMinted, OneSessionPerChallenge
<1>11. SessionMeansUsed'
  BY <1>1, <1>2, <1>4 DEF IInv, TypeOK, Row, SessionMeansUsed
<1>12. InsertsAreNew'
  BY <1>1, <1>2, <1>4, <1>5, IdleHandler DEF IInv, InsertsAreNew, ArgumentsOK, Claiming, Reading
<1>13. LockMatches'
  BY <1>1, <1>5, IdleHandler DEF IInv, LockMatches
<1>14. SnapshotsUnspent'
  BY <1>1, <1>3, <1>4, <1>5, IdleHandler DEF IInv, SnapshotsUnspent, Unspent, ArgumentsOK, Reading,
     AuthPc
<1>15. WinnersAreAlone'
  BY <1>1, <1>2, <1>4, <1>5, IdleHandler DEF IInv, WinnersAreAlone, ArgumentsOK, AuthPc
<1> QED
  BY <1>7, <1>8, <1>9, <1>10, <1>11, <1>12, <1>13, <1>14, <1>15 DEF IInv

----
(* The environment                                                         *)

LEMMA OtherCommitIInv == ASSUME IInv, OtherCommit PROVE IInv'
<1>1. /\ challenges' = challenges /\ writer' = writer /\ tod' = tod /\ up' = up
      /\ owner' = owner /\ issued' = issued
  BY DEF OtherCommit
<1>2. \A u \in Task :
         /\ task'[u] \in Handler /\ task'[u].pc = task[u].pc /\ task'[u].account = task[u].account
         /\ task'[u].cid = task[u].cid /\ task'[u].by = task[u].by /\ task'[u].over = task[u].over
         /\ task[u].pc \in Reading => task'[u].stale
  BY OutdateKeeps DEF OtherCommit, IInv, TypeOK
<1>3. task' \in [Task -> Handler]
  BY <1>2 DEF OtherCommit
<1>4. TypeOK' /\ ArgumentsOK' /\ LockMatches'
  BY <1>1, <1>2, <1>3 DEF IInv, TypeOK, ArgumentsOK, LockMatches
<1>5. ClaimsAreMinted' /\ ClaimsAreSigned' /\ InsertsAreNew'
  BY <1>1, <1>2 DEF IInv, ClaimsAreMinted, ClaimsAreSigned, InsertsAreNew
<1>6. /\ IdsUnique' /\ RowsAreMinted' /\ PastDayMeansExpired' /\ SessionsAreMinted'
      /\ OneSessionPerChallenge' /\ SessionMeansUsed'
  BY <1>1 DEF IInv, IdsUnique, RowsAreMinted, PastDayMeansExpired, SessionsAreMinted,
     OneSessionPerChallenge, SessionMeansUsed
<1>7. SnapshotsUnspent' /\ WinnersAreAlone'
  BY <1>1, <1>2 DEF IInv, SnapshotsUnspent, Unspent, WinnersAreAlone, Reading
<1> QED
  BY <1>4, <1>5, <1>6, <1>7 DEF IInv

LEMMA CrashIInv == ASSUME IInv, Crash PROVE IInv'
<1>1. /\ challenges' = challenges /\ writer' = None /\ tod' = tod /\ up' \in BOOLEAN
      /\ owner' = owner /\ issued' = issued
      /\ task' \in [Task -> Handler] /\ \A u \in Task : task'[u].pc = "idle"
  BY IdleHandler DEF Crash
<1>2. TypeOK' /\ LockMatches'
  BY <1>1, ParamsAssumption DEF IInv, TypeOK, LockMatches
<1>3. /\ ArgumentsOK' /\ ClaimsAreMinted' /\ ClaimsAreSigned' /\ InsertsAreNew'
      /\ SnapshotsUnspent' /\ WinnersAreAlone'
  BY <1>1 DEF ArgumentsOK, ClaimsAreMinted, ClaimsAreSigned, InsertsAreNew, SnapshotsUnspent,
     WinnersAreAlone, AuthPc, Claiming, Reading
<1>4. /\ IdsUnique' /\ RowsAreMinted' /\ PastDayMeansExpired' /\ SessionsAreMinted'
      /\ OneSessionPerChallenge' /\ SessionMeansUsed'
  BY <1>1 DEF IInv, IdsUnique, RowsAreMinted, PastDayMeansExpired, SessionsAreMinted,
     OneSessionPerChallenge, SessionMeansUsed
<1> QED
  BY <1>2, <1>3, <1>4 DEF IInv

\* Rows only leave, so every claim about the rows that stay still holds.
LEMMA StartupIInv == ASSUME IInv, Startup PROVE IInv'
<1>1. /\ challenges' \subseteq challenges /\ writer' = writer /\ tod' = tod /\ up' \in BOOLEAN
      /\ task' = task /\ owner' = owner /\ issued' = issued
  BY DEF Startup
<1>2. TypeOK' /\ ArgumentsOK' /\ LockMatches'
  BY <1>1 DEF IInv, TypeOK, ArgumentsOK, LockMatches
<1>3. /\ ClaimsAreMinted' /\ ClaimsAreSigned' /\ InsertsAreNew'
      /\ SnapshotsUnspent' /\ WinnersAreAlone'
  BY <1>1 DEF IInv, ClaimsAreMinted, ClaimsAreSigned, InsertsAreNew, SnapshotsUnspent, Unspent,
     WinnersAreAlone
<1>4. /\ IdsUnique' /\ RowsAreMinted' /\ PastDayMeansExpired' /\ SessionsAreMinted'
      /\ OneSessionPerChallenge' /\ SessionMeansUsed'
  BY <1>1 DEF IInv, IdsUnique, RowsAreMinted, PastDayMeansExpired, SessionsAreMinted,
     OneSessionPerChallenge, SessionMeansUsed
<1> QED
  BY <1>2, <1>3, <1>4 DEF IInv

LEMMA EarlierBounds ==
    ASSUME NEW n \in 0 .. ChallengeTTL PROVE Earlier(n) \in 0 .. ChallengeTTL
BY ParamsAssumption DEF Earlier

LEMMA TickIInv == ASSUME IInv, Tick PROVE IInv'
<1> DEFINE g(r) == [r EXCEPT !.left = Earlier(r.left),
                             !.pastDay = r.pastDay \/ (tod' = 0 /\ r.left = 0)]
           h(u) == [task[u] EXCEPT !.left = Earlier(task[u].left)]
<1>1. /\ challenges' = {g(r) : r \in challenges} /\ task' = [u \in Task |-> h(u)]
      /\ writer' = writer /\ up' = up /\ owner' = owner /\ issued' = issued
      /\ tod' = IF tod + 1 < DayLength THEN tod + 1 ELSE 0
  BY DEF Tick
<1>2. ASSUME NEW r \in challenges
      PROVE  /\ g(r) \in Row /\ g(r).cid = r.cid /\ g(r).account = r.account
             /\ g(r).used = r.used
             /\ g(r).pastDay => g(r).left = 0
  <2>1. r \in Row /\ Earlier(r.left) \in 0 .. ChallengeTTL
    BY EarlierBounds DEF IInv, TypeOK, Row
  <2>2. (r.pastDay \/ (tod' = 0 /\ r.left = 0)) => Earlier(r.left) = 0
    BY DEF IInv, PastDayMeansExpired, Earlier
  <2> QED
    BY <2>1, <2>2 DEF Row
<1>3. ASSUME NEW u \in Task
      PROVE  /\ h(u) \in Handler /\ h(u).pc = task[u].pc /\ h(u).account = task[u].account
             /\ h(u).cid = task[u].cid /\ h(u).by = task[u].by /\ h(u).over = task[u].over
             /\ h(u).stale = task[u].stale
  <2>1. task[u] \in Handler
    BY DEF IInv, TypeOK
  <2>2. Earlier(task[u].left) \in 0 .. ChallengeTTL
    BY <2>1, EarlierBounds DEF Handler
  <2> QED
    BY <2>1, <2>2 DEF Handler
<1>4. ASSUME NEW q \in challenges'
      PROVE  /\ q \in Row
             /\ q.pastDay => q.left = 0
             /\ \E r \in challenges : q = g(r) /\ q.cid = r.cid /\ q.account = r.account
                                      /\ q.used = r.used
  <2>1. PICK r \in challenges : q = g(r)
    BY <1>1
  <2> QED
    BY <1>2, <2>1
<1>5. /\ task' \in [Task -> Handler]
      /\ \A u \in Task :
            /\ task'[u].pc = task[u].pc /\ task'[u].account = task[u].account
            /\ task'[u].cid = task[u].cid /\ task'[u].by = task[u].by
            /\ task'[u].over = task[u].over /\ task'[u].stale = task[u].stale
  BY <1>1, <1>3
<1>6. tod' \in 0 .. DayLength - 1
  <2>1. tod \in 0 .. DayLength - 1
    BY DEF IInv, TypeOK
  <2>2. tod' = IF tod + 1 < DayLength THEN tod + 1 ELSE 0
    BY Zenon DEF Tick
  <2>3. DayLength \in Nat /\ DayLength > 0
    BY ParamsAssumption
  <2>4. CASE tod + 1 < DayLength
    <3>1. tod' = tod + 1
      BY <2>2, <2>4, Zenon
    <3> QED
      BY <2>1, <2>3, <2>4, <3>1
  <2>5. CASE ~(tod + 1 < DayLength)
    <3>1. tod' = 0
      BY <2>2, <2>5, Zenon
    <3> QED
      BY <2>3, <3>1
  <2> QED
    BY <2>4, <2>5
<1> HIDE DEF g, h
<1>7. TypeOK' /\ ArgumentsOK' /\ LockMatches'
  BY <1>1, <1>4, <1>5, <1>6 DEF IInv, TypeOK, ArgumentsOK, LockMatches
<1>8. ClaimsAreMinted' /\ ClaimsAreSigned'
  BY <1>1, <1>5 DEF IInv, ClaimsAreMinted, ClaimsAreSigned
<1>9. InsertsAreNew'
  BY <1>1, <1>4, <1>5 DEF IInv, InsertsAreNew
<1>10. SnapshotsUnspent' /\ WinnersAreAlone'
  BY <1>1, <1>4, <1>5 DEF IInv, SnapshotsUnspent, Unspent, WinnersAreAlone
<1>11. IdsUnique' /\ RowsAreMinted' /\ PastDayMeansExpired'
  BY <1>1, <1>4 DEF IInv, IdsUnique, RowsAreMinted, PastDayMeansExpired
<1>12. SessionsAreMinted' /\ OneSessionPerChallenge' /\ SessionMeansUsed'
  BY <1>1, <1>4 DEF IInv, SessionsAreMinted, OneSessionPerChallenge, SessionMeansUsed
<1> QED
  BY <1>7, <1>8, <1>9, <1>10, <1>11, <1>12 DEF IInv

LEMMA AbortIInv == ASSUME IInv, NEW t \in Task, Abort(t) PROVE IInv'
BY FinishStep DEF Abort

LEMMA StutterIInv == ASSUME IInv, UNCHANGED vars PROVE IInv'
<1>1. TypeOK' /\ ArgumentsOK' /\ LockMatches'
  BY DEF vars, IInv, TypeOK, ArgumentsOK, LockMatches
<1>2. /\ ClaimsAreMinted' /\ ClaimsAreSigned' /\ InsertsAreNew'
      /\ SnapshotsUnspent' /\ WinnersAreAlone'
  BY DEF vars, IInv, ClaimsAreMinted, ClaimsAreSigned, InsertsAreNew, SnapshotsUnspent, Unspent,
     WinnersAreAlone
<1>3. /\ IdsUnique' /\ RowsAreMinted' /\ PastDayMeansExpired' /\ SessionsAreMinted'
      /\ OneSessionPerChallenge' /\ SessionMeansUsed'
  BY DEF vars, IInv, IdsUnique, RowsAreMinted, PastDayMeansExpired, SessionsAreMinted,
     OneSessionPerChallenge, SessionMeansUsed
<1> QED
  BY <1>1, <1>2, <1>3 DEF IInv

----
(* The theorems                                                            *)

LEMMA StepIInv == IInv /\ [Next]_vars => IInv'
<1> SUFFICES ASSUME IInv, [Next]_vars PROVE IInv'
  OBVIOUS
<1>1. CASE UNCHANGED vars
  BY <1>1, StutterIInv
<1>2. ASSUME NEW t \in Task, ChallengeStep(t) PROVE IInv'
  BY <1>2, ChallengeStartIInv, ChallengeLookupIInv, ChallengeMintIInv, ChallengeInsertIInv
     DEF ChallengeStep
<1>3. ASSUME NEW t \in Task, AuthStep(t) PROVE IInv'
  BY <1>3, AuthStartIInv, AuthReadIInv, AuthCheckIInv, AuthUpdateIInv, AuthCommitIInv,
     AuthIssueIInv DEF AuthStep
<1>4. CASE Environment
  BY <1>4, OtherCommitIInv, CrashIInv, StartupIInv, TickIInv, AbortIInv DEF Environment
<1> QED
  BY <1>1, <1>2, <1>3, <1>4 DEF Next

\* The strengthened invariant holds in every reachable state.
THEOREM Invariant == Spec => []IInv
<1>1. Init => IInv
  BY InitIInv
<1>2. IInv /\ [Next]_vars => IInv'
  BY StepIInv
<1> QED
  BY <1>1, <1>2, PTL DEF Spec

\* Rows, handlers, the write lock and the histories keep their shape.
THEOREM TypeCorrect == Spec => []TypeOK
<1>1. IInv => TypeOK
  BY DEF IInv
<1> QED
  BY <1>1, Invariant, PTL

\* A challenge yields at most one session, whatever runs concurrently and
\* however often the service crashes and restarts.
THEOREM ChallengesLogInOnce == Spec => []OneSessionPerChallenge
<1>1. IInv => OneSessionPerChallenge
  BY DEF IInv
<1> QED
  BY <1>1, Invariant, PTL

\* No stored row can answer again for a challenge that has a session.
THEOREM SessionsAreDurablyUsed == Spec => []SessionMeansUsed
<1>1. IInv => SessionMeansUsed
  BY DEF IInv
<1> QED
  BY <1>1, Invariant, PTL

\* The clean-up at startup, comparing texts, spares every live challenge.
THEOREM RestartsSpareLiveChallenges == Spec => LiveChallengesSurviveRestart
<1>1. ASSUME IInv, Startup, NEW r \in challenges, ~Expired(r), ~r.used PROVE r \in challenges'
  BY <1>1 DEF Startup, Sweepable, Expired, IInv, PastDayMeansExpired
<1>2. IInv /\ [Next]_vars =>
        [Startup => \A r \in challenges : ~Expired(r) /\ ~r.used => r \in challenges']_vars
  BY <1>1
<1> QED
  BY <1>2, Invariant, PTL DEF Spec, LiveChallengesSurviveRestart

\* Sessions go to the owners of challenges, on their signature.
THEOREM SessionsGoToOwners == Spec => SessionsAreEarned
<1>1. ASSUME IInv, [Next]_vars, NEW c \in ChallengeId, issued'[c] # issued[c]
      PROVE  \E t \in Task : /\ At(t, "a_issue") /\ task[t].cid = c
                             /\ task[t].account = owner[c]
                             /\ task[t].by = owner[c] /\ task[t].over = c
  <2>1. PICK t \in Task : AuthIssue(t)
    BY <1>1 DEF vars, Next, ChallengeStep, ChallengeStart, ChallengeLookup, Registered, ChallengeMint,
       ChallengeInsert, AuthStep, AuthStart, AuthRead, AuthCheck, AuthUpdate, AuthCommit,
       Environment, OtherCommit, Crash, Startup, Tick, Abort
  <2>2. At(t, "a_issue") /\ task[t].cid = c
    BY <1>1, <2>1 DEF AuthIssue, IInv, TypeOK
  <2>3. task[t].account = owner[c] /\ task[t].by = task[t].account /\ task[t].over = c
    BY <1>1, <2>2 DEF At, IInv, ClaimsAreMinted, ClaimsAreSigned, Claiming
  <2> QED
    BY <2>2, <2>3
<1>2. IInv /\ [Next]_vars =>
        [\A c \in ChallengeId : issued'[c] # issued[c] =>
          \E t \in Task : /\ At(t, "a_issue") /\ task[t].cid = c
                          /\ task[t].account = owner[c]
                          /\ task[t].by = owner[c] /\ task[t].over = c]_vars
  BY <1>1
<1> QED
  BY <1>2, Invariant, PTL DEF Spec, SessionsAreEarned

\* Nobody else's signature uses a challenge up, also when its session is lost.
THEOREM OnlyOwnersUse == Spec => OnlyTheOwnerUses
<1>1. ASSUME IInv, [Next]_vars, NEW r \in challenges, NEW q \in challenges', r.cid = q.cid, q.used, ~r.used
      PROVE  \E t \in Task : /\ At(t, "a_commit") /\ task[t].cid = r.cid
                             /\ task[t].by = r.account /\ task[t].over = r.cid
  <2>1. \A u, v \in challenges : u.cid = v.cid => u = v
    BY <1>1 DEF IInv, IdsUnique
  <2>2. PICK t \in Task : AuthCommit(t)
    <3>1. q \notin challenges
      BY <1>1, <2>1
    <3>2. ASSUME NEW t \in Task, ChallengeInsert(t) PROVE FALSE
      <4>1. q.used = FALSE
        BY <3>1, <3>2 DEF ChallengeInsert
      <4> QED
        BY <1>1, <4>1
    <3>3. ASSUME Tick PROVE FALSE
      <4>1. PICK v \in challenges : q = [v EXCEPT !.left = Earlier(v.left),
                                                  !.pastDay = v.pastDay \/ (tod' = 0 /\ v.left = 0)]
        BY <3>3 DEF Tick
      <4>2. v \in Row
        BY <1>1 DEF IInv, TypeOK
      <4>3. q.cid = v.cid /\ q.used = v.used
        BY <4>1, <4>2 DEF Row
      <4> QED
        BY <1>1, <2>1, <4>3
    <3> QED
      BY <1>1, <3>1, <3>2, <3>3 DEF vars, Next, ChallengeStep, ChallengeStart, ChallengeLookup,
         ChallengeMint, AuthStep, AuthStart, AuthRead, AuthCheck, AuthUpdate, AuthIssue,
         Environment, OtherCommit, Crash, Startup, Abort
  <2>3. PICK v \in challenges : q = IF v.cid = task[t].cid THEN [v EXCEPT !.used = TRUE] ELSE v
    BY <2>2 DEF AuthCommit, Committed
  <2>4. v \in Row
    BY <1>1 DEF IInv, TypeOK
  <2>5. q.cid = v.cid
    BY <2>3, <2>4 DEF Row
  <2>6. v = r /\ r.cid = task[t].cid
    BY <1>1, <2>1, <2>3, <2>5
  <2>7. /\ At(t, "a_commit") /\ task[t].by = task[t].account /\ task[t].over = task[t].cid
        /\ owner[task[t].cid] = task[t].account /\ owner[r.cid] = r.account
    BY <1>1, <2>2 DEF AuthCommit, At, IInv, ClaimsAreMinted, ClaimsAreSigned, Claiming, RowsAreMinted
  <2> QED
    BY <2>6, <2>7
<1>2. IInv /\ [Next]_vars =>
        [\A r \in challenges, q \in challenges' : r.cid = q.cid /\ q.used /\ ~r.used =>
          \E t \in Task : /\ At(t, "a_commit") /\ task[t].cid = r.cid
                          /\ task[t].by = r.account /\ task[t].over = r.cid]_vars
  BY <1>1
<1> QED
  BY <1>2, Invariant, PTL DEF Spec, OnlyTheOwnerUses

-----------------------------------------------------------------------------
(* The refinement of ChallengeBook: its invariant                          *)

\* A step of one handler that leaves the rows alone.
LEMMA RowsHandlerStep ==
    ASSUME RefinementInv, NEW t \in Task, NEW h \in Handler, task' = [task EXCEPT ![t] = h],
           challenges' = challenges, up' = up,
           h.pc # "idle" => up,
           h.pc \in Reading \cup {"a_commit"} =>
              \E r \in challenges : r.cid = h.cid /\ r.account = h.account /\ r.left = h.left
    PROVE  ClaimsHaveRows' /\ DownMeansIdle'
<1>1. \A u \in Task : task'[u] = IF u = t THEN h ELSE task[u]
  BY DEF RefinementInv, IInv, TypeOK
<1>2. ClaimsHaveRows'
  BY <1>1 DEF RefinementInv, ClaimsHaveRows
<1>3. DownMeansIdle'
  BY <1>1 DEF RefinementInv, DownMeansIdle
<1> QED
  BY <1>2, <1>3

LEMMA RowsFinishStep ==
    ASSUME RefinementInv, NEW t \in Task, Finish(t), challenges' = challenges, up' = up
    PROVE  ClaimsHaveRows' /\ DownMeansIdle'
BY IdleHandler, RowsHandlerStep DEF Finish, Reading

\* A handler that goes on to a statement where it needs no row, or keeps its row.
LEMMA RowsGotoStep ==
    ASSUME RefinementInv, NEW t \in Task, NEW l \in Pc, Goto(t, l), task[t].pc # "idle",
           challenges' = challenges, up' = up,
           l \in Reading \cup {"a_commit"} => task[t].pc \in Reading
    PROVE  ClaimsHaveRows' /\ DownMeansIdle'
<1> DEFINE h == [task[t] EXCEPT !.pc = l]
<1>1. task[t] \in Handler
  BY DEF RefinementInv, IInv, TypeOK
<1>2. /\ h \in Handler /\ h.pc = l /\ h.cid = task[t].cid /\ h.account = task[t].account
      /\ h.left = task[t].left
  BY <1>1 DEF Handler
<1>3. task' = [task EXCEPT ![t] = h]
  BY DEF Goto
<1>4. up
  BY DEF RefinementInv, DownMeansIdle
<1>5. task[t].pc \in Reading =>
         \E r \in challenges : /\ r.cid = task[t].cid /\ r.account = task[t].account
                               /\ r.left = task[t].left
  BY DEF RefinementInv, ClaimsHaveRows
<1> HIDE DEF h
<1> QED
  BY <1>2, <1>3, <1>4, <1>5, RowsHandlerStep

\* Something is committed and the other handlers learn of it: rows may be added
\* or marked, and handler t ends or goes on to issue.
LEMMA RowsCommitStep ==
    ASSUME RefinementInv, NEW t \in Task, up' = up, up,
           \A u \in Task \ {t} : task'[u] = Outdate(task[u]),
           task'[t].pc \in {"idle", "a_issue"},
           \A r \in challenges : \E q \in challenges' :
              q.cid = r.cid /\ q.account = r.account /\ q.left = r.left
    PROVE  ClaimsHaveRows' /\ DownMeansIdle'
<1>1. ASSUME NEW u \in Task \ {t}
      PROVE  /\ task'[u].pc = task[u].pc /\ task'[u].cid = task[u].cid
             /\ task'[u].account = task[u].account /\ task'[u].left = task[u].left
  BY DEF Outdate, RefinementInv, IInv, TypeOK, Handler
<1>2. ClaimsHaveRows'
  <2> SUFFICES ASSUME NEW u \in Task, task'[u].pc \in Reading \cup {"a_commit"}
               PROVE  \E q \in challenges' : /\ q.cid = task'[u].cid /\ q.account = task'[u].account
                                             /\ q.left = task'[u].left
    BY DEF ClaimsHaveRows
  <2>1. u # t
    BY DEF Reading
  <2>2. PICK r \in challenges : /\ r.cid = task[u].cid /\ r.account = task[u].account
                                /\ r.left = task[u].left
    BY <1>1, <2>1 DEF RefinementInv, ClaimsHaveRows
  <2> QED
    BY <1>1, <2>1, <2>2
<1>3. DownMeansIdle'
  BY DEF DownMeansIdle
<1> QED
  BY <1>2, <1>3

LEMMA ChallengeStepRows ==
    ASSUME RefinementInv, NEW t \in Task, ChallengeStep(t)
    PROVE  ClaimsHaveRows' /\ DownMeansIdle'
<1>0. task[t] \in Handler /\ (task[t].pc # "idle" => up)
  BY DEF RefinementInv, IInv, TypeOK, DownMeansIdle
<1>1. ASSUME NEW a \in Account \cup {Unknown}, ChallengeStart(t, a)
      PROVE  ClaimsHaveRows' /\ DownMeansIdle'
  <2> DEFINE h == [Idle EXCEPT !.pc = "q_lookup", !.account = a]
  <2>1. h \in Handler /\ h.pc = "q_lookup"
    BY IdleHandler DEF Idle, Handler, Pc, ChallengePc
  <2>2. task' = [task EXCEPT ![t] = h] /\ up /\ up' = up /\ challenges' = challenges
    BY <1>1 DEF ChallengeStart, Begin
  <2> HIDE DEF h
  <2> QED
    BY <2>1, <2>2, RowsHandlerStep DEF Reading
<1>2. CASE ChallengeLookup(t)
  <2>1. "q_mint" \in Pc /\ "q_mint" \notin Reading \cup {"a_commit"}
    BY DEF Pc, ChallengePc, Reading
  <2> QED
    BY <1>2, <2>1, RowsFinishStep, RowsGotoStep DEF ChallengeLookup, At
<1>3. CASE ChallengeMint(t)
  <2>1. PICK c \in ChallengeId :
           task' = [task EXCEPT ![t].pc = "q_insert", ![t].cid = c, ![t].left = ChallengeTTL]
    BY <1>3 DEF ChallengeMint
  <2> DEFINE h == [task[t] EXCEPT !.pc = "q_insert", !.cid = c, !.left = ChallengeTTL]
  <2>2. h \in Handler /\ h.pc = "q_insert"
    <3>1. "q_insert" \in Pc /\ ChallengeTTL \in 0 .. ChallengeTTL
      BY ParamsAssumption DEF Pc, ChallengePc
    <3> QED
      BY <1>0, <3>1 DEF Handler
  <2>3. task' = [task EXCEPT ![t] = h]
    BY <2>1 DEF RefinementInv, IInv, TypeOK
  <2> HIDE DEF h
  <2> QED
    BY <1>0, <1>3, <2>2, <2>3, RowsHandlerStep DEF ChallengeMint, At, Reading
<1>4. CASE ChallengeInsert(t)
  <2>1. up /\ up' = up /\ challenges \subseteq challenges'
    BY <1>0, <1>4 DEF ChallengeInsert, At
  <2>2. task'[t] = Idle /\ \A u \in Task \ {t} : task'[u] = Outdate(task[u])
    BY <1>4 DEF ChallengeInsert, CommitThenFinish
  <2> QED
    BY <2>1, <2>2, IdleHandler, RowsCommitStep
<1> QED
  BY <1>1, <1>2, <1>3, <1>4 DEF ChallengeStep

LEMMA AuthStepRows ==
    ASSUME RefinementInv, NEW t \in Task, AuthStep(t)
    PROVE  ClaimsHaveRows' /\ DownMeansIdle'
<1>0. task[t] \in Handler /\ (task[t].pc # "idle" => up)
  BY DEF RefinementInv, IInv, TypeOK, DownMeansIdle
<1>1. ASSUME NEW a \in Account, NEW by \in Account, NEW c \in ChallengeId, NEW over \in ChallengeId,
             AuthStart(t, a, c, by, over)
      PROVE  ClaimsHaveRows' /\ DownMeansIdle'
  <2> DEFINE h == [Idle EXCEPT !.pc = "a_read", !.account = a, !.cid = c, !.by = by, !.over = over]
  <2>1. h \in Handler /\ h.pc = "a_read"
    BY IdleHandler DEF Idle, Handler, Pc, AuthPc
  <2>2. task' = [task EXCEPT ![t] = h] /\ up /\ up' = up /\ challenges' = challenges
    BY <1>1 DEF AuthStart, Begin
  <2> HIDE DEF h
  <2> QED
    BY <2>1, <2>2, RowsHandlerStep DEF Reading
<1>2. CASE AuthRead(t)
  <2>1. CASE Finish(t)
    BY <1>2, <2>1, RowsFinishStep DEF AuthRead
  <2>2. ASSUME NEW r \in Found(task[t].cid, task[t].account),
               task' = [task EXCEPT ![t].pc = "a_check", ![t].left = r.left]
        PROVE  ClaimsHaveRows' /\ DownMeansIdle'
    <3> DEFINE h == [task[t] EXCEPT !.pc = "a_check", !.left = r.left]
    <3>1. r \in challenges /\ r \in Row /\ r.cid = task[t].cid /\ r.account = task[t].account
      BY <2>2 DEF Found, RefinementInv, IInv, TypeOK
    <3>2. /\ h \in Handler /\ h.left = r.left
          /\ h.cid = task[t].cid /\ h.account = task[t].account
      BY <1>0, <3>1 DEF Row, Handler, Pc, AuthPc, Reading
    <3>3. task' = [task EXCEPT ![t] = h]
      BY <2>2 DEF RefinementInv, IInv, TypeOK
    <3> HIDE DEF h
    <3> QED
      BY <1>0, <1>2, <3>1, <3>2, <3>3, RowsHandlerStep DEF AuthRead, At
  <2> QED
    BY <1>2, <2>1, <2>2 DEF AuthRead
<1>3. CASE AuthCheck(t)
  <2>1. "a_update" \in Pc /\ "a_check" \in Reading
    BY DEF Pc, AuthPc, Reading
  <2> QED
    BY <1>3, <2>1, RowsFinishStep, RowsGotoStep DEF AuthCheck, At
<1>4. CASE AuthUpdate(t)
  <2>1. "a_commit" \in Pc /\ "a_update" \in Reading
    BY DEF Pc, AuthPc, Reading
  <2> QED
    BY <1>4, <2>1, RowsFinishStep, RowsGotoStep DEF AuthUpdate, At
<1>5. CASE AuthCommit(t)
  <2>1. up /\ up' = up
    BY <1>0, <1>5 DEF AuthCommit, At
  <2>2. /\ task'[t] = [task[t] EXCEPT !.pc = "a_issue"]
        /\ \A u \in Task \ {t} : task'[u] = Outdate(task[u])
    BY <1>5 DEF AuthCommit, CommitThenGoto
  <2>3. task'[t].pc = "a_issue"
    BY <1>0, <2>2 DEF Handler
  <2>4. ASSUME NEW r \in challenges
        PROVE  \E q \in challenges' : q.cid = r.cid /\ q.account = r.account /\ q.left = r.left
    <3> DEFINE q == IF r.cid = task[t].cid THEN [r EXCEPT !.used = TRUE] ELSE r
    <3>1. r \in Row
      BY DEF RefinementInv, IInv, TypeOK
    <3>2. q.cid = r.cid /\ q.account = r.account /\ q.left = r.left
      BY <3>1 DEF Row
    <3>3. q \in challenges'
      BY <1>5 DEF AuthCommit, Committed
    <3> QED
      BY <3>2, <3>3
  <2> QED
    BY <2>1, <2>2, <2>3, <2>4, RowsCommitStep
<1>6. CASE AuthIssue(t)
  BY <1>6, RowsFinishStep DEF AuthIssue
<1> QED
  BY <1>1, <1>2, <1>3, <1>4, <1>5, <1>6 DEF AuthStep

LEMMA EnvironmentRows ==
    ASSUME RefinementInv, Environment
    PROVE  ClaimsHaveRows' /\ DownMeansIdle'
<1>0. task \in [Task -> Handler]
  BY DEF RefinementInv, IInv, TypeOK
<1>1. CASE OtherCommit
  <2>1. ASSUME NEW u \in Task
        PROVE  /\ task'[u].pc = task[u].pc /\ task'[u].cid = task[u].cid
               /\ task'[u].account = task[u].account /\ task'[u].left = task[u].left
    BY <1>0, <1>1 DEF OtherCommit, Outdate, Handler
  <2>2. challenges' = challenges /\ up' = up
    BY <1>1 DEF OtherCommit
  <2> QED
    BY <2>1, <2>2 DEF RefinementInv, ClaimsHaveRows, DownMeansIdle
<1>2. CASE Crash
  <2>1. \A u \in Task : task'[u].pc = "idle"
    BY <1>2, IdleHandler DEF Crash
  <2> QED
    BY <2>1 DEF ClaimsHaveRows, DownMeansIdle, Reading
<1>3. CASE Startup
  <2>1. task' = task /\ up' /\ \A u \in Task : task[u].pc = "idle"
    BY <1>3 DEF Startup, RefinementInv, DownMeansIdle
  <2> QED
    BY <2>1 DEF ClaimsHaveRows, DownMeansIdle, Reading
<1>4. CASE Tick
  <2>1. ASSUME NEW u \in Task
        PROVE  /\ task'[u].pc = task[u].pc /\ task'[u].cid = task[u].cid
               /\ task'[u].account = task[u].account /\ task'[u].left = Earlier(task[u].left)
    BY <1>0, <1>4 DEF Tick, Handler
  <2>2. ASSUME NEW r \in challenges
        PROVE  \E q \in challenges' : q.cid = r.cid /\ q.account = r.account /\ q.left = Earlier(r.left)
    <3> DEFINE q == [r EXCEPT !.left = Earlier(r.left),
                              !.pastDay = r.pastDay \/ (tod' = 0 /\ r.left = 0)]
    <3>1. r \in Row
      BY DEF RefinementInv, IInv, TypeOK
    <3>2. q.cid = r.cid /\ q.account = r.account /\ q.left = Earlier(r.left)
      BY <3>1 DEF Row
    <3>3. q \in challenges'
      BY <1>4 DEF Tick
    <3> QED
      BY <3>2, <3>3
  <2>3. ClaimsHaveRows'
    <3> SUFFICES ASSUME NEW u \in Task, task'[u].pc \in Reading \cup {"a_commit"}
                 PROVE  \E q \in challenges' : /\ q.cid = task'[u].cid /\ q.account = task'[u].account
                                               /\ q.left = task'[u].left
      BY DEF ClaimsHaveRows
    <3>1. PICK r \in challenges : /\ r.cid = task[u].cid /\ r.account = task[u].account
                                  /\ r.left = task[u].left
      BY <2>1 DEF RefinementInv, ClaimsHaveRows
    <3> QED
      BY <2>1, <2>2, <3>1
  <2>4. DownMeansIdle'
    BY <1>4, <2>1 DEF Tick, RefinementInv, DownMeansIdle
  <2> QED
    BY <2>3, <2>4
<1>5. ASSUME NEW t \in Task, Abort(t) PROVE ClaimsHaveRows' /\ DownMeansIdle'
  BY <1>5, RowsFinishStep DEF Abort
<1> QED
  BY <1>1, <1>2, <1>3, <1>4, <1>5 DEF Environment

LEMMA StepRefinementInv == RefinementInv /\ [Next]_vars => RefinementInv'
<1> SUFFICES ASSUME RefinementInv, [Next]_vars PROVE RefinementInv'
  OBVIOUS
<1>1. IInv'
  BY StepIInv DEF RefinementInv
<1>2. CASE UNCHANGED vars
  BY <1>1, <1>2 DEF vars, RefinementInv, ClaimsHaveRows, DownMeansIdle
<1>3. CASE Next
  BY <1>1, <1>3, ChallengeStepRows, AuthStepRows, EnvironmentRows DEF Next, RefinementInv
<1> QED
  BY <1>2, <1>3

LEMMA InitRefinementInv == Init => RefinementInv
<1> SUFFICES ASSUME Init PROVE RefinementInv
  OBVIOUS
<1>1. \A t \in Task : task[t].pc = "idle"
  BY IdleHandler DEF Init
<1> QED
  BY <1>1, InitIInv DEF RefinementInv, ClaimsHaveRows, DownMeansIdle, Reading

-----------------------------------------------------------------------------
(* The refinement of ChallengeBook: the simulation                         *)

\* What one handler's step does to the answers carried at some statements.
LEMMA AnswersMove ==
    ASSUME NEW f, NEW g, NEW labels, NEW t \in Task,
           \A u \in Task \ {t} : g[u].pc = f[u].pc /\ AnswerOf(g[u]) = AnswerOf(f[u])
    PROVE  /\ g[t].pc \in labels => AnswerOf(g[t]) \in AnswersAt(g, labels)
           /\ f[t].pc \in labels => AnswerOf(f[t]) \in AnswersAt(f, labels)
           /\ \A a \in AnswersAt(g, labels) :
                 a \in AnswersAt(f, labels) \/ (g[t].pc \in labels /\ a = AnswerOf(g[t]))
           /\ \A a \in AnswersAt(f, labels) :
                 a \in AnswersAt(g, labels) \/ (f[t].pc \in labels /\ a = AnswerOf(f[t]))
<1> HIDE DEF AnswerOf
<1> QED
  BY DEF AnswersAt, HandlersAt

LEMMA InsertsMove ==
    ASSUME NEW f, NEW g, NEW labels, NEW t \in Task,
           \A u \in Task \ {t} : g[u].pc = f[u].pc /\ InsertOf(g[u]) = InsertOf(f[u])
    PROVE  /\ g[t].pc \in labels => InsertOf(g[t]) \in InsertsAt(g, labels)
           /\ f[t].pc \in labels => InsertOf(f[t]) \in InsertsAt(f, labels)
           /\ \A a \in InsertsAt(g, labels) :
                 a \in InsertsAt(f, labels) \/ (g[t].pc \in labels /\ a = InsertOf(g[t]))
           /\ \A a \in InsertsAt(f, labels) :
                 a \in InsertsAt(g, labels) \/ (f[t].pc \in labels /\ a = InsertOf(f[t]))
<1> HIDE DEF InsertOf
<1> QED
  BY DEF InsertsAt, HandlersAt

\* A handler that carries nothing before and after its step leaves the sets alone.
LEMMA AnswersSame ==
    ASSUME NEW f, NEW g, NEW labels, NEW t \in Task,
           \A u \in Task \ {t} : g[u].pc = f[u].pc /\ AnswerOf(g[u]) = AnswerOf(f[u]),
           g[t].pc \notin labels, f[t].pc \notin labels
    PROVE  AnswersAt(g, labels) = AnswersAt(f, labels)
<1> HIDE DEF AnswerOf
<1>1. /\ \A a \in AnswersAt(g, labels) : a \in AnswersAt(f, labels)
      /\ \A a \in AnswersAt(f, labels) : a \in AnswersAt(g, labels)
  BY AnswersMove
<1> QED
  BY <1>1

LEMMA InsertsSame ==
    ASSUME NEW f, NEW g, NEW labels, NEW t \in Task,
           \A u \in Task \ {t} : g[u].pc = f[u].pc /\ InsertOf(g[u]) = InsertOf(f[u]),
           g[t].pc \notin labels, f[t].pc \notin labels
    PROVE  InsertsAt(g, labels) = InsertsAt(f, labels)
<1> HIDE DEF InsertOf
<1>1. /\ \A a \in InsertsAt(g, labels) : a \in InsertsAt(f, labels)
      /\ \A a \in InsertsAt(f, labels) : a \in InsertsAt(g, labels)
  BY InsertsMove
<1> QED
  BY <1>1

\* The others keep what they carry, also when a commit outdates them.
LEMMA OthersKeep ==
    ASSUME task \in [Task -> Handler], NEW t \in Task,
           \A u \in Task \ {t} : task'[u] \in {task[u], Outdate(task[u])}
    PROVE  \A u \in Task \ {t} : /\ task'[u].pc = task[u].pc
                                 /\ AnswerOf(task'[u]) = AnswerOf(task[u])
                                 /\ InsertOf(task'[u]) = InsertOf(task[u])
<1> SUFFICES ASSUME NEW u \in Task \ {t}
             PROVE  /\ task'[u].pc = task[u].pc /\ task'[u].cid = task[u].cid
                    /\ task'[u].account = task[u].account /\ task'[u].left = task[u].left
                    /\ task'[u].by = task[u].by /\ task'[u].over = task[u].over
  BY DEF AnswerOf, InsertOf
<1>1. task[u] \in Handler
  OBVIOUS
<1> QED
  BY <1>1 DEF Outdate, Handler

\* What a step of handler t does to the three sets read off the handlers.
Carries(h) == h.pc \in {"q_insert", "a_issue"} \cup Accepting

LEMMA CarriedMove ==
    ASSUME task \in [Task -> Handler], NEW t \in Task,
           \A u \in Task \ {t} : task'[u] \in {task[u], Outdate(task[u])}
    PROVE  /\ ~Carries(task'[t]) => /\ pending' \subseteq pending /\ accepted' \subseteq accepted
                                    /\ granted' \subseteq granted
           /\ ~Carries(task[t]) => /\ pending \subseteq pending' /\ accepted \subseteq accepted'
                                   /\ granted \subseteq granted'
<1>1. \A u \in Task \ {t} : /\ task'[u].pc = task[u].pc
                            /\ AnswerOf(task'[u]) = AnswerOf(task[u])
                            /\ InsertOf(task'[u]) = InsertOf(task[u])
  BY OthersKeep
<1> HIDE DEF AnswerOf, InsertOf
<1>2. \A labels : /\ \A a \in AnswersAt(task', labels) :
                        a \in AnswersAt(task, labels) \/ task'[t].pc \in labels
                  /\ \A a \in AnswersAt(task, labels) :
                        a \in AnswersAt(task', labels) \/ task[t].pc \in labels
  BY <1>1, AnswersMove
<1>3. \A labels : /\ \A a \in InsertsAt(task', labels) :
                        a \in InsertsAt(task, labels) \/ task'[t].pc \in labels
                  /\ \A a \in InsertsAt(task, labels) :
                        a \in InsertsAt(task', labels) \/ task[t].pc \in labels
  BY <1>1, InsertsMove
<1>4. /\ pending = InsertsAt(task, {"q_insert"}) /\ pending' = InsertsAt(task', {"q_insert"})
      /\ accepted = AnswersAt(task, Accepting) /\ accepted' = AnswersAt(task', Accepting)
      /\ granted = AnswersAt(task, {"a_issue"}) /\ granted' = AnswersAt(task', {"a_issue"})
  BY DEF pending, accepted, granted, AnswersAt, InsertsAt, HandlersAt
<1>5. ASSUME ~Carries(task'[t])
      PROVE  pending' \subseteq pending /\ accepted' \subseteq accepted /\ granted' \subseteq granted
  BY <1>2, <1>3, <1>4, <1>5 DEF Carries
<1>6. ASSUME ~Carries(task[t])
      PROVE  pending \subseteq pending' /\ accepted \subseteq accepted' /\ granted \subseteq granted'
  BY <1>2, <1>3, <1>4, <1>6 DEF Carries
<1> QED
  BY <1>5, <1>6

\* How the entry of a row changes in the book.
LEMMA EntryChanges ==
    ASSUME NEW q \in Row
    PROVE  /\ Book!Spent(EntryOf(q)) =
                 [cid |-> q.cid, account |-> q.account, left |-> q.left, used |-> TRUE]
           /\ Book!Aged(EntryOf(q)) =
                 [cid |-> q.cid, account |-> q.account, left |-> Earlier(q.left), used |-> q.used]
<1> DEFINE x == EntryOf(q)
           spent == Book!Spent(x)
           aged == Book!Aged(x)
<1>1. /\ x \in [cid : ChallengeId, account : Account, left : 0 .. ChallengeTTL, used : BOOLEAN]
      /\ x.cid = q.cid /\ x.account = q.account /\ x.left = q.left /\ x.used = q.used
  BY DEF Row, EntryOf
<1> HIDE DEF x
<1>2. /\ spent \in [cid : ChallengeId, account : Account, left : 0 .. ChallengeTTL, used : BOOLEAN]
      /\ spent.cid = q.cid /\ spent.account = q.account /\ spent.left = q.left /\ spent.used = TRUE
  BY <1>1 DEF Book!Spent
<1>3. /\ aged \in [cid : ChallengeId, account : Account, left : 0 .. ChallengeTTL, used : BOOLEAN]
      /\ aged.cid = q.cid /\ aged.account = q.account
      /\ aged.left = Earlier(q.left) /\ aged.used = q.used
  BY <1>1, ParamsAssumption DEF Book!Aged, Earlier
<1> HIDE DEF spent, aged
<1>4. spent = [cid |-> spent.cid, account |-> spent.account, left |-> spent.left, used |-> spent.used]
  BY <1>2
<1>5. aged = [cid |-> aged.cid, account |-> aged.account, left |-> aged.left, used |-> aged.used]
  BY <1>3
<1> QED
  BY <1>2, <1>3, <1>4, <1>5 DEF spent, aged, x

\* A step that carries nothing before or after it and stores nothing is a
\* stutter; one that only drops what it carried loses it.
LEMMA QuietStep ==
    ASSUME task \in [Task -> Handler], NEW t \in Task,
           \A u \in Task \ {t} : task'[u] \in {task[u], Outdate(task[u])},
           ~Carries(task'[t]), UNCHANGED <<challenges, owner, issued>>
    PROVE  Book!Lose
<1>1. stored' = stored
  BY DEF stored, EntryOf
<1> QED
  BY <1>1, CarriedMove DEF Book!Lose

LEMMA FinishLoses ==
    ASSUME task \in [Task -> Handler], NEW t \in Task, Finish(t), UNCHANGED <<challenges, owner, issued>>
    PROVE  Book!Lose
<1>1. task'[t] = Idle /\ \A u \in Task \ {t} : task'[u] = task[u]
  BY DEF Finish
<1> QED
  BY <1>1, IdleHandler, QuietStep DEF Carries, Accepting

LEMMA GotoLoses ==
    ASSUME task \in [Task -> Handler], NEW t \in Task, NEW l, Goto(t, l),
           l \notin {"q_insert", "a_issue"} \cup Accepting, UNCHANGED <<challenges, owner, issued>>
    PROVE  Book!Lose
<1>1. task'[t].pc = l /\ \A u \in Task \ {t} : task'[u] = task[u]
  BY DEF Goto, Handler
<1> QED
  BY <1>1, QuietStep DEF Carries

-----------------------------------------------------------------------------
(* requestChallenge                                                        *)

LEMMA MintSimulates ==
    ASSUME RefinementInv, NEW t \in Task, ChallengeMint(t) PROVE Book!Mint
<1>1. task \in [Task -> Handler] /\ task[t].pc = "q_mint" /\ task[t].account \in Account
  BY DEF RefinementInv, IInv, TypeOK, ArgumentsOK, ChallengeMint, At
<1>2. PICK c \in ChallengeId :
         /\ owner[c] = None
         /\ owner' = [owner EXCEPT ![c] = task[t].account]
         /\ task' = [task EXCEPT ![t].pc = "q_insert", ![t].cid = c, ![t].left = ChallengeTTL]
  BY DEF ChallengeMint
<1> DEFINE h == [task[t] EXCEPT !.pc = "q_insert", !.cid = c, !.left = ChallengeTTL]
           r == [cid |-> c, account |-> task[t].account, left |-> ChallengeTTL, used |-> FALSE]
<1>3. task'[t] = h /\ \A u \in Task \ {t} : task'[u] = task[u]
  BY <1>1, <1>2
<1>4. h.pc = "q_insert" /\ InsertOf(h) = r
  BY <1>1 DEF Handler, InsertOf
<1> HIDE DEF h, r
<1>5. pending' = pending \cup {r}
  <2>1. \A u \in Task \ {t} : task'[u].pc = task[u].pc /\ InsertOf(task'[u]) = InsertOf(task[u])
    BY <1>3
  <2>2. /\ \A x \in InsertsAt(task', {"q_insert"}) : x \in InsertsAt(task, {"q_insert"}) \/ x = r
        /\ \A x \in InsertsAt(task, {"q_insert"}) : x \in InsertsAt(task', {"q_insert"})
        /\ r \in InsertsAt(task', {"q_insert"})
    BY <1>1, <1>3, <1>4, <2>1, InsertsMove
  <2>3. pending = InsertsAt(task, {"q_insert"}) /\ pending' = InsertsAt(task', {"q_insert"})
    BY DEF pending, InsertsAt, HandlersAt, InsertOf
  <2> QED
    BY <2>2, <2>3
<1>6. accepted' = accepted /\ granted' = granted
  <2>1. \A u \in Task \ {t} : task'[u].pc = task[u].pc /\ AnswerOf(task'[u]) = AnswerOf(task[u])
    BY <1>3
  <2>2. AnswersAt(task', Accepting) = AnswersAt(task, Accepting)
    <3>1. task'[t].pc \notin Accepting /\ task[t].pc \notin Accepting
      BY <1>1, <1>3, <1>4 DEF Accepting
    <3> QED
      BY <2>1, <3>1, AnswersSame
  <2>3. AnswersAt(task', {"a_issue"}) = AnswersAt(task, {"a_issue"})
    BY <1>1, <1>3, <1>4, <2>1, AnswersSame
  <2>4. /\ accepted = AnswersAt(task, Accepting) /\ accepted' = AnswersAt(task', Accepting)
        /\ granted = AnswersAt(task, {"a_issue"}) /\ granted' = AnswersAt(task', {"a_issue"})
    BY DEF accepted, granted, AnswersAt, HandlersAt, AnswerOf
  <2> QED
    BY <2>2, <2>3, <2>4
<1>7. stored' = stored /\ issued' = issued
  BY DEF ChallengeMint, stored, EntryOf
<1> QED
  BY <1>1, <1>2, <1>5, <1>6, <1>7 DEF Book!Mint, r

\* The row goes from the handler to the table.
LEMMA InsertSimulates ==
    ASSUME RefinementInv, NEW t \in Task, ChallengeInsert(t) PROVE Book!Store
<1> DEFINE new == [cid |-> task[t].cid, account |-> task[t].account, left |-> task[t].left,
                   pastDay |-> FALSE, used |-> FALSE]
           r == InsertOf(task[t])
<1>1. /\ task \in [Task -> Handler] /\ task[t].pc = "q_insert"
      /\ challenges' = challenges \cup {new} /\ owner' = owner /\ issued' = issued
  BY DEF RefinementInv, IInv, TypeOK, ChallengeInsert, At
<1>2. task'[t] = Idle /\ \A u \in Task \ {t} : task'[u] = Outdate(task[u])
  BY DEF ChallengeInsert, CommitThenFinish
<1>3. EntryOf(new) = r
  BY DEF EntryOf, InsertOf
<1>4. stored' = stored \cup {r}
  <2>1. stored' = {EntryOf(q) : q \in challenges'}
    BY DEF stored, EntryOf
  <2> HIDE DEF new, r, EntryOf
  <2> QED
    BY <1>1, <1>3, <2>1 DEF stored
<1>5. r \in pending /\ pending' = pending \ {r}
  <2>1. \A u \in Task \ {t} : task'[u].pc = task[u].pc /\ InsertOf(task'[u]) = InsertOf(task[u])
    BY <1>1, <1>2, OthersKeep
  <2>2. task'[t].pc = "idle"
    BY <1>2, IdleHandler
  <2>3. pending = InsertsAt(task, {"q_insert"}) /\ pending' = InsertsAt(task', {"q_insert"})
    BY DEF pending, InsertsAt, HandlersAt, InsertOf
  <2>4. /\ \A x \in InsertsAt(task', {"q_insert"}) : x \in InsertsAt(task, {"q_insert"})
        /\ \A x \in InsertsAt(task, {"q_insert"}) : x \in InsertsAt(task', {"q_insert"}) \/ x = r
        /\ r \in InsertsAt(task, {"q_insert"})
    BY <1>1, <2>1, <2>2, InsertsMove
  <2>5. r \notin InsertsAt(task', {"q_insert"})
    <3> SUFFICES ASSUME NEW u \in Task, task'[u].pc = "q_insert", InsertOf(task'[u]) = r PROVE FALSE
      BY DEF InsertsAt, HandlersAt
    <3>1. u # t /\ task[u].pc = "q_insert" /\ InsertOf(task[u]) = r
      BY <2>1, <2>2
    <3>2. task[u].cid = task[t].cid
      BY <3>1 DEF InsertOf
    <3> QED
      BY <1>1, <3>1, <3>2 DEF RefinementInv, IInv, InsertsAreNew
  <2> HIDE DEF r
  <2> QED
    BY <2>3, <2>4, <2>5
<1>6. accepted' = accepted /\ granted' = granted
  <2>1. \A u \in Task \ {t} : task'[u].pc = task[u].pc /\ AnswerOf(task'[u]) = AnswerOf(task[u])
    BY <1>1, <1>2, OthersKeep
  <2>2. task'[t].pc = "idle"
    BY <1>2, IdleHandler
  <2>3. AnswersAt(task', Accepting) = AnswersAt(task, Accepting)
    BY <1>1, <2>1, <2>2, AnswersSame DEF Accepting
  <2>4. AnswersAt(task', {"a_issue"}) = AnswersAt(task, {"a_issue"})
    BY <1>1, <2>1, <2>2, AnswersSame
  <2>5. /\ accepted = AnswersAt(task, Accepting) /\ accepted' = AnswersAt(task', Accepting)
        /\ granted = AnswersAt(task, {"a_issue"}) /\ granted' = AnswersAt(task', {"a_issue"})
    BY DEF accepted, granted, AnswersAt, HandlersAt, AnswerOf
  <2> QED
    BY <2>3, <2>4, <2>5
<1> HIDE DEF r, new
<1> QED
  BY <1>1, <1>4, <1>5, <1>6 DEF Book!Store

LEMMA ChallengeSimulates ==
    ASSUME RefinementInv, NEW t \in Task, ChallengeStep(t) PROVE [Book!Next]_(Book!vars)
<1>0. task \in [Task -> Handler]
  BY DEF RefinementInv, IInv, TypeOK
<1>1. ASSUME NEW a \in Account \cup {Unknown}, ChallengeStart(t, a) PROVE Book!Lose
  <2>1. task'[t].pc = "q_lookup" /\ \A u \in Task \ {t} : task'[u] = task[u]
    BY <1>0, <1>1 DEF ChallengeStart, Begin, Idle
  <2> QED
    BY <1>0, <1>1, <2>1, QuietStep DEF ChallengeStart, Carries, Accepting
<1>2. ASSUME ChallengeLookup(t) PROVE Book!Lose
  BY <1>0, <1>2, FinishLoses, GotoLoses DEF ChallengeLookup, Accepting
<1> QED
  BY <1>1, <1>2, MintSimulates, InsertSimulates DEF ChallengeStep, Book!Next

-----------------------------------------------------------------------------
(* authenticate                                                            *)

\* The check accepts the right answer to a row with time left.
LEMMA CheckSimulates ==
    ASSUME RefinementInv, NEW t \in Task, AuthCheck(t) PROVE Book!Lose \/ Book!Accept
<1>1. /\ task \in [Task -> Handler] /\ task[t] \in Handler /\ task[t].pc = "a_check"
      /\ challenges' = challenges /\ owner' = owner /\ issued' = issued
  BY DEF RefinementInv, IInv, TypeOK, AuthCheck, At
<1>2. CASE Finish(t)
  BY <1>1, <1>2, FinishLoses
<1>3. CASE Timely(task[t]) /\ SignatureOk(task[t]) /\ Goto(t, "a_update")
  <2> DEFINE h == [task[t] EXCEPT !.pc = "a_update"]
  <2>1. task'[t] = h /\ \A u \in Task \ {t} : task'[u] = task[u]
    BY <1>1, <1>3 DEF Goto
  <2>2. h.pc = "a_update" /\ AnswerOf(h) = AnswerOf(task[t])
    BY <1>1 DEF Handler, AnswerOf
  <2> HIDE DEF h
  <2>3. PICK q \in challenges : /\ q.cid = task[t].cid /\ q.account = task[t].account
                                /\ q.left = task[t].left
    BY <1>1 DEF RefinementInv, ClaimsHaveRows, Reading
  <2>4. /\ EntryOf(q) \in stored /\ EntryOf(q).left > 0
        /\ AnswerOf(task[t]) = Book!RightAnswer(EntryOf(q))
    BY <1>3, <2>3 DEF stored, EntryOf, AnswerOf, Book!RightAnswer, Timely, SignatureOk
  <2>5. \A u \in Task \ {t} : /\ task'[u].pc = task[u].pc
                              /\ AnswerOf(task'[u]) = AnswerOf(task[u])
                              /\ InsertOf(task'[u]) = InsertOf(task[u])
    BY <2>1
  <2>6. /\ AnswersAt(task', Accepting) = AnswersAt(task, Accepting) \cup {AnswerOf(h)}
        /\ AnswersAt(task', {"a_issue"}) = AnswersAt(task, {"a_issue"})
        /\ InsertsAt(task', {"q_insert"}) = InsertsAt(task, {"q_insert"})
    <3>1. /\ AnswerOf(h) \in AnswersAt(task', Accepting)
          /\ \A a \in AnswersAt(task', Accepting) : a \in AnswersAt(task, Accepting) \/ a = AnswerOf(h)
          /\ \A a \in AnswersAt(task, Accepting) : a \in AnswersAt(task', Accepting)
      <4>1. task'[t].pc \in Accepting /\ task[t].pc \notin Accepting /\ AnswerOf(task'[t]) = AnswerOf(h)
        BY <1>1, <2>1, <2>2 DEF Accepting
      <4>2. \A u \in Task \ {t} : task'[u].pc = task[u].pc /\ AnswerOf(task'[u]) = AnswerOf(task[u])
        BY <2>5
      <4> HIDE DEF AnswerOf
      <4> QED
        BY <4>1, <4>2, AnswersMove
    <3>2. AnswersAt(task', {"a_issue"}) = AnswersAt(task, {"a_issue"})
      BY <1>1, <2>1, <2>2, <2>5, AnswersSame
    <3>3. InsertsAt(task', {"q_insert"}) = InsertsAt(task, {"q_insert"})
      BY <1>1, <2>1, <2>2, <2>5, InsertsSame
    <3> QED
      BY <3>1, <3>2, <3>3
  <2>7. /\ accepted = AnswersAt(task, Accepting) /\ accepted' = AnswersAt(task', Accepting)
        /\ granted = AnswersAt(task, {"a_issue"}) /\ granted' = AnswersAt(task', {"a_issue"})
        /\ pending = InsertsAt(task, {"q_insert"}) /\ pending' = InsertsAt(task', {"q_insert"})
    BY DEF accepted, granted, pending, AnswersAt, InsertsAt, HandlersAt, AnswerOf, InsertOf
  <2>8. stored' = stored
    BY <1>1 DEF stored, EntryOf
  <2>9. accepted' = accepted \cup {Book!RightAnswer(EntryOf(q))} /\ granted' = granted /\ pending' = pending
    BY <2>2, <2>4, <2>6, <2>7
  <2> QED
    BY <1>1, <2>4, <2>8, <2>9 DEF Book!Accept
<1> QED
  BY <1>2, <1>3 DEF AuthCheck

\* Taking the lock leaves the answer accepted; so does keeping it in vain.
LEMMA UpdateSimulates ==
    ASSUME RefinementInv, NEW t \in Task, AuthUpdate(t) PROVE Book!Lose
<1>1. /\ task \in [Task -> Handler] /\ task[t].pc = "a_update"
      /\ challenges' = challenges /\ owner' = owner /\ issued' = issued
  BY DEF RefinementInv, IInv, TypeOK, AuthUpdate, At
<1>2. CASE Finish(t)
  BY <1>1, <1>2, FinishLoses
<1>3. CASE Goto(t, "a_commit")
  <2>1. task'[t] = [task[t] EXCEPT !.pc = "a_commit"] /\ \A u \in Task \ {t} : task'[u] = task[u]
    BY <1>1, <1>3 DEF Goto
  <2>2. task'[t].pc = "a_commit" /\ AnswerOf(task'[t]) = AnswerOf(task[t])
    BY <1>1, <2>1 DEF Handler, AnswerOf
  <2>3. \A u \in Task \ {t} : /\ task'[u].pc = task[u].pc
                              /\ AnswerOf(task'[u]) = AnswerOf(task[u])
                              /\ InsertOf(task'[u]) = InsertOf(task[u])
    BY <2>1
  <2>4. AnswersAt(task', Accepting) = AnswersAt(task, Accepting)
    <3>1. /\ task'[t].pc \in Accepting /\ task[t].pc \in Accepting
          /\ AnswerOf(task'[t]) = AnswerOf(task[t])
      BY <1>1, <2>2 DEF Accepting
    <3> HIDE DEF AnswerOf
    <3>2. /\ \A a \in AnswersAt(task', Accepting) : a \in AnswersAt(task, Accepting)
          /\ \A a \in AnswersAt(task, Accepting) : a \in AnswersAt(task', Accepting)
      BY <2>3, <3>1, AnswersMove
    <3> QED
      BY <3>2
  <2>5. AnswersAt(task', {"a_issue"}) = AnswersAt(task, {"a_issue"})
    BY <1>1, <2>2, <2>3, AnswersSame
  <2>6. InsertsAt(task', {"q_insert"}) = InsertsAt(task, {"q_insert"})
    <3>1. \A u \in Task \ {t} : task'[u].pc = task[u].pc /\ InsertOf(task'[u]) = InsertOf(task[u])
      BY <2>3
    <3>2. task'[t].pc \notin {"q_insert"} /\ task[t].pc \notin {"q_insert"}
      BY <1>1, <2>2
    <3> QED
      BY <3>1, <3>2, InsertsSame
  <2>7. accepted' = accepted /\ granted' = granted /\ pending' = pending
    BY <2>4, <2>5, <2>6
       DEF accepted, granted, pending, AnswersAt, InsertsAt, HandlersAt, AnswerOf, InsertOf
  <2>8. stored' = stored
    BY <1>1 DEF stored, EntryOf
  <2> QED
    BY <1>1, <2>7, <2>8 DEF Book!Lose
<1> QED
  BY <1>2, <1>3 DEF AuthUpdate

\* The commit spends the challenge, which no other commit did since the
\* snapshot.
LEMMA CommitSimulates ==
    ASSUME RefinementInv, NEW t \in Task, AuthCommit(t) PROVE Book!Spend
<1> DEFINE a == AnswerOf(task[t])
<1>1. /\ task \in [Task -> Handler] /\ task[t].pc = "a_commit"
      /\ challenges' = Committed(task[t].cid) /\ owner' = owner /\ issued' = issued
  BY DEF RefinementInv, IInv, TypeOK, AuthCommit, At
<1>2. /\ task'[t] = [task[t] EXCEPT !.pc = "a_issue"]
      /\ \A u \in Task \ {t} : task'[u] = Outdate(task[u])
  BY DEF AuthCommit, CommitThenGoto
<1>3. task'[t].pc = "a_issue" /\ AnswerOf(task'[t]) = a /\ task[t].pc \in Accepting
  BY <1>1, <1>2 DEF Handler, AnswerOf, Accepting
<1>4. \A u \in Task \ {t} : /\ task'[u].pc = task[u].pc
                            /\ AnswerOf(task'[u]) = AnswerOf(task[u])
                            /\ InsertOf(task'[u]) = InsertOf(task[u])
  BY <1>1, <1>2, OthersKeep
<1>5. PICK q \in challenges : q.cid = task[t].cid /\ q.account = task[t].account
  BY <1>1 DEF RefinementInv, ClaimsHaveRows
<1>6. ~q.used
  BY <1>1, <1>5 DEF RefinementInv, IInv, SnapshotsUnspent, Unspent
<1>7. a = Book!RightAnswer(EntryOf(q)) /\ EntryOf(q) \in stored /\ ~EntryOf(q).used
  BY <1>1, <1>5, <1>6
     DEF RefinementInv, IInv, ClaimsAreSigned, Book!RightAnswer, EntryOf, AnswerOf, stored
<1>8. stored' = (stored \ {EntryOf(q)}) \cup {Book!Spent(EntryOf(q))}
  <2>1. \A r \in challenges : r \in Row /\ (r.cid = q.cid => r = q)
    BY DEF RefinementInv, IInv, TypeOK, IdsUnique
  <2>2. EntryOf([q EXCEPT !.used = TRUE]) = Book!Spent(EntryOf(q))
    <3> DEFINE p == [q EXCEPT !.used = TRUE]
    <3>1. p.cid = q.cid /\ p.account = q.account /\ p.left = q.left /\ p.used = TRUE
      <4>1. q \in Row
        BY <2>1
      <4> QED
        BY <4>1 DEF Row
    <3>2. Book!Spent(EntryOf(q)) = [cid |-> q.cid, account |-> q.account, left |-> q.left, used |-> TRUE]
      BY <2>1, EntryChanges
    <3> HIDE DEF p
    <3>3. EntryOf(p) = Book!Spent(EntryOf(q))
      BY <3>1, <3>2 DEF EntryOf
    <3> QED
      BY <3>3 DEF p
  <2>3. \A r \in challenges : EntryOf(r) = EntryOf(q) <=> r = q
    BY <2>1 DEF EntryOf
  <2>4. challenges' = (challenges \ {q}) \cup {[q EXCEPT !.used = TRUE]}
    BY <1>1, <1>5, <2>1 DEF Committed
  <2>5. stored' = {EntryOf(r) : r \in challenges'}
    BY DEF stored, EntryOf
  <2> HIDE DEF EntryOf
  <2> QED
    BY <2>2, <2>3, <2>4, <2>5 DEF stored
<1> HIDE DEF a, AnswerOf
<1>9. a \in accepted /\ accepted' \in {accepted, accepted \ {a}}
  <2>1. accepted = AnswersAt(task, Accepting) /\ accepted' = AnswersAt(task', Accepting)
    BY DEF accepted, AnswersAt, HandlersAt, AnswerOf
  <2>2. task'[t].pc \notin Accepting
    BY <1>3 DEF Accepting
  <2>3. /\ a \in AnswersAt(task, Accepting)
        /\ \A x \in AnswersAt(task', Accepting) : x \in AnswersAt(task, Accepting)
        /\ \A x \in AnswersAt(task, Accepting) : x \in AnswersAt(task', Accepting) \/ x = a
    BY <1>3, <1>4, <2>2, AnswersMove DEF a
  <2> QED
    BY <2>1, <2>3
<1>10. granted' = granted \cup {a}
  <2>1. granted = AnswersAt(task, {"a_issue"}) /\ granted' = AnswersAt(task', {"a_issue"})
    BY DEF granted, AnswersAt, HandlersAt, AnswerOf
  <2>2. \A u \in Task \ {t} : task'[u].pc = task[u].pc /\ AnswerOf(task'[u]) = AnswerOf(task[u])
    BY <1>4
  <2>3. task'[t].pc \in {"a_issue"} /\ task[t].pc \notin {"a_issue"} /\ AnswerOf(task'[t]) = a
    BY <1>1, <1>3
  <2>4. /\ a \in AnswersAt(task', {"a_issue"})
        /\ \A x \in AnswersAt(task', {"a_issue"}) : x \in AnswersAt(task, {"a_issue"}) \/ x = a
        /\ \A x \in AnswersAt(task, {"a_issue"}) : x \in AnswersAt(task', {"a_issue"})
    BY <2>2, <2>3, AnswersMove
  <2> QED
    BY <2>1, <2>4
<1>11. pending' = pending
  <2>1. pending = InsertsAt(task, {"q_insert"}) /\ pending' = InsertsAt(task', {"q_insert"})
    BY DEF pending, InsertsAt, HandlersAt, InsertOf
  <2>2. \A u \in Task \ {t} : task'[u].pc = task[u].pc /\ InsertOf(task'[u]) = InsertOf(task[u])
    BY <1>4
  <2>3. task'[t].pc \notin {"q_insert"} /\ task[t].pc \notin {"q_insert"}
    BY <1>1, <1>3
  <2>4. InsertsAt(task', {"q_insert"}) = InsertsAt(task, {"q_insert"})
    BY <2>2, <2>3, InsertsSame
  <2> QED
    BY <2>1, <2>4
<1> QED
  BY <1>1, <1>7, <1>8, <1>9, <1>10, <1>11 DEF Book!Spend

\* No other handler has the answer that is granted: one session comes of it.
LEMMA IssueSimulates ==
    ASSUME RefinementInv, NEW t \in Task, AuthIssue(t) PROVE Book!Grant
<1> DEFINE a == AnswerOf(task[t])
<1>1. /\ task \in [Task -> Handler] /\ task[t].pc = "a_issue"
      /\ issued' = [issued EXCEPT ![task[t].cid] = @ + 1]
      /\ challenges' = challenges /\ owner' = owner
  BY DEF RefinementInv, IInv, TypeOK, AuthIssue, At
<1>2. task'[t].pc = "idle" /\ \A u \in Task \ {t} : task'[u] = task[u]
  BY <1>1, IdleHandler DEF AuthIssue, Finish
<1>3. \A u \in Task \ {t} : task[u].pc = "a_issue" => AnswerOf(task[u]) # a
  BY <1>1 DEF RefinementInv, IInv, WinnersAreAlone, AnswerOf
<1>4. a.cid = task[t].cid
  BY DEF AnswerOf
<1> HIDE DEF a
<1>5. granted' = granted \ {a}
  <2>1. granted = {AnswerOf(task[u]) : u \in {v \in Task : task[v].pc = "a_issue"}}
    BY DEF granted, AnswersAt, HandlersAt
  <2>2. granted' = {AnswerOf(task'[u]) : u \in {v \in Task : task'[v].pc = "a_issue"}}
    BY DEF granted, AnswersAt, HandlersAt, AnswerOf
  <2> QED
    BY <1>1, <1>2, <1>3, <2>1, <2>2 DEF a
<1>6. a \in granted
  BY <1>1 DEF granted, AnswersAt, HandlersAt, a
<1>7. accepted' = accepted
  <2>1. task'[t].pc \notin Accepting /\ task[t].pc \notin Accepting
    BY <1>1, <1>2 DEF Accepting
  <2>2. \A u \in Task \ {t} : task'[u].pc = task[u].pc /\ AnswerOf(task'[u]) = AnswerOf(task[u])
    BY <1>2
  <2>3. AnswersAt(task', Accepting) = AnswersAt(task, Accepting)
    BY <2>1, <2>2, AnswersSame
  <2> QED
    BY <2>3 DEF accepted, AnswersAt, HandlersAt, AnswerOf
<1>8. pending' = pending
  <2>1. task'[t].pc \notin {"q_insert"} /\ task[t].pc \notin {"q_insert"}
    BY <1>1, <1>2
  <2>2. \A u \in Task \ {t} : task'[u].pc = task[u].pc /\ InsertOf(task'[u]) = InsertOf(task[u])
    BY <1>2
  <2>3. InsertsAt(task', {"q_insert"}) = InsertsAt(task, {"q_insert"})
    BY <2>1, <2>2, InsertsSame
  <2> QED
    BY <2>3 DEF pending, InsertsAt, HandlersAt, InsertOf
<1>9. stored' = stored
  BY <1>1 DEF stored, EntryOf
<1> QED
  BY <1>1, <1>4, <1>5, <1>6, <1>7, <1>8, <1>9 DEF Book!Grant

LEMMA AuthSimulates ==
    ASSUME RefinementInv, NEW t \in Task, AuthStep(t) PROVE [Book!Next]_(Book!vars)
<1>0. task \in [Task -> Handler]
  BY DEF RefinementInv, IInv, TypeOK
<1>1. ASSUME NEW a \in Account, NEW by \in Account, NEW c \in ChallengeId, NEW over \in ChallengeId,
             AuthStart(t, a, c, by, over)
      PROVE  Book!Lose
  <2>1. task'[t].pc = "a_read" /\ \A u \in Task \ {t} : task'[u] = task[u]
    BY <1>0, <1>1 DEF AuthStart, Begin, Idle
  <2> QED
    BY <1>0, <1>1, <2>1, QuietStep DEF AuthStart, Carries, Accepting
<1>2. ASSUME AuthRead(t) PROVE Book!Lose
  <2>1. UNCHANGED <<challenges, owner, issued>>
    BY <1>2 DEF AuthRead
  <2>2. CASE Finish(t)
    BY <1>0, <2>1, <2>2, FinishLoses
  <2>3. ASSUME NEW r \in Found(task[t].cid, task[t].account),
               task' = [task EXCEPT ![t].pc = "a_check", ![t].left = r.left]
        PROVE  Book!Lose
    <3>1. task'[t].pc = "a_check" /\ \A u \in Task \ {t} : task'[u] = task[u]
      BY <1>0, <2>3 DEF Handler
    <3>2. ~Carries(task'[t])
      BY <3>1 DEF Carries, Accepting
    <3> QED
      BY <1>0, <2>1, <3>1, <3>2, QuietStep
  <2> QED
    BY <1>2, <2>2, <2>3 DEF AuthRead
<1> QED
  BY <1>1, <1>2, CheckSimulates, UpdateSimulates, CommitSimulates, IssueSimulates
     DEF AuthStep, Book!Next

-----------------------------------------------------------------------------
(* The environment                                                         *)

\* When every handler keeps its statement and its answer, the answers stay.
LEMMA AllKeepAnswers ==
    ASSUME NEW labels, \A u \in Task : task'[u].pc = task[u].pc /\ AnswerOf(task'[u]) = AnswerOf(task[u])
    PROVE  AnswersAt(task', labels) = AnswersAt(task, labels)
<1> QED
  BY DEF AnswersAt, HandlersAt

LEMMA OtherCommitSimulates ==
    ASSUME RefinementInv, OtherCommit PROVE Book!Lose
<1>1. \A u \in Task : /\ task'[u].pc = task[u].pc
                      /\ AnswerOf(task'[u]) = AnswerOf(task[u])
                      /\ InsertOf(task'[u]) = InsertOf(task[u])
  <2> SUFFICES ASSUME NEW u \in Task
               PROVE  /\ task'[u].pc = task[u].pc /\ task'[u].cid = task[u].cid
                      /\ task'[u].account = task[u].account /\ task'[u].left = task[u].left
                      /\ task'[u].by = task[u].by /\ task'[u].over = task[u].over
    BY DEF AnswerOf, InsertOf
  <2>1. task[u] \in Handler /\ task'[u] = Outdate(task[u])
    BY DEF RefinementInv, IInv, TypeOK, OtherCommit
  <2> QED
    BY <2>1 DEF Outdate, Handler
<1>2. \A labels : AnswersAt(task', labels) = AnswersAt(task, labels)
  BY <1>1, AllKeepAnswers
<1>3. accepted' = accepted /\ granted' = granted
  BY <1>2 DEF accepted, granted, AnswersAt, HandlersAt, AnswerOf
<1>4. pending' = pending
  <2> HIDE DEF InsertOf
  <2>1. pending' = {InsertOf(task'[u]) : u \in {v \in Task : task'[v].pc \in {"q_insert"}}}
    BY DEF pending, InsertsAt, HandlersAt, InsertOf
  <2> QED
    BY <1>1, <2>1 DEF pending, InsertsAt, HandlersAt
<1>5. stored' = stored
  BY DEF OtherCommit, stored, EntryOf
<1> QED
  BY <1>3, <1>4, <1>5 DEF OtherCommit, Book!Lose

LEMMA CrashSimulates ==
    ASSUME Crash PROVE Book!Lose
<1>1. \A u \in Task : task'[u].pc = "idle"
  BY IdleHandler DEF Crash
<1>2. pending' = {} /\ accepted' = {} /\ granted' = {}
  BY <1>1 DEF pending, accepted, granted, AnswersAt, InsertsAt, HandlersAt, Accepting
<1>3. stored' = stored
  BY DEF Crash, stored, EntryOf
<1> QED
  BY <1>2, <1>3 DEF Crash, Book!Lose

\* A row whose date is past has expired: what the clean-up removes is dead.
LEMMA StartupSimulates ==
    ASSUME RefinementInv, Startup PROVE Book!Sweep
<1>1. challenges' = {r \in challenges : ~Sweepable(r)} /\ UNCHANGED <<task, owner, issued>>
  BY DEF Startup
<1>2. stored' = {EntryOf(r) : r \in challenges'}
  BY DEF stored, EntryOf
<1>3. \A r \in challenges : Book!Live(EntryOf(r)) => ~Sweepable(r)
  <2> SUFFICES ASSUME NEW r \in challenges, r.left > 0, ~r.used PROVE ~r.pastDay
    BY DEF Book!Live, EntryOf, Sweepable
  <2> QED
    BY DEF RefinementInv, IInv, PastDayMeansExpired
<1>4. stored' \subseteq stored
  BY <1>1, <1>2 DEF stored
<1>5. \A e \in stored : Book!Live(e) => e \in stored'
  BY <1>1, <1>2, <1>3 DEF stored
<1>6. UNCHANGED <<pending, accepted, granted>>
  BY <1>1 DEF pending, accepted, granted, AnswersAt, InsertsAt, HandlersAt, AnswerOf, InsertOf
<1> QED
  BY <1>1, <1>4, <1>5, <1>6 DEF Book!Sweep

\* The row a handler is about to insert ages like a stored one.
LEMMA InsertAges ==
    ASSUME NEW h \in Handler, h.cid \in ChallengeId, h.account \in Account
    PROVE  InsertOf([h EXCEPT !.left = Earlier(h.left)]) = Book!Aged(InsertOf(h))
<1> DEFINE q == [cid |-> h.cid, account |-> h.account, left |-> h.left,
                 pastDay |-> FALSE, used |-> FALSE]
           g == [h EXCEPT !.left = Earlier(h.left)]
<1>1. q \in Row /\ EntryOf(q) = InsertOf(h)
  BY DEF Handler, Row, EntryOf, InsertOf
<1>2. Book!Aged(EntryOf(q)) = [cid |-> q.cid, account |-> q.account, left |-> Earlier(q.left), used |-> q.used]
  BY <1>1, EntryChanges
<1>3. g.cid = h.cid /\ g.account = h.account /\ g.left = Earlier(h.left)
  BY DEF Handler
<1> HIDE DEF g
<1>4. InsertOf(g) = [cid |-> h.cid, account |-> h.account, left |-> Earlier(h.left), used |-> FALSE]
  BY <1>3 DEF InsertOf
<1> QED
  BY <1>1, <1>2, <1>4 DEF g

LEMMA TickSimulates ==
    ASSUME RefinementInv, Tick PROVE Book!Tick
<1> DEFINE Older(r) == [r EXCEPT !.left = Earlier(r.left),
                                 !.pastDay = r.pastDay \/ (tod' = 0 /\ r.left = 0)]
<1>1. /\ challenges' = {Older(r) : r \in challenges}
      /\ task' = [u \in Task |-> [task[u] EXCEPT !.left = Earlier(task[u].left)]]
      /\ owner' = owner /\ issued' = issued
  BY DEF Tick
<1>2. stored' = {Book!Aged(e) : e \in stored}
  <2>1. \A r \in challenges : EntryOf(Older(r)) = Book!Aged(EntryOf(r))
    <3> SUFFICES ASSUME NEW r \in challenges PROVE EntryOf(Older(r)) = Book!Aged(EntryOf(r))
      OBVIOUS
    <3> DEFINE q == Older(r)
    <3>1. r \in Row
      BY DEF RefinementInv, IInv, TypeOK
    <3>2. q.cid = r.cid /\ q.account = r.account /\ q.left = Earlier(r.left) /\ q.used = r.used
      BY <3>1 DEF Row
    <3> HIDE DEF q
    <3>3. EntryOf(q) = [cid |-> r.cid, account |-> r.account, left |-> Earlier(r.left), used |-> r.used]
      BY <3>2 DEF EntryOf
    <3>4. EntryOf(q) = Book!Aged(EntryOf(r))
      BY <3>1, <3>3, EntryChanges
    <3> QED
      BY <3>4 DEF q
  <2>2. stored' = {EntryOf(q) : q \in challenges'}
    BY DEF stored, EntryOf
  <2> HIDE DEF Older
  <2> QED
    BY <1>1, <2>1, <2>2 DEF stored
<1>3. \A u \in Task : task'[u].pc = task[u].pc /\ AnswerOf(task'[u]) = AnswerOf(task[u])
  <2> SUFFICES ASSUME NEW u \in Task
               PROVE  /\ task'[u].pc = task[u].pc /\ task'[u].cid = task[u].cid
                      /\ task'[u].account = task[u].account
                      /\ task'[u].by = task[u].by /\ task'[u].over = task[u].over
    BY DEF AnswerOf
  <2>1. task[u] \in Handler
    BY DEF RefinementInv, IInv, TypeOK
  <2> QED
    BY <1>1, <2>1 DEF Handler
<1>4. accepted' = accepted /\ granted' = granted
  <2>1. \A labels : AnswersAt(task', labels) = AnswersAt(task, labels)
    BY <1>3, AllKeepAnswers
  <2> QED
    BY <2>1 DEF accepted, granted, AnswersAt, HandlersAt, AnswerOf
<1>5. pending' = {Book!Aged(e) : e \in pending}
  <2>1. \A u \in Task : task[u].pc = "q_insert" => InsertOf(task'[u]) = Book!Aged(InsertOf(task[u]))
    <3> SUFFICES ASSUME NEW u \in Task, task[u].pc = "q_insert"
                 PROVE  InsertOf(task'[u]) = Book!Aged(InsertOf(task[u]))
      OBVIOUS
    <3>1. task[u] \in Handler /\ task[u].cid \in ChallengeId /\ task[u].account \in Account
      BY DEF RefinementInv, IInv, TypeOK, ArgumentsOK
    <3>2. task'[u] = [task[u] EXCEPT !.left = Earlier(task[u].left)]
      BY <1>1
    <3> QED
      BY <3>1, <3>2, InsertAges
  <2>2. pending' = {InsertOf(task'[u]) : u \in {v \in Task : task'[v].pc = "q_insert"}}
    BY DEF pending, InsertsAt, HandlersAt, InsertOf
  <2>3. pending = {InsertOf(task[u]) : u \in {v \in Task : task[v].pc = "q_insert"}}
    BY DEF pending, InsertsAt, HandlersAt
  <2>4. \A u \in Task : task'[u].pc = task[u].pc
    BY <1>3
  <2> QED
    BY <2>1, <2>2, <2>3, <2>4
<1> QED
  BY <1>1, <1>2, <1>4, <1>5 DEF Book!Tick

-----------------------------------------------------------------------------
(* The refinement                                                          *)

LEMMA InitSimulates == Init => Book!Init
<1> SUFFICES ASSUME Init PROVE Book!Init
  OBVIOUS
<1>1. \A t \in Task : task[t].pc = "idle"
  BY IdleHandler DEF Init
<1>2. pending = {} /\ accepted = {} /\ granted = {}
  BY <1>1 DEF pending, accepted, granted, AnswersAt, InsertsAt, HandlersAt, Accepting
<1>3. stored = {}
  BY DEF Init, stored
<1> QED
  BY <1>2, <1>3 DEF Init, Book!Init

LEMMA NextSimulates == RefinementInv /\ [Next]_vars => [Book!Next]_(Book!vars)
<1> SUFFICES ASSUME RefinementInv, [Next]_vars PROVE [Book!Next]_(Book!vars)
  OBVIOUS
<1>1. CASE UNCHANGED vars
  <2>1. UNCHANGED <<owner, issued, stored, pending, accepted, granted>>
    BY <1>1 DEF vars, stored, pending, accepted, granted, AnswersAt, InsertsAt, HandlersAt,
       AnswerOf, InsertOf, EntryOf
  <2> QED
    BY <2>1 DEF Book!vars
<1>2. ASSUME NEW t \in Task, ChallengeStep(t) PROVE [Book!Next]_(Book!vars)
  BY <1>2, ChallengeSimulates
<1>3. ASSUME NEW t \in Task, AuthStep(t) PROVE [Book!Next]_(Book!vars)
  BY <1>3, AuthSimulates
<1>4. CASE Environment
  <2>1. ASSUME NEW t \in Task, Abort(t) PROVE Book!Lose
    BY <2>1, FinishLoses DEF Abort, RefinementInv, IInv, TypeOK
  <2> QED
    BY <1>4, <2>1, OtherCommitSimulates, CrashSimulates, StartupSimulates, TickSimulates
       DEF Environment, Book!Next
<1> QED
  BY <1>1, <1>2, <1>3, <1>4 DEF Next

\* authenticate, its snapshots and its write lock implement the book: each
\* challenge is spent by one atomic step, for an answer of its owner that was
\* accepted while the challenge was live, and gives one session.
THEOREM RefinesChallengeBook == Spec => ImplementsChallengeBook
<1>1. Init => RefinementInv
  BY InitRefinementInv
<1>2. RefinementInv /\ [Next]_vars => RefinementInv'
  BY StepRefinementInv
<1>3. Init => Book!Init
  BY InitSimulates
<1>4. RefinementInv /\ [Next]_vars => [Book!Next]_(Book!vars)
  BY NextSimulates
<1> QED
  BY <1>1, <1>2, <1>3, <1>4, PTL DEF Spec, ImplementsChallengeBook, Book!Spec

-----------------------------------------------------------------------------
(* What the book implies                                                   *)

LEMMA AgedEntry ==
    ASSUME NEW r \in Book!Challenge
    PROVE  /\ Book!Aged(r) \in Book!Challenge /\ Book!Aged(r).cid = r.cid
           /\ Book!Aged(r).account = r.account /\ Book!Aged(r).used = r.used
BY ParamsAssumption DEF Book!Aged, Book!Challenge

LEMMA SpentEntry ==
    ASSUME NEW r \in Book!Challenge
    PROVE  /\ Book!Spent(r) \in Book!Challenge /\ Book!Spent(r).cid = r.cid
           /\ Book!Spent(r).account = r.account /\ Book!Spent(r).used
BY DEF Book!Spent, Book!Challenge

LEMMA InitBookInv == Book!Init => BookInv
BY DEF Book!Init, BookInv, BookEntries, BookGrants, BookSessions, Entries, OneSessionPerChallenge

LEMMA MintKeeps == ASSUME BookInv, Book!Mint PROVE BookInv'
<1>1. PICK c \in ChallengeId, a \in Account :
         /\ owner[c] = None
         /\ owner' = [owner EXCEPT ![c] = a]
         /\ pending' = pending \cup {[cid |-> c, account |-> a, left |-> ChallengeTTL, used |-> FALSE]}
  BY DEF Book!Mint
<1> DEFINE new == [cid |-> c, account |-> a, left |-> ChallengeTTL, used |-> FALSE]
<1>2. /\ new \in Book!Challenge /\ new.cid = c /\ new.account = a /\ ~new.used
  BY ParamsAssumption DEF Book!Challenge
<1> HIDE DEF new
<1>3. /\ UNCHANGED <<stored, accepted, granted, issued>> /\ pending' = pending \cup {new}
      /\ Entries' = Entries \cup {new}
  BY <1>1 DEF Book!Mint, Entries, new
<1>4. /\ \A r \in Entries : r.cid \in ChallengeId /\ r.account \in Account
      /\ \A r \in Entries : r.cid # c
  BY <1>1, ParamsAssumption DEF BookInv, BookEntries, Book!Challenge
<1>5. /\ owner' \in [ChallengeId -> Account \cup {None}] /\ owner'[c] = a /\ a # None
      /\ \A d \in ChallengeId \ {c} : owner'[d] = owner[d]
  BY <1>1, ParamsAssumption DEF BookInv, BookEntries
<1>6. BookEntries'
  BY <1>2, <1>3, <1>4, <1>5 DEF BookInv, BookEntries, Entries
<1>7. BookGrants'
  BY <1>1, <1>2, <1>3, <1>4, <1>5 DEF BookInv, BookGrants
<1>8. BookSessions'
  BY <1>1, <1>2, <1>3, <1>4, <1>5 DEF BookInv, BookSessions, OneSessionPerChallenge
<1> QED
  BY <1>6, <1>7, <1>8 DEF BookInv

LEMMA StoreKeeps == ASSUME BookInv, Book!Store PROVE BookInv'
<1>1. PICK r \in pending : stored' = stored \cup {r} /\ pending' = pending \ {r}
  BY DEF Book!Store
<1>2. Entries' = Entries /\ UNCHANGED <<owner, granted, issued>>
  BY <1>1 DEF Book!Store, Entries
<1>3. BookEntries'
  BY <1>1, <1>2 DEF BookInv, BookEntries
<1>4. BookGrants' /\ BookSessions'
  BY <1>2 DEF BookInv, BookGrants, BookSessions, OneSessionPerChallenge
<1> QED
  BY <1>3, <1>4 DEF BookInv

\* Entries and grants that go, or stay as they are, break nothing.
LEMMA FewerKeep ==
    ASSUME BookInv, pending' \subseteq pending, stored' \subseteq stored, granted' \subseteq granted,
           UNCHANGED <<owner, issued>>
    PROVE  BookInv'
<1>1. Entries' \subseteq Entries
  BY DEF Entries
<1>2. BookEntries'
  BY <1>1 DEF BookInv, BookEntries
<1>3. BookGrants' /\ BookSessions'
  BY <1>1 DEF BookInv, BookGrants, BookSessions, OneSessionPerChallenge
<1> QED
  BY <1>2, <1>3 DEF BookInv

LEMMA SpendKeeps == ASSUME BookInv, Book!Spend PROVE BookInv'
<1>1. PICK a \in accepted, r \in stored :
         /\ a = Book!RightAnswer(r) /\ ~r.used
         /\ stored' = (stored \ {r}) \cup {Book!Spent(r)}
         /\ granted' = granted \cup {a}
  BY DEF Book!Spend
<1> DEFINE s == Book!Spent(r)
<1>2. r \in Entries /\ r \in Book!Challenge /\ a.cid = r.cid /\ r.cid \in ChallengeId /\ r.account \in Account
  BY <1>1 DEF BookInv, BookEntries, Entries, Book!RightAnswer, Book!Challenge
<1>3. s \in Book!Challenge /\ s.cid = r.cid /\ s.account = r.account /\ s.used
  BY <1>2, SpentEntry
<1> HIDE DEF s
<1>4. /\ UNCHANGED <<owner, pending, issued>>
      /\ stored' = (stored \ {r}) \cup {s}
      /\ Entries' = (Entries \ {r}) \cup {s}
  <2>1. r \notin pending
    BY <1>1 DEF BookInv, BookEntries
  <2> QED
    BY <1>1, <2>1 DEF Book!Spend, Entries, s
<1>5. \A q \in Entries \ {r} : q.cid # r.cid
  BY <1>2 DEF BookInv, BookEntries
<1>6. s \notin pending
  BY <1>3 DEF BookInv, BookEntries
<1>7. BookEntries'
  BY <1>2, <1>3, <1>4, <1>5, <1>6 DEF BookInv, BookEntries
<1>8. owner[r.cid] # None /\ issued[r.cid] = 0
  BY <1>1, <1>2, ParamsAssumption DEF BookInv, BookEntries, BookSessions
<1>9. \A b \in granted : b.cid # r.cid
  BY <1>1, <1>2 DEF BookInv, BookGrants
<1>10. BookGrants'
  BY <1>1, <1>2, <1>3, <1>4, <1>5, <1>8, <1>9 DEF BookInv, BookGrants
<1>11. BookSessions'
  BY <1>3, <1>4, <1>8 DEF BookInv, BookSessions, OneSessionPerChallenge
<1> QED
  BY <1>7, <1>10, <1>11 DEF BookInv

LEMMA GrantKeeps == ASSUME BookInv, Book!Grant PROVE BookInv'
<1>1. PICK a \in granted : granted' = granted \ {a} /\ issued' = [issued EXCEPT ![a.cid] = @ + 1]
  BY DEF Book!Grant
<1>2. UNCHANGED <<owner, pending, stored>> /\ Entries' = Entries
  BY DEF Book!Grant, Entries
<1>3. a.cid \in ChallengeId /\ issued[a.cid] = 0 /\ owner[a.cid] # None
  BY DEF BookInv, BookGrants
<1>4. /\ issued' \in [ChallengeId -> Nat] /\ issued'[a.cid] = 1
      /\ \A c \in ChallengeId \ {a.cid} : issued'[c] = issued[c]
  BY <1>1, <1>3 DEF BookInv, BookSessions
<1>5. BookEntries'
  BY <1>2 DEF BookInv, BookEntries
<1>6. BookGrants'
  BY <1>1, <1>2, <1>4 DEF BookInv, BookGrants
<1>7. BookSessions'
  BY <1>2, <1>3, <1>4 DEF BookInv, BookGrants, BookSessions, OneSessionPerChallenge
<1> QED
  BY <1>5, <1>6, <1>7 DEF BookInv

LEMMA BookTickKeeps == ASSUME BookInv, Book!Tick PROVE BookInv'
<1>1. /\ stored' = {Book!Aged(r) : r \in stored} /\ pending' = {Book!Aged(r) : r \in pending}
      /\ UNCHANGED <<owner, granted, issued>>
  BY DEF Book!Tick
<1>2. \A r \in Entries : /\ Book!Aged(r) \in Book!Challenge /\ Book!Aged(r).cid = r.cid
                         /\ Book!Aged(r).account = r.account /\ Book!Aged(r).used = r.used
  BY AgedEntry DEF BookInv, BookEntries
<1>3. /\ \A q \in pending' : \E r \in pending : q = Book!Aged(r)
      /\ \A q \in stored' : \E r \in stored : q = Book!Aged(r)
      /\ \A q \in Entries' : \E r \in Entries : q = Book!Aged(r)
  BY <1>1 DEF Entries
<1>4. \A r, q \in Entries : Book!Aged(r).cid = Book!Aged(q).cid => r = q
  BY <1>2 DEF BookInv, BookEntries
<1>5. \A q \in pending' : ~q.used /\ q \notin stored'
  BY <1>2, <1>3, <1>4 DEF BookInv, BookEntries, Entries
<1>6. \A q \in Entries' : q \in Book!Challenge /\ owner[q.cid] = q.account
  BY <1>2, <1>3 DEF BookInv, BookEntries
<1>7. \A p, q \in Entries' : p.cid = q.cid => p = q
  BY <1>3, <1>4
<1>8. BookEntries'
  BY <1>1, <1>5, <1>6, <1>7 DEF BookInv, BookEntries
<1>9. BookGrants' /\ BookSessions'
  BY <1>1, <1>2, <1>3 DEF BookInv, BookGrants, BookSessions, OneSessionPerChallenge
<1> QED
  BY <1>8, <1>9 DEF BookInv

LEMMA StepBookInv == BookInv /\ [Book!Next]_(Book!vars) => BookInv'
<1> SUFFICES ASSUME BookInv, [Book!Next]_(Book!vars) PROVE BookInv'
  OBVIOUS
<1>1. CASE Book!Accept \/ Book!Lose \/ Book!Sweep \/ UNCHANGED Book!vars
  <2>1. /\ pending' \subseteq pending /\ stored' \subseteq stored /\ granted' \subseteq granted
        /\ UNCHANGED <<owner, issued>>
    BY <1>1 DEF Book!Accept, Book!Lose, Book!Sweep, Book!vars
  <2> QED
    BY <2>1, FewerKeep
<1> QED
  BY <1>1, MintKeeps, StoreKeeps, SpendKeeps, GrantKeeps, BookTickKeeps DEF Book!Next

\* Whatever implements the book gives a challenge at most one session, and
\* that only when no stored copy of the challenge can be answered again: the
\* two promises of the README are in the book, not in the statements.
THEOREM BookKeepsPromises == ImplementsChallengeBook => [](OneSessionPerChallenge /\ SessionMeansUsed)
<1>1. ASSUME BookInv, NEW r \in challenges, issued[r.cid] > 0 PROVE r.used
  <2>1. EntryOf(r) \in Entries /\ EntryOf(r).cid = r.cid /\ EntryOf(r).used = r.used
    BY DEF EntryOf, Entries, stored
  <2>2. r.cid \in ChallengeId
    BY <1>1, <2>1 DEF BookInv, BookEntries, Book!Challenge
  <2> QED
    BY <1>1, <2>1, <2>2 DEF BookInv, BookSessions
<1>2. BookInv => OneSessionPerChallenge /\ SessionMeansUsed
  BY <1>1 DEF BookInv, BookSessions, SessionMeansUsed
<1> QED
  BY <1>2, InitBookInv, StepBookInv, PTL DEF ImplementsChallengeBook, Book!Spec

=============================================================================
