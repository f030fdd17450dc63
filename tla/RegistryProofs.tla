--------------------------- MODULE RegistryProofs ---------------------------
(***************************************************************************)
(* Proofs about Registry for any keys, any spellings, any bounds on the    *)
(* length of a name and any number of handlers.  Nothing here looks inside *)
(* a name: what matters is that SameName compares one value of each.       *)
(***************************************************************************)
EXTENDS Registry, TLAPS

-----------------------------------------------------------------------------
(* The inductive invariant                                                 *)

\* Some account explains a refusal of the key k under the name v.
Reason(k, v) == \E r \in accounts : SameName(r.name, v) \/ r.id = IdOf(k)

\* A name, an id and a key each lead to one account.
RowsDistinct ==
    \A r, q \in accounts : SameName(r.name, q.name) \/ r.id = q.id \/ r.key = q.key => r = q

\* Ids are derived from keys, in the table and in the rows on their way to it.
IdsDerived ==
    /\ \A r \in accounts : r.id = IdOf(r.key)
    /\ \A t \in Task : task[t] # Idle => task[t].row.id = IdOf(task[t].row.key)

\* What a handler is about to answer is so.
AnswersHold ==
    \A t \in Task :
        /\ At(t, "ok") => task[t].row \in accounts
        /\ At(t, "taken") => Reason(task[t].row.key, task[t].row.name)

\* What a client was told still is so.
ToldHolds ==
    \A a \in told :
        /\ a.result = "ok" => \E r \in accounts : r.key = a.key /\ r.name = a.name
        /\ a.result = "taken" => Reason(a.key, a.name)

IInv == TypeOK /\ RowsDistinct /\ IdsDerived /\ AnswersHold /\ ToldHolds

-----------------------------------------------------------------------------
\* A handler that is not idle holds a row of the table's type.
LEMMA BusyTask ==
    ASSUME TypeOK, NEW t \in Task, task[t].pc \in {"insert", "ok", "taken"}
    PROVE  task[t] # Idle /\ task[t].row \in Row
  BY DEF TypeOK, Idle

\* The unique constraints refuse a row only for a reason its client can find.
LEMMA RefusalHasReason ==
    ASSUME TypeOK, IdsDerived, NEW row \in Row, row.id = IdOf(row.key), IsUniqueViolation(row)
    PROVE  Reason(row.key, row.name)
  <1>1. PICK q \in accounts : q.id = row.id \/ SameName(q.name, row.name) \/ q.key = row.key
    BY DEF IsUniqueViolation, Admits
  <1>2. q.id = IdOf(q.key)
    BY DEF IdsDerived
  <1> QED
    BY <1>1, <1>2 DEF Reason

-----------------------------------------------------------------------------
\* The invariant holds before the first registration.
LEMMA InitIInv == Init => IInv
  BY DEF Init, IInv, TypeOK, RowsDistinct, IdsDerived, AnswersHold, ToldHolds, At, Idle

\* A checked input gives a row of the right type, with its derived id.
LEMMA RegisterIInv ==
    ASSUME IInv, NEW t \in Task, NEW s \in Spelling, NEW k, NEW id, Register(t, s, k, id)
    PROVE  IInv'
  <1> DEFINE row == [id |-> id, name |-> Normal(s), key |-> k]
  <1>1. row \in Row /\ row.id = IdOf(row.key)
    BY DEF Register, KeyMatches, Name, Row
  <1>2. /\ task' = [task EXCEPT ![t] = [pc |-> "insert", row |-> row]]
        /\ accounts' = accounts /\ told' = told
    BY DEF Register
  <1> HIDE DEF row
  <1>3. task'[t] = [pc |-> "insert", row |-> row] /\ \A u \in Task : u # t => task'[u] = task[u]
    BY <1>2 DEF IInv, TypeOK
  <1>4. TypeOK'
    BY <1>1, <1>2, <1>3 DEF IInv, TypeOK
  <1>5. RowsDistinct'
    BY <1>2 DEF IInv, RowsDistinct
  <1>6. IdsDerived'
    BY <1>1, <1>2, <1>3 DEF IInv, IdsDerived
  <1>7. AnswersHold'
    BY <1>2, <1>3 DEF IInv, AnswersHold, At, Reason
  <1>8. ToldHolds'
    BY <1>2 DEF IInv, ToldHolds, Reason
  <1> QED
    BY <1>4, <1>5, <1>6, <1>7, <1>8 DEF IInv

\* The INSERT stores a row that no constraint refuses: its three columns are
\* new, so that no lookup of the old table changes its answer.
LEMMA InsertIInv ==
    ASSUME IInv, NEW t \in Task, Insert(t)
    PROVE  IInv'
  <1> DEFINE row == task[t].row
  <1>1. /\ task' = [task EXCEPT ![t].pc = "ok"]
        /\ accounts' = accounts \cup {row} /\ told' = told
        /\ task[t].pc = "insert" /\ Admits(row)
    BY DEF Insert, StoreRow, Goto, At
  <1>2. task[t] # Idle /\ row \in Row /\ row.id = IdOf(row.key)
    BY <1>1, BusyTask DEF IInv, IdsDerived
  <1>3. /\ task'[t].pc = "ok" /\ task'[t].row = row /\ task'[t] # Idle
        /\ task'[t] \in [pc : {"insert", "ok", "taken"}, row : Row]
        /\ \A u \in Task : u # t => task'[u] = task[u]
    BY <1>1, <1>2 DEF IInv, TypeOK, Idle
  <1>4. \A q \in accounts : q.id # row.id /\ ~SameName(q.name, row.name) /\ q.key # row.key
    BY <1>1 DEF Admits
  <1>5. \A q \in accounts : ~SameName(row.name, q.name)
    BY <1>4 DEF SameName
  <1> HIDE DEF row
  <1>6. TypeOK'
    BY <1>1, <1>2, <1>3 DEF IInv, TypeOK
  <1>7. RowsDistinct'
    BY <1>1, <1>4, <1>5 DEF IInv, RowsDistinct
  <1>8. IdsDerived'
    BY <1>1, <1>2, <1>3 DEF IInv, IdsDerived
  <1>9. AnswersHold'
    BY <1>1, <1>3 DEF IInv, AnswersHold, At, Reason
  <1>10. ToldHolds'
    BY <1>1 DEF IInv, ToldHolds, Reason
  <1> QED
    BY <1>6, <1>7, <1>8, <1>9, <1>10 DEF IInv

\* A violated constraint is answered, and the answer has its reason.
LEMMA RefuseIInv ==
    ASSUME IInv, NEW t \in Task, Refuse(t)
    PROVE  IInv'
  <1> DEFINE row == task[t].row
  <1>1. /\ task' = [task EXCEPT ![t].pc = "taken"]
        /\ accounts' = accounts /\ told' = told
        /\ task[t].pc = "insert" /\ IsUniqueViolation(row)
    BY DEF Refuse, Goto, At
  <1>2. task[t] # Idle /\ row \in Row /\ row.id = IdOf(row.key)
    BY <1>1, BusyTask DEF IInv, IdsDerived
  <1>3. /\ task'[t].pc = "taken" /\ task'[t].row = row /\ task'[t] # Idle
        /\ task'[t] \in [pc : {"insert", "ok", "taken"}, row : Row]
        /\ \A u \in Task : u # t => task'[u] = task[u]
    BY <1>1, <1>2 DEF IInv, TypeOK, Idle
  <1>4. Reason(row.key, row.name)
    BY <1>1, <1>2, RefusalHasReason DEF IInv
  <1> HIDE DEF row
  <1>5. TypeOK'
    BY <1>1, <1>3 DEF IInv, TypeOK
  <1>6. RowsDistinct'
    BY <1>1 DEF IInv, RowsDistinct
  <1>7. IdsDerived'
    BY <1>1, <1>2, <1>3 DEF IInv, IdsDerived
  <1>8. AnswersHold'
    BY <1>1, <1>3, <1>4 DEF IInv, AnswersHold, At, Reason
  <1>9. ToldHolds'
    BY <1>1 DEF IInv, ToldHolds, Reason
  <1> QED
    BY <1>5, <1>6, <1>7, <1>8, <1>9 DEF IInv

\* A handler that ends, and a process that does, leave nothing to answer.
LEMMA EndIInv ==
    ASSUME IInv, NEW t \in Task, Finish(t), accounts' = accounts
    PROVE  /\ RowsDistinct' /\ IdsDerived' /\ AnswersHold'
           /\ task' \in [Task -> {Idle} \cup [pc : {"insert", "ok", "taken"}, row : Row]]
  <1>1. task'[t] = Idle /\ \A u \in Task : u # t => task'[u] = task[u]
    BY DEF IInv, TypeOK, Finish
  <1>2. task' \in [Task -> {Idle} \cup [pc : {"insert", "ok", "taken"}, row : Row]]
    BY DEF IInv, TypeOK, Finish
  <1>3. RowsDistinct'
    BY DEF IInv, RowsDistinct
  <1>4. IdsDerived'
    BY <1>1 DEF IInv, IdsDerived
  <1>5. AnswersHold'
    BY <1>1 DEF IInv, AnswersHold, At, Reason, Idle
  <1> QED
    BY <1>2, <1>3, <1>4, <1>5

\* An answer that reaches its client is one that holds.
LEMMA ReplyIInv ==
    ASSUME IInv, NEW t \in Task, Reply(t)
    PROVE  IInv'
  <1> DEFINE a == Answer(t)
  <1>1. /\ Finish(t) /\ accounts' = accounts /\ told' = told \cup {a}
        /\ task[t].pc \in {"ok", "taken"}
    BY DEF Reply
  <1>2. /\ RowsDistinct' /\ IdsDerived' /\ AnswersHold'
        /\ task' \in [Task -> {Idle} \cup [pc : {"insert", "ok", "taken"}, row : Row]]
    BY <1>1, EndIInv
  <1>3. task[t].row \in Row
    BY <1>1, BusyTask DEF IInv
  <1>4. a \in [key : Key, name : Name, result : {"ok", "taken"}]
    BY <1>1, <1>3 DEF Answer, Row
  <1>5. TypeOK'
    BY <1>1, <1>2, <1>4 DEF IInv, TypeOK
  <1>6. a.result = "ok" => \E r \in accounts : r.key = a.key /\ r.name = a.name
    BY DEF IInv, AnswersHold, Answer, At
  <1>7. a.result = "taken" => Reason(a.key, a.name)
    BY DEF IInv, AnswersHold, Answer, At
  <1> HIDE DEF a
  <1>8. ToldHolds'
    BY <1>1, <1>6, <1>7 DEF IInv, ToldHolds, Reason
  <1> QED
    BY <1>2, <1>5, <1>8 DEF IInv

\* A lost answer changes what is known, never what is stored.
LEMMA AbortIInv ==
    ASSUME IInv, NEW t \in Task, Abort(t)
    PROVE  IInv'
  <1>1. Finish(t) /\ accounts' = accounts /\ told' = told
    BY DEF Abort
  <1>2. /\ RowsDistinct' /\ IdsDerived' /\ AnswersHold'
        /\ task' \in [Task -> {Idle} \cup [pc : {"insert", "ok", "taken"}, row : Row]]
    BY <1>1, EndIInv
  <1>3. TypeOK'
    BY <1>1, <1>2 DEF IInv, TypeOK
  <1>4. ToldHolds'
    BY <1>1 DEF IInv, ToldHolds, Reason
  <1> QED
    BY <1>2, <1>3, <1>4 DEF IInv

\* A crash keeps what SQLite committed and forgets the handlers.
LEMMA CrashIInv ==
    ASSUME IInv, Crash
    PROVE  IInv'
  <1>1. /\ task' = [t \in Task |-> Idle] /\ accounts' = accounts /\ told' = told
    BY DEF Crash
  <1>2. \A t \in Task : task'[t] = Idle
    BY <1>1
  <1>3. TypeOK'
    BY <1>1 DEF IInv, TypeOK
  <1>4. RowsDistinct' /\ IdsDerived'
    BY <1>1, <1>2 DEF IInv, RowsDistinct, IdsDerived
  <1>5. AnswersHold'
    BY <1>2 DEF AnswersHold, At, Idle
  <1>6. ToldHolds'
    BY <1>1 DEF IInv, ToldHolds, Reason
  <1> QED
    BY <1>3, <1>4, <1>5, <1>6 DEF IInv

\* No step of any handler, and no crash, breaks the invariant.
LEMMA NextIInv == IInv /\ [Next]_vars => IInv'
  <1> SUFFICES ASSUME IInv, [Next]_vars
               PROVE  IInv'
    OBVIOUS
  <1>1. CASE \E t \in Task : \E s \in Spelling, k, j \in Key \cup {Short} : Register(t, s, k, IdOf(j))
    BY <1>1, RegisterIInv
  <1>2. CASE \E t \in Task : Insert(t) \/ Refuse(t)
    BY <1>2, InsertIInv, RefuseIInv
  <1>3. CASE \E t \in Task : Reply(t) \/ Abort(t)
    BY <1>3, ReplyIInv, AbortIInv
  <1>4. CASE Crash
    BY <1>4, CrashIInv
  <1>5. CASE UNCHANGED vars
    BY <1>5 DEF vars, IInv, TypeOK, RowsDistinct, IdsDerived, AnswersHold, ToldHolds, At, Reason
  <1> QED
    BY <1>1, <1>2, <1>3, <1>4, <1>5 DEF Next

-----------------------------------------------------------------------------
\* The strengthened invariant of the registry.
THEOREM Invariant == Spec => []IInv
  <1> QED
    BY InitIInv, NextIInv, PTL DEF Spec

\* Rows, handlers and answers keep their shape: keys of 32 bytes and
\* normalised, valid names.
THEOREM TypeCorrect == Spec => []TypeOK
  <1>1. IInv => TypeOK
    BY DEF IInv
  <1> QED
    BY <1>1, Invariant, PTL

\* However spellings differ in case or in blanks around them, and whatever
\* registrations ran concurrently, a spelling finds one account at most.
THEOREM OneAccountPerSpelling == Spec => []SpellingsFindOne
  <1>1. IInv => SpellingsFindOne
    BY DEF IInv, RowsDistinct, SpellingsFindOne, Found, SameName
  <1> QED
    BY <1>1, Invariant, PTL

\* An account id belongs to the key it is derived from, a key to one account.
THEOREM IdsAndKeysAgree == Spec => []IdsNameKeys
  <1>1. IInv => IdsNameKeys
    BY DEF IInv, RowsDistinct, IdsDerived, IdsNameKeys
  <1> QED
    BY <1>1, Invariant, PTL

\* An acknowledged registration is found for ever, in every spelling.
THEOREM AcknowledgementsHold == Spec => []AcknowledgedIsFound
  <1>1. ASSUME IInv, NEW a \in told, a.result = "ok", NEW s \in Spelling, Normal(s) = a.name
        PROVE  {r.key : r \in Found(s)} = {a.key}
    <2>1. PICK r \in accounts : r.key = a.key /\ r.name = a.name
      BY <1>1 DEF IInv, ToldHolds
    <2>2. r \in Found(s)
      BY <1>1, <2>1 DEF Found, SameName
    <2>3. \A q \in Found(s) : q = r
      BY <1>1, <2>1 DEF Found, SameName, IInv, RowsDistinct
    <2> QED
      BY <2>1, <2>2, <2>3
  <1>2. IInv => AcknowledgedIsFound
    BY <1>1 DEF AcknowledgedIsFound
  <1> QED
    BY <1>2, Invariant, PTL

\* A refused client can find the reason for ever.
THEOREM RefusalsHaveReasons == Spec => []RefusedForAReason
  <1>1. IInv => RefusedForAReason
    BY DEF IInv, ToldHolds, Reason, RefusedForAReason
  <1> QED
    BY <1>1, Invariant, PTL

\* No registration changes what a lookup of a name in use finds.
THEOREM NamesStayWithAccounts == Spec => NamesAreKept
  <1>1. ASSUME [Next]_vars, accounts' # accounts
        PROVE  \E row : Admits(row) /\ accounts' = accounts \cup {row}
    BY <1>1 DEF Next, vars, Register, Insert, StoreRow, Refuse, Reply, Abort, Crash
  <1>2. ASSUME NEW row, Admits(row), accounts' = accounts \cup {row},
               NEW v \in Name, ~IsAvailable(v)
        PROVE  UNCHANGED Found(v)
    <2>1. PICK q \in accounts : SameName(q.name, Normal(v))
      BY <1>2 DEF IsAvailable, Found
    <2>2. ~SameName(row.name, Normal(v))
      BY <1>2, <2>1 DEF Admits, SameName
    <2> QED
      BY <1>2, <2>2 DEF Found
  <1>3. [Next]_vars => [\A v \in Name : ~IsAvailable(v) => UNCHANGED Found(v)]_accounts
    BY <1>1, <1>2
  <1> QED
    BY <1>3, PTL DEF Spec, NamesAreKept

=============================================================================
