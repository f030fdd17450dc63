------------------------------ MODULE Registry ------------------------------
(***************************************************************************)
(* Account registration and identity lookup: registerAccount, account,     *)
(* accountByID and isIdentiTTYAvailable over the table accounts.           *)
(*                                                                         *)
(* A registration validates its input and runs one INSERT, which the       *)
(* unique constraints admit or refuse; any violation of any of them is     *)
(* answered IDENTITTY_TAKEN.  The reply of either can be lost, and clients *)
(* try again, with the same name or another, whenever they like.           *)
(*                                                                         *)
(* A name is a sequence of characters.  The alphabet below has one or two  *)
(* of each class that normalise_identitty tells apart.                     *)
(***************************************************************************)
EXTENDS Integers, Sequences

CONSTANTS
    Key,         \* Ed25519 public keys of 32 bytes
    Short,       \* a decoded key of another length
    Spelling,    \* names as clients write them
    MinLen,      \* shortest identiTTY: 3
    MaxLen,      \* longest: 32
    Task         \* registrations the server may be handling at the same time

ASSUME RegistryAssumption ==
    /\ Short \notin Key
    /\ MinLen \in Nat \ {0} /\ MaxLen \in Nat

VARIABLES
    accounts,    \* table accounts
    task,        \* the registrations in progress
    told         \* history: the answers that reached a client

vars == <<accounts, task, told>>

-----------------------------------------------------------------------------
(* normalise_identitty                                                     *)

Letter == {"a", "b"}
Digit  == {"1"}
Mark   == {"_", "-"}
Blank  == {" "}

\* to_ascii_lowercase
Lower(c) == CASE c = "A" -> "a" [] c = "B" -> "b" [] OTHER -> c

\* trim
Trim(s) ==
    LET inner == {i \in 1 .. Len(s) : s[i] \notin Blank}
    IN  IF inner = {} THEN <<>>
        ELSE SubSeq(s, CHOOSE i \in inner : \A j \in inner : i <= j,
                       CHOOSE i \in inner : \A j \in inner : j <= i)

Lowered(s) == [i \in 1 .. Len(s) |-> Lower(s[i])]

NotLowered(s) == Trim(s)
NotTrimmed(s) == Lowered(s)
Normal(s) == Lowered(Trim(s))

Admissible(v) ==
    /\ MinLen <= Len(v) /\ Len(v) <= MaxLen
    /\ v[1] \in Letter
    /\ \A i \in 1 .. Len(v) : v[i] \in Letter \cup Digit \cup Mark

Valid(s) == Admissible(Normal(s))

-----------------------------------------------------------------------------
(* Helpers                                                                 *)

\* account_id::from_public_key, a digest without collisions
IdOf(k) == <<"acct", k>>

Name == {Normal(s) : s \in {s \in Spelling : Valid(s)}}
Row  == [id : {IdOf(k) : k \in Key}, name : Name, key : Key]

None == "none"
Idle == [pc |-> "idle", row |-> None]

\* What register_account accepts: 32 bytes, and the id derived from them.
IdUnchecked(k, id) == k \in Key
LengthUnchecked(k, id) == id = IdOf(k)
KeyMatches(k, id) == k \in Key /\ id = IdOf(k)

\* COLLATE NOCASE
SameName(v, w) == Lowered(v) = Lowered(w)

\* PRIMARY KEY (account_id), UNIQUE (identitty), UNIQUE (public_key)
AdmitsByKey(row) == \A q \in accounts : q.id # row.id /\ q.key # row.key
Admits(row) == \A q \in accounts : q.id # row.id /\ ~SameName(q.name, row.name) /\ q.key # row.key

\* The rows that account(identiTTY: s) finds.
Found(s) == LET v == Normal(s) IN {r \in accounts : SameName(r.name, v)}

\* isIdentiTTYAvailable
IsAvailable(s) == Found(s) = {}

\* is_unique_violation
AnyError(row) == TRUE
IsUniqueViolation(row) == ~Admits(row)

At(t, label) == task[t].pc = label
Goto(t, label) == task' = [task EXCEPT ![t].pc = label]
Finish(t) == task' = [task EXCEPT ![t] = Idle]

\* The answer to a registration that ran its INSERT.
Answer(t) == [key |-> task[t].row.key, name |-> task[t].row.name, result |-> task[t].pc]

-----------------------------------------------------------------------------
Init ==
    /\ accounts = {}
    /\ task = [t \in Task |-> Idle]
    /\ told = {}

\* An input that fails a check is refused and changes nothing.
Register(t, s, k, id) ==
    /\ At(t, "idle")
    /\ Valid(s)
    /\ KeyMatches(k, id)
    /\ task' = [task EXCEPT ![t] = [pc |-> "insert", row |-> [id |-> id, name |-> Normal(s), key |-> k]]]
    /\ UNCHANGED <<accounts, told>>

AckWithoutRow(t) == UNCHANGED accounts
StoreRow(t) == accounts' = accounts \cup {task[t].row}

Insert(t) ==
    /\ At(t, "insert")
    /\ Admits(task[t].row)
    /\ StoreRow(t)
    /\ Goto(t, "ok")
    /\ UNCHANGED told

Refuse(t) ==
    /\ At(t, "insert")
    /\ IsUniqueViolation(task[t].row)
    /\ Goto(t, "taken")
    /\ UNCHANGED <<accounts, told>>

\* The answer reaches the client.
Reply(t) ==
    /\ task[t].pc \in {"ok", "taken"}
    /\ told' = told \cup {Answer(t)}
    /\ Finish(t)
    /\ UNCHANGED accounts

\* The statement fails, the client goes away or the answer is lost.
Abort(t) ==
    /\ ~At(t, "idle")
    /\ Finish(t)
    /\ UNCHANGED <<accounts, told>>

\* The process ends and is restarted; what SQLite committed stays.
Crash ==
    /\ task' = [t \in Task |-> Idle]
    /\ UNCHANGED <<accounts, told>>

Next ==
    \/ \E t \in Task :
          \/ \E s \in Spelling, k, j \in Key \cup {Short} : Register(t, s, k, IdOf(j))
          \/ Insert(t) \/ Refuse(t) \/ Reply(t) \/ Abort(t)
    \/ Crash

Spec == Init /\ [][Next]_vars

-----------------------------------------------------------------------------
(* Properties                                                              *)

TypeOK ==
    /\ accounts \subseteq Row
    /\ task \in [Task -> {Idle} \cup [pc : {"insert", "ok", "taken"}, row : Row]]
    /\ told \subseteq [key : Key, name : Name, result : {"ok", "taken"}]

\* Spellings that differ in case or in blanks around them are one name: no two
\* accounts can be reached by the same spelling.
SpellingsFindOne == \A s \in Spelling : \A r, q \in Found(s) : r = q

\* An account id always belongs to the key it is derived from, and a key to
\* one account, so that a lookup by id and a login agree on the key.
IdsNameKeys ==
    \A r, q \in accounts : r.id = IdOf(r.key) /\ (r.id = q.id \/ r.key = q.key => r = q)

\* A name that is not available any more stays with its account: whatever
\* registers later, a lookup goes on to find the same key.
NamesAreKept == [][\A v \in Name : ~IsAvailable(v) => UNCHANGED Found(v)]_accounts

\* A client that was told its registration succeeded finds its key under its
\* name from then on, in every spelling, whatever crashed since.
AcknowledgedIsFound ==
    \A a \in told : a.result = "ok" =>
        \A s \in Spelling : Normal(s) = a.name => {r.key : r \in Found(s)} = {a.key}

\* A client that was told IDENTITTY_TAKEN can find the reason for ever: somebody
\* has the name, or its own key has an account (perhaps by a registration of its
\* own whose answer was lost), and then the name itself may well be free.
RefusedForAReason ==
    \A a \in told : a.result = "taken" =>
        \E r \in accounts : SameName(r.name, a.name) \/ r.id = IdOf(a.key)

=============================================================================
