--------------------------- MODULE Authentication ---------------------------
(***************************************************************************)
(* Challenge-response login: requestChallenge, authenticate and the        *)
(* clean-up of authentication_challenges at startup.                       *)
(*                                                                         *)
(* authenticate runs in a deferred SQLite transaction in WAL mode.  Its    *)
(* SELECT takes a snapshot; its UPDATE asks for the single write lock and  *)
(* fails AT ONCE (no busy timeout inside a read transaction) when another  *)
(* connection holds the lock or has committed anything since the snapshot. *)
(* A row the UPDATE can write is therefore the row the SELECT saw, and     *)
(* rows_affected is 1.  The UPDATE is seen by others at the commit.  A     *)
(* dropped transaction rolls back.  "stale" notes that something was       *)
(* committed since the snapshot of a handler; no handler reads it.         *)
(*                                                                         *)
(* An expiry is kept as the time left until it (see LiveChat).  Rows also  *)
(* keep whether the DATE of their expiry is past, because the clean-up     *)
(* compares texts: RFC 3339 writes 'T' between date and time where         *)
(* CURRENT_TIMESTAMP writes a blank, and 'T' sorts after the blank, so of  *)
(* two instants of one day the RFC 3339 text is the greater.               *)
(***************************************************************************)
EXTENDS Integers, FiniteSets

CONSTANTS
    Account,       \* registered accounts, each the owner of one key pair
    Unknown,       \* an account id that nobody registered
    ChallengeId,   \* the pool of challenge ids; an id stands for its 32 bytes
    Task,          \* requests the server may be handling at the same time
    ChallengeTTL,  \* TITTY_CHALLENGE_TTL_SECONDS
    DayLength      \* time units in a day

None == "none"

ASSUME ParamsAssumption ==
    /\ ChallengeTTL \in Nat \ {0}
    /\ DayLength \in Nat \ {0}
    /\ Unknown \notin Account
    /\ None \notin Account \cup Task \cup {Unknown}

VARIABLES
    challenges,  \* table authentication_challenges, as committed
    writer,      \* the handler holding the write lock with an open UPDATE
    task,        \* the handlers in progress
    tod,         \* time of day
    up,          \* whether the process is running
    owner,       \* history: the account each challenge was minted for
    issued       \* history: sessions issued for each challenge

vars == <<challenges, writer, task, tod, up, owner, issued>>

Row == [cid     : ChallengeId,
        account : Account,
        left    : 0 .. ChallengeTTL,
        pastDay : BOOLEAN,
        used    : BOOLEAN]

ChallengePc == {"q_lookup", "q_mint", "q_insert"}
Reading     == {"a_check", "a_update"}       \* a snapshot is open
AuthPc      == {"a_read"} \cup Reading \cup {"a_commit", "a_issue"}
Pc          == {"idle"} \cup ChallengePc \cup AuthPc

\* A handler; the signature of the input was made with the key of "by" over
\* the challenge "over".
Handler == [pc      : Pc,
            account : Account \cup {Unknown, None},
            cid     : ChallengeId \cup {None},
            by      : Account \cup {None},
            over    : ChallengeId \cup {None},
            left    : 0 .. ChallengeTTL,
            stale   : BOOLEAN]

Idle == [pc |-> "idle", account |-> None, cid |-> None, by |-> None, over |-> None,
         left |-> 0, stale |-> FALSE]

-----------------------------------------------------------------------------
(* Helpers                                                                 *)

Earlier(n) == IF n = 0 THEN 0 ELSE n - 1

Begin(t, h) == up /\ task[t].pc = "idle" /\ task' = [task EXCEPT ![t] = h]
At(t, label) == task[t].pc = label
Goto(t, label) == task' = [task EXCEPT ![t].pc = label]
Finish(t) == task' = [task EXCEPT ![t] = Idle]

\* Something is committed: every other open snapshot is out of date.
Outdate(h) == IF h.pc \in Reading THEN [h EXCEPT !.stale = TRUE] ELSE h
CommitThenFinish(t) == task' = [u \in Task |-> IF u = t THEN Idle ELSE Outdate(task[u])]
CommitThenGoto(t, label) ==
    task' = [u \in Task |-> IF u = t THEN [task[u] EXCEPT !.pc = label] ELSE Outdate(task[u])]

\* SELECT EXISTS(SELECT 1 FROM accounts WHERE account_id = ?)
RegisteredUnchecked(a) == TRUE
Registered(a) == a \in Account

\* WHERE challenge_id = ? AND account_id = ? AND used_at IS NULL
FoundForAnyone(c, a) == {r \in challenges : r.cid = c /\ ~r.used}
Found(c, a) == {r \in challenges : r.cid = c /\ r.account = a /\ ~r.used}

\* challenge.expires_at > Utc::now()
TimelyUnchecked(h) == TRUE
Timely(h) == h.left > 0

\* auth::verify_signature with the public key of the account
SignatureUnchecked(h) == TRUE
SignatureOk(h) == h.by = h.account /\ h.over = h.cid

\* SQLite lets the transaction of t write.
MayWrite(t) == writer = None /\ ~task[t].stale

\* UPDATE .. WHERE challenge_id = ? AND used_at IS NULL changes one row.
TakesOutsideSnapshot(t) == writer = None
Takes(t) == MayWrite(t) /\ \E r \in challenges : r.cid = task[t].cid /\ ~r.used

\* The rows once the UPDATE of this challenge is committed.
NotCommitted(c) == challenges
Committed(c) == {IF r.cid = c THEN [r EXCEPT !.used = TRUE] ELSE r : r \in challenges}

\* The write lock after the transaction of t is committed or dropped.
LockKept(t) == writer
LockAfter(t) == IF writer = t THEN None ELSE writer

\* WHERE expires_at <= CURRENT_TIMESTAMP OR used_at IS NOT NULL
SweepUnused(r) == r.pastDay \/ ~r.used
Sweepable(r) == r.pastDay \/ r.used

Expired(r) == r.left = 0

-----------------------------------------------------------------------------
Init ==
    /\ challenges = {}
    /\ writer = None
    /\ task = [t \in Task |-> Idle]
    /\ tod = 0
    /\ up = TRUE
    /\ owner = [c \in ChallengeId |-> None]
    /\ issued = [c \in ChallengeId |-> 0]

(***************************************************************************)
(* requestChallenge                                                        *)
(***************************************************************************)
ChallengeStart(t, a) ==
    /\ Begin(t, [Idle EXCEPT !.pc = "q_lookup", !.account = a])
    /\ UNCHANGED <<challenges, writer, tod, up, owner, issued>>

ChallengeLookup(t) ==
    /\ At(t, "q_lookup")
    /\ \/ ~Registered(task[t].account) /\ Finish(t)
       \/ Registered(task[t].account) /\ Goto(t, "q_mint")
    /\ UNCHANGED <<challenges, writer, tod, up, owner, issued>>

\* A fresh id and fresh random bytes; the expiry is fixed here.
ChallengeMint(t) ==
    /\ At(t, "q_mint")
    /\ \E c \in ChallengeId :
          /\ owner[c] = None
          /\ owner' = [owner EXCEPT ![c] = task[t].account]
          /\ task' = [task EXCEPT ![t].pc = "q_insert", ![t].cid = c, ![t].left = ChallengeTTL]
    /\ UNCHANGED <<challenges, writer, tod, up, issued>>

\* An INSERT of its own transaction waits for the write lock.
ChallengeInsert(t) ==
    /\ At(t, "q_insert")
    /\ writer = None
    /\ challenges' = challenges \cup
          {[cid |-> task[t].cid, account |-> task[t].account, left |-> task[t].left,
            pastDay |-> FALSE, used |-> FALSE]}
    /\ CommitThenFinish(t)
    /\ UNCHANGED <<writer, tod, up, owner, issued>>

(***************************************************************************)
(* authenticate                                                            *)
(***************************************************************************)
AuthStart(t, a, c, by, over) ==
    /\ Begin(t, [Idle EXCEPT !.pc = "a_read", !.account = a, !.cid = c, !.by = by, !.over = over])
    /\ UNCHANGED <<challenges, writer, tod, up, owner, issued>>

AuthRead(t) ==
    /\ At(t, "a_read")
    /\ \/ \E r \in Found(task[t].cid, task[t].account) :
             task' = [task EXCEPT ![t].pc = "a_check", ![t].left = r.left]
       \/ Found(task[t].cid, task[t].account) = {} /\ Finish(t)
    /\ UNCHANGED <<challenges, writer, tod, up, owner, issued>>

AuthCheck(t) ==
    /\ At(t, "a_check")
    /\ \/ Timely(task[t]) /\ SignatureOk(task[t]) /\ Goto(t, "a_update")
       \/ ~(Timely(task[t]) /\ SignatureOk(task[t])) /\ Finish(t)
    /\ UNCHANGED <<challenges, writer, tod, up, owner, issued>>

AuthUpdate(t) ==
    /\ At(t, "a_update")
    /\ \/ Takes(t) /\ writer' = t /\ Goto(t, "a_commit")
       \/ ~Takes(t) /\ Finish(t) /\ UNCHANGED writer
    /\ UNCHANGED <<challenges, tod, up, owner, issued>>

AuthCommit(t) ==
    /\ At(t, "a_commit")
    /\ challenges' = Committed(task[t].cid)
    /\ writer' = LockAfter(t)
    /\ CommitThenGoto(t, "a_issue")
    /\ UNCHANGED <<tod, up, owner, issued>>

AuthIssue(t) ==
    /\ At(t, "a_issue")
    /\ issued' = [issued EXCEPT ![task[t].cid] = @ + 1]
    /\ Finish(t)
    /\ UNCHANGED <<challenges, writer, tod, up, owner>>

(***************************************************************************)
(* The environment                                                         *)
(***************************************************************************)

\* Any other write to the database: accounts, chat requests, metrics.
OtherCommit ==
    /\ up /\ writer = None
    /\ task' = [u \in Task |-> Outdate(task[u])]
    /\ UNCHANGED <<challenges, writer, tod, up, owner, issued>>

\* A statement fails or the client goes away: the future is dropped and its
\* transaction rolled back.
Abort(t) ==
    /\ ~At(t, "idle")
    /\ Finish(t)
    /\ writer' = LockAfter(t)
    /\ UNCHANGED <<challenges, tod, up, owner, issued>>

\* What was not committed is lost.
Crash ==
    /\ up
    /\ up' = FALSE
    /\ task' = [t \in Task |-> Idle]
    /\ writer' = None
    /\ UNCHANGED <<challenges, tod, owner, issued>>

\* main runs remove_expired_challenges before it serves.
Startup ==
    /\ ~up
    /\ up' = TRUE
    /\ challenges' = {r \in challenges : ~Sweepable(r)}
    /\ UNCHANGED <<writer, task, tod, owner, issued>>

Tick ==
    /\ tod' = IF tod + 1 < DayLength THEN tod + 1 ELSE 0
    /\ challenges' = {[r EXCEPT !.left = Earlier(r.left),
                                !.pastDay = r.pastDay \/ (tod' = 0 /\ r.left = 0)] : r \in challenges}
    /\ task' = [t \in Task |-> [task[t] EXCEPT !.left = Earlier(task[t].left)]]
    /\ UNCHANGED <<writer, up, owner, issued>>

-----------------------------------------------------------------------------
ChallengeStep(t) ==
    \/ \E a \in Account \cup {Unknown} : ChallengeStart(t, a)
    \/ ChallengeLookup(t) \/ ChallengeMint(t) \/ ChallengeInsert(t)

AuthStep(t) ==
    \/ \E a, by \in Account, c, over \in ChallengeId : AuthStart(t, a, c, by, over)
    \/ AuthRead(t) \/ AuthCheck(t) \/ AuthUpdate(t) \/ AuthCommit(t) \/ AuthIssue(t)

Environment ==
    \/ OtherCommit \/ Crash \/ Startup \/ Tick
    \/ \E t \in Task : Abort(t)

Next == (\E t \in Task : ChallengeStep(t) \/ AuthStep(t)) \/ Environment

Spec == Init /\ [][Next]_vars

\* The runtime polls a handler whose transaction is open until it commits or
\* is dropped; nothing else is assumed.
FairSpec == Spec /\ \A t \in Task : WF_vars(AuthCommit(t))

-----------------------------------------------------------------------------
(* Properties                                                              *)

\* Rows, handlers and histories keep their shape, and the write lock is free
\* or held by a handler.
TypeOK ==
    /\ challenges \subseteq Row
    /\ writer \in Task \cup {None}
    /\ task \in [Task -> Handler]
    /\ tod \in 0 .. DayLength - 1
    /\ up \in BOOLEAN
    /\ owner \in [ChallengeId -> Account \cup {None}]
    /\ issued \in [ChallengeId -> Nat]

\* A challenge logs in once (README: "consumed exactly once"), however many
\* copies of the signed answer are handled at the same time and whatever
\* restarts come between them.
OneSessionPerChallenge == \A c \in ChallengeId : issued[c] <= 1

\* A session exists only for a challenge that is durably used: no stored row
\* can answer again for it, even after a crash right behind the reply
\* (README: "marks the challenge used before issuing the session").
SessionMeansUsed == \A r \in challenges : issued[r.cid] > 0 => r.used

\* A session goes to the account its challenge was minted for, on a signature
\* of that account over that challenge: neither another account's challenge
\* nor a signature of another challenge will do.
SessionsAreEarned ==
    [][\A c \in ChallengeId : issued'[c] # issued[c] =>
          \E t \in Task : /\ At(t, "a_issue") /\ task[t].cid = c
                          /\ task[t].account = owner[c]
                          /\ task[t].by = owner[c] /\ task[t].over = c]_vars

\* Nobody but its owner uses a challenge up.
OnlyTheOwnerUses ==
    [][\A r \in challenges, q \in challenges' : r.cid = q.cid /\ q.used /\ ~r.used =>
          \E t \in Task : /\ At(t, "a_commit") /\ task[t].cid = r.cid
                          /\ task[t].by = r.account /\ task[t].over = r.cid]_vars

\* A restart in the middle of a login does not take the challenge away from
\* under the client: the text comparison never errs on the side of deletion.
LiveChallengesSurviveRestart ==
    [][Startup => \A r \in challenges : ~Expired(r) /\ ~r.used => r \in challenges']_vars

\* The one write lock of the database is always released: an authentication
\* that fails or is dropped between its UPDATE and its commit rolls back.
WriteLockReleased == writer # None ~> writer = None

\* What SYSTEM_DIAGRAM_SPEC.md says of startup: "Expired and used challenges
\* are removed during service startup."
StartupRemovesExpired == [][Startup => \A r \in challenges' : ~Expired(r) /\ ~r.used]_vars

-----------------------------------------------------------------------------
(* The inductive invariant behind the safety properties.                   *)

\* A handler in progress has the arguments its kind takes.
ArgumentsOK ==
    \A t \in Task :
        /\ task[t].pc = "q_lookup" => task[t].account \in Account \cup {Unknown}
        /\ task[t].pc \in {"q_mint", "q_insert"} => task[t].account \in Account
        /\ task[t].pc \in {"q_insert"} \cup AuthPc => task[t].cid \in ChallengeId
        /\ task[t].pc \in AuthPc => task[t].account \in Account

IdsUnique == \A r, q \in challenges : r.cid = q.cid => r = q

\* A stored challenge belongs to the account it was minted for.
RowsAreMinted == \A r \in challenges : owner[r.cid] = r.account

\* A row whose expiry date is past has expired.
PastDayMeansExpired == \A r \in challenges : r.pastDay => r.left = 0

\* Handlers of authenticate that found the row of their challenge.
Claiming == Reading \cup {"a_commit", "a_issue"}

\* A challenge about to be inserted is nowhere else yet.
InsertsAreNew ==
    \A t \in Task : task[t].pc = "q_insert" =>
        /\ owner[task[t].cid] = task[t].account
        /\ issued[task[t].cid] = 0
        /\ \A r \in challenges : r.cid # task[t].cid
        /\ \A u \in Task : task[u].pc \in Claiming \cup {"q_insert"} /\ task[u].cid = task[t].cid
                           => u = t

\* A challenge that was never minted has no session.
SessionsAreMinted == \A c \in ChallengeId : issued[c] # 0 => owner[c] # None

\* A claim is for the account of the challenge, and past the check it is signed.
ClaimsAreMinted == \A t \in Task : task[t].pc \in Claiming => owner[task[t].cid] = task[t].account
ClaimsAreSigned ==
    \A t \in Task : task[t].pc \in {"a_update", "a_commit", "a_issue"} =>
        task[t].by = task[t].account /\ task[t].over = task[t].cid

\* The write lock is held exactly between UPDATE and commit.
LockMatches == \A t \in Task : writer = t <=> task[t].pc = "a_commit"

Unspent(c) ==
    /\ issued[c] = 0
    /\ \A r \in challenges : r.cid = c => ~r.used
    /\ \A u \in Task : task[u].pc = "a_issue" => task[u].cid # c

\* An up-to-date snapshot, and an open UPDATE, is of an unspent challenge.
SnapshotsUnspent ==
    \A t \in Task : (task[t].pc \in Reading /\ ~task[t].stale) \/ task[t].pc = "a_commit" =>
        Unspent(task[t].cid)

\* A handler that committed is alone with its challenge and has yet to reply.
WinnersAreAlone ==
    \A t \in Task : task[t].pc = "a_issue" =>
        /\ issued[task[t].cid] = 0
        /\ \A r \in challenges : r.cid = task[t].cid => r.used
        /\ \A u \in Task : task[u].pc = "a_issue" /\ task[u].cid = task[t].cid => u = t

IInv ==
    /\ TypeOK /\ ArgumentsOK
    /\ IdsUnique /\ RowsAreMinted /\ PastDayMeansExpired
    /\ InsertsAreNew /\ SessionsAreMinted
    /\ ClaimsAreMinted /\ ClaimsAreSigned
    /\ LockMatches /\ SnapshotsUnspent /\ WinnersAreAlone
    /\ OneSessionPerChallenge /\ SessionMeansUsed

=============================================================================
