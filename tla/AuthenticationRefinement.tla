---------------------- MODULE AuthenticationRefinement ----------------------
(***************************************************************************)
(* Authentication implements ChallengeBook.  A handler past the check of   *)
(* expiry and signature carries an accepted answer until its commit, which *)
(* is the one step that spends, and a granted one until it has issued the  *)
(* session.  Reading, failing to upgrade and holding the write lock change *)
(* nothing in the book.                                                    *)
(***************************************************************************)
EXTENDS Authentication

\* What is left of a row without the date of its expiry.
EntryOf(r) == [cid |-> r.cid, account |-> r.account, left |-> r.left, used |-> r.used]

AnswerOf(h) == [cid |-> h.cid, account |-> h.account, by |-> h.by, over |-> h.over]

\* The row a handler is about to insert.
InsertOf(h) == [cid |-> h.cid, account |-> h.account, left |-> h.left, used |-> FALSE]

\* What the handlers f at these statements carry.
HandlersAt(f, labels) == {t \in Task : f[t].pc \in labels}
AnswersAt(f, labels) == {AnswerOf(f[t]) : t \in HandlersAt(f, labels)}
InsertsAt(f, labels) == {InsertOf(f[t]) : t \in HandlersAt(f, labels)}

Accepting == {"a_update", "a_commit"}

stored == {EntryOf(r) : r \in challenges}
pending == InsertsAt(task, {"q_insert"})
accepted == AnswersAt(task, Accepting)
granted == AnswersAt(task, {"a_issue"})

Book == INSTANCE ChallengeBook

\* However many handlers answer one challenge on snapshots of any age, and
\* whatever fails, crashes or expires between their statements, a login is one
\* atomic step: the commit spends an unspent challenge for an answer that its
\* owner signed and that was checked before the challenge expired, and only
\* that gives a session.
ImplementsChallengeBook == Book!Spec

-----------------------------------------------------------------------------
(* What the mapping needs beyond the invariant of Authentication.          *)

\* A claim knows the row it read and the time that row has left.
ClaimsHaveRows ==
    \A t \in Task : task[t].pc \in Reading \cup {"a_commit"} =>
        \E r \in challenges : /\ r.cid = task[t].cid /\ r.account = task[t].account
                              /\ r.left = task[t].left

\* No handler outlives the process.
DownMeansIdle == ~up => \A t \in Task : task[t].pc = "idle"

RefinementInv == IInv /\ ClaimsHaveRows /\ DownMeansIdle

-----------------------------------------------------------------------------
(* The inductive invariant of the book itself.                             *)

\* In the book a challenge is in one place, was minted for its account, and
\* once it is granted or issued no unspent copy of it is left.
Entries == pending \cup stored

BookEntries ==
    /\ \A r \in Entries : r \in Book!Challenge /\ owner[r.cid] = r.account
    /\ \A r, q \in Entries : r.cid = q.cid => r = q
    /\ \A r \in pending : ~r.used /\ r \notin stored
    /\ owner \in [ChallengeId -> Account \cup {None}]

BookGrants ==
    \A a \in granted :
        /\ a.cid \in ChallengeId /\ owner[a.cid] # None /\ issued[a.cid] = 0
        /\ \A r \in Entries : r.cid = a.cid => r.used
        /\ \A b \in granted : b.cid = a.cid => b = a

BookSessions ==
    /\ issued \in [ChallengeId -> Nat]
    /\ OneSessionPerChallenge
    /\ \A c \in ChallengeId : issued[c] # 0 =>
          owner[c] # None /\ \A r \in Entries : r.cid = c => r.used

BookInv == BookEntries /\ BookGrants /\ BookSessions

=============================================================================
