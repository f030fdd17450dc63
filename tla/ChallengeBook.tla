---------------------------- MODULE ChallengeBook ----------------------------
(***************************************************************************)
(* What the login promises: a book of challenges, each of which can be     *)
(* spent once, by an answer its owner signed while it was live.            *)
(*                                                                         *)
(* Time is checked when an answer is accepted, which is not when it spends *)
(* the challenge: an accepted answer keeps its right past the expiry, but  *)
(* not past another answer.  Snapshots, locks and the stale date texts of  *)
(* the database have no place here.                                        *)
(***************************************************************************)
EXTENDS Integers

CONSTANTS Account, ChallengeId, ChallengeTTL, None

VARIABLES
    owner,      \* the account each challenge was minted for
    pending,    \* challenges minted and not stored yet
    stored,     \* challenges that can be answered, or have been
    accepted,   \* answers found right that have not spent their challenge yet
    granted,    \* answers that have, and have no session yet
    issued      \* sessions issued for each challenge

vars == <<owner, pending, stored, accepted, granted, issued>>

Challenge == [cid : ChallengeId, account : Account, left : 0 .. ChallengeTTL, used : BOOLEAN]

\* The right answer to a challenge: its owner's signature over it.
RightAnswer(r) == [cid |-> r.cid, account |-> r.account, by |-> r.account, over |-> r.cid]

Live(r) == r.left > 0 /\ ~r.used
Aged(r) == [r EXCEPT !.left = IF @ = 0 THEN 0 ELSE @ - 1]
Spent(r) == [r EXCEPT !.used = TRUE]

-----------------------------------------------------------------------------
Init ==
    /\ owner = [c \in ChallengeId |-> None]
    /\ pending = {} /\ stored = {}
    /\ accepted = {} /\ granted = {}
    /\ issued = [c \in ChallengeId |-> 0]

\* A challenge is minted under an id that never was one.
Mint ==
    /\ \E c \in ChallengeId, a \in Account :
          /\ owner[c] = None
          /\ owner' = [owner EXCEPT ![c] = a]
          /\ pending' = pending \cup {[cid |-> c, account |-> a, left |-> ChallengeTTL, used |-> FALSE]}
    /\ UNCHANGED <<stored, accepted, granted, issued>>

Store ==
    /\ \E r \in pending : stored' = stored \cup {r} /\ pending' = pending \ {r}
    /\ UNCHANGED <<owner, accepted, granted, issued>>

\* An answer is accepted while its challenge has time left.  That the
\* challenge is unspent is not decided here.
Accept ==
    /\ \E r \in stored : r.left > 0 /\ accepted' = accepted \cup {RightAnswer(r)}
    /\ UNCHANGED <<owner, pending, stored, granted, issued>>

\* The first accepted answer spends the challenge; the same answer may be in
\* the hands of another call.
Spend ==
    /\ \E a \in accepted, r \in stored :
          /\ a = RightAnswer(r)
          /\ ~r.used
          /\ stored' = (stored \ {r}) \cup {Spent(r)}
          /\ granted' = granted \cup {a}
          /\ accepted' \in {accepted, accepted \ {a}}
    /\ UNCHANGED <<owner, pending, issued>>

\* Each challenge spent gives one session.
Grant ==
    /\ \E a \in granted :
          /\ granted' = granted \ {a}
          /\ issued' = [issued EXCEPT ![a.cid] = @ + 1]
    /\ UNCHANGED <<owner, pending, stored, accepted>>

\* Calls end early and crash; what they were about to do is not done.
Lose ==
    /\ pending' \subseteq pending
    /\ accepted' \subseteq accepted
    /\ granted' \subseteq granted
    /\ UNCHANGED <<owner, stored, issued>>

\* The clean-up may remove challenges, but none that can still be answered.
Sweep ==
    /\ stored' \subseteq stored
    /\ \A r \in stored : Live(r) => r \in stored'
    /\ UNCHANGED <<owner, pending, accepted, granted, issued>>

Tick ==
    /\ stored' = {Aged(r) : r \in stored}
    /\ pending' = {Aged(r) : r \in pending}
    /\ UNCHANGED <<owner, accepted, granted, issued>>

Next == Mint \/ Store \/ Accept \/ Spend \/ Grant \/ Lose \/ Sweep \/ Tick

Spec == Init /\ [][Next]_vars

=============================================================================
