---------------------------- MODULE RequestBook ----------------------------
(***************************************************************************)
(* What the direct-chat rendezvous promises, without handlers.             *)
(*                                                                         *)
(* There is a book of requests, a set of blocks and a set of mandates.  A  *)
(* mandate is what the service has made up its mind to do for a caller and *)
(* has not done yet.  Every operation is two atomic steps at most: the     *)
(* decision, where the rule of the operation is checked against the book   *)
(* and the blocks, and the effect, which spends the mandate.  A send       *)
(* checks that neither party stands against it, a renewal and a cancel     *)
(* that the request is the caller's own; a block decides and leaves the    *)
(* removal of the blocked requests to a mandate.  Nothing else changes the *)
(* book, except that time passes and that expired requests are forgotten.  *)
(*                                                                         *)
(* A mandate may get lost (a statement fails, the caller goes away, the    *)
(* process dies): Lose.  LiveChatRefinement shows that the handlers of     *)
(* LiveChat, with all their statements, do nothing but this.               *)
(***************************************************************************)
EXTENDS Integers

CONSTANTS
    Account,     \* registered accounts
    ClientId,    \* the names senders give their requests
    RequestId,   \* the names the service gives them
    LeaseTTL,    \* how long a lease lasts
    HardTTL      \* how long renewals can stretch it

VARIABLES
    held,        \* the stored requests, expired ones that are not forgotten yet among them
    blocks,      \* <<blocker, blocked>>
    mandates     \* what has been decided and not been done

vars == <<held, blocks, mandates>>

Request == [rid       : RequestId,
            client    : ClientId,
            sender    : Account,
            recipient : Account,
            lease     : 0 .. LeaseTTL,
            hard      : 0 .. HardTTL]

ToStore(r)    == [op |-> "store", row |-> r]
ToRenew(id, a)  == [op |-> "renew", rid |-> id, by |-> a]
ToCancel(id, a) == [op |-> "cancel", rid |-> id, by |-> a]
ToClear(b, s) == [op |-> "clear", by |-> b, peer |-> s]

Lapsed(r) == r.lease = 0 \/ r.hard = 0

Less(n) == IF n = 0 THEN 0 ELSE n - 1

Aged(r) == [r EXCEPT !.lease = Less(r.lease), !.hard = Less(r.hard)]

AgedMandate(m) == IF m.op = "store" THEN ToStore(Aged(m.row)) ELSE m

\* Nobody has this id: no request and no send that was decided.
Unused(id) ==
    /\ \A r \in held : r.rid # id
    /\ \A m \in mandates : m.op = "store" => m.row.rid # id

\* The same decision may have been made for two calls.
Spend(m) == mandates' \in {mandates, mandates \ {m}}
Decide(m) == mandates' = mandates \cup {m}

-----------------------------------------------------------------------------
Init ==
    /\ held = {}
    /\ blocks = {}
    /\ mandates = {}

\* A send is decided for a new request between two accounts if the
\* recipient does not block the sender and is somebody else.
DecideSend ==
    /\ \E r \in Request :
          /\ Unused(r.rid)
          /\ r.lease <= r.hard
          /\ r.sender # r.recipient
          /\ <<r.recipient, r.sender>> \notin blocks
          /\ Decide(ToStore(r))
    /\ UNCHANGED <<held, blocks>>

\* It is stored unless the sender has a request of that name.
Store(r) ==
    /\ ToStore(r) \in mandates
    /\ \A q \in held : ~(q.sender = r.sender /\ q.client = r.client)
    /\ held' = held \cup {r}
    /\ Spend(ToStore(r))
    /\ UNCHANGED blocks

\* A renewal is decided for a stored request on behalf of its sender.
DecideRenewal ==
    /\ \E r \in held : Decide(ToRenew(r.rid, r.sender))
    /\ UNCHANGED <<held, blocks>>

\* It gives that request some lease within its hard expiry.
Renew(id, a) ==
    /\ ToRenew(id, a) \in mandates
    /\ \E r \in held, n \in 0 .. LeaseTTL :
          /\ r.rid = id /\ r.sender = a
          /\ n <= r.hard
          /\ held' = (held \ {r}) \cup {[r EXCEPT !.lease = n]}
    /\ Spend(ToRenew(id, a))
    /\ UNCHANGED blocks

DecideCancel ==
    /\ \E r \in held : Decide(ToCancel(r.rid, r.sender))
    /\ UNCHANGED <<held, blocks>>

\* It removes that request and no other.
Cancel(id, a) ==
    /\ ToCancel(id, a) \in mandates
    /\ \E r \in held : r.rid = id /\ r.sender = a /\ held' = held \ {r}
    /\ Spend(ToCancel(id, a))
    /\ UNCHANGED blocks

\* A block is stored at once; what it removes is removed later.
Block(b, s) ==
    /\ b # s
    /\ blocks' = blocks \cup {<<b, s>>}
    /\ Decide(ToClear(b, s))
    /\ UNCHANGED held

Clear(b, s) ==
    /\ ToClear(b, s) \in mandates
    /\ held' = {r \in held : ~(r.sender = s /\ r.recipient = b)}
    /\ Spend(ToClear(b, s))
    /\ UNCHANGED blocks

Unblock(b, s) ==
    /\ <<b, s>> \in blocks
    /\ blocks' = blocks \ {<<b, s>>}
    /\ UNCHANGED <<held, mandates>>

\* Clean-up takes expired requests, and all of them.
Forget ==
    /\ held' = {r \in held : ~Lapsed(r)}
    /\ UNCHANGED <<blocks, mandates>>

Lose ==
    /\ mandates' \in SUBSET mandates
    /\ UNCHANGED <<held, blocks>>

Tick ==
    /\ held' = {Aged(r) : r \in held}
    /\ mandates' = {AgedMandate(m) : m \in mandates}
    /\ UNCHANGED blocks

-----------------------------------------------------------------------------
Next ==
    \/ DecideSend \/ DecideRenewal \/ DecideCancel
    \/ \E m \in mandates :
          \/ m.op = "store" /\ Store(m.row)
          \/ m.op = "renew" /\ Renew(m.rid, m.by)
          \/ m.op = "cancel" /\ Cancel(m.rid, m.by)
          \/ m.op = "clear" /\ Clear(m.by, m.peer)
    \/ \E b, s \in Account : Block(b, s) \/ Unblock(b, s)
    \/ Forget \/ Lose \/ Tick

Spec == Init /\ [][Next]_vars

=============================================================================
