------------------------------ MODULE LiveChat ------------------------------
(***************************************************************************)
(* The direct-chat rendezvous: sendLiveChatRequest, renewLiveChatRequest,  *)
(* cancelLiveChatRequest, blockIdentity, unblockIdentity, the              *)
(* liveChatRequests query and the clean-up of expired requests.            *)
(*                                                                         *)
(* Every handler of src/graphql/mutation.rs runs its SQL statements one by *)
(* one on a connection pool, outside any transaction, and awaits between   *)
(* them.  SQLite makes each STATEMENT atomic, so a statement is an action  *)
(* here and everything may happen between two statements of one handler:   *)
(* other handlers, the passing of time, the clean-up task, a database      *)
(* error, a client that disconnects (the handler's future is dropped) and  *)
(* a crash of the process.                                                 *)
(*                                                                         *)
(* Time.  The code compares expiry instants with the current time and      *)
(* nothing else, so an instant is kept as the time that REMAINS until it,  *)
(* never below 0.  Tick lets one unit pass for every row and for every     *)
(* instant a handler holds.  This keeps the state space finite without     *)
(* bounding time.                                                          *)
(*                                                                         *)
(* Identifiers.  request_id and lease_id are minted together and looked up *)
(* together, so one RequestId stands for the pair; a pair that does not    *)
(* match is an id no row has.  A fresh UUID is an id that no row and no    *)
(* handler holds.                                                          *)
(***************************************************************************)
EXTENDS Integers, FiniteSets

CONSTANTS
    Account,     \* registered accounts: rows of "accounts", never deleted
    Unknown,     \* a recipient name that no account has
    ClientId,    \* client_request_id values chosen by senders
    RequestId,   \* the pool of (request_id, lease_id) pairs
    Task,        \* requests the server may be handling at the same time
    LeaseTTL,    \* lease_expires_at - now: 90 seconds
    HardTTL,     \* hard_expires_at - now: 15 minutes
    MaxActive    \* active requests allowed per sender: 25

\* The fixed durations and the limit of the code; a recipient that is not
\* an account is told apart from every account.
ASSUME ParamsAssumption ==
    /\ LeaseTTL \in Nat \ {0}
    /\ HardTTL \in Nat
    /\ LeaseTTL <= HardTTL
    /\ MaxActive \in Nat
    /\ Unknown \notin Account

\* The server handles some number of requests at a time.
ASSUME TaskAssumption == IsFiniteSet(Task) /\ Task # {}

VARIABLES
    requests,    \* table live_chat_requests
    blocks,      \* table blocked_accounts, as <<blocker, blocked>>
    task,        \* the handlers in progress and their local variables
    up           \* whether the process is running

vars == <<requests, blocks, task, up>>

None == "none"

\* A row of live_chat_requests; the payload, the public key and created_at
\* are copied through and decide nothing.
Row == [rid       : RequestId,
        client    : ClientId,
        sender    : Account,
        recipient : Account,
        lease     : 0 .. LeaseTTL,
        hard      : 0 .. HardTTL]

SendPc   == {"s_expire", "s_lookup", "s_count", "s_resolve", "s_check", "s_insert"}
RenewPc  == {"r_expire", "r_read", "r_stamp", "r_write"}
CancelPc == {"c_read", "c_delete"}
BlockPc  == {"b_insert", "b_delete", "b_read"}
Pc       == {"idle"} \cup SendPc \cup RenewPc \cup CancelPc \cup BlockPc

\* A handler: the statement it is about to run and its local variables.
Handler == [pc     : Pc,
            actor  : Account \cup {None},
            peer   : Account \cup {Unknown, None},
            client : ClientId \cup {None},
            rid    : RequestId \cup {None},
            lease  : 0 .. LeaseTTL,
            hard   : 0 .. HardTTL]

Idle == [pc |-> "idle", actor |-> None, peer |-> None, client |-> None,
         rid |-> None, lease |-> 0, hard |-> 0]

-----------------------------------------------------------------------------
(* Helpers                                                                 *)

Earlier(n) == IF n = 0 THEN 0 ELSE n - 1
Least(m, n) == IF m <= n THEN m ELSE n

\* julianday(lease_expires_at) <= now OR julianday(hard_expires_at) <= now
Expired(r) == r.lease = 0 \/ r.hard = 0

ActiveOf(a) == {r \in requests : r.sender = a /\ ~Expired(r)}

\* What liveChatRequests returns to account a.
Visible(a) == {r \in requests : r.recipient = a /\ ~Expired(r)}

SameKey(r, a, c) == r.sender = a /\ r.client = c

\* The row a sender names in renew and cancel.
OwnedByAnyone(id, a) == {r \in requests : r.rid = id}
Owned(id, a) == {r \in requests : r.rid = id /\ r.sender = a}

\* idx_live_chat_sender_client
NoIndex(a, c) == TRUE
IndexAdmits(a, c) == \A r \in requests : ~SameKey(r, a, c)

\* The count of active requests leaves room for one more.
RoomOffByOne(a) == Cardinality(ActiveOf(a)) <= MaxActive
HasRoom(a) == Cardinality(ActiveOf(a)) < MaxActive

\* SELECT account_id FROM accounts WHERE identitty = ? finds a row.
KnownUnchecked(p) == TRUE
Known(p) == p \in Account

\* p neither blocked s nor is s.
AcceptsBlocked(p, s) == p # s
Accepts(p, s) == <<p, s>> \notin blocks /\ p # s

\* min(Utc::now() + 90 s, hard_expires_at)
LeaseUncapped(hard) == LeaseTTL
RenewedLease(hard) == Least(LeaseTTL, hard)

\* UPDATE live_chat_requests SET lease_expires_at = ?
ExtendedBoth(r, lease) == [r EXCEPT !.lease = lease, !.hard = HardTTL]
Extended(r, lease) == [r EXCEPT !.lease = lease]

Fresh == {id \in RequestId : /\ \A r \in requests : r.rid # id
                             /\ \A u \in Task : task[u].rid # id}

\* remove_expired_live_chat_requests
RemoveExpired == requests' = {r \in requests : ~Expired(r)}

Begin(t, h) == up /\ task[t].pc = "idle" /\ task' = [task EXCEPT ![t] = h]
At(t, label) == task[t].pc = label
Goto(t, label) == task' = [task EXCEPT ![t].pc = label]
Finish(t) == task' = [task EXCEPT ![t] = Idle]

-----------------------------------------------------------------------------
Init ==
    /\ requests = {}
    /\ blocks = {}
    /\ task = [t \in Task |-> Idle]
    /\ up = TRUE

(***************************************************************************)
(* sendLiveChatRequest.                                                    *)
(***************************************************************************)
SendStart(t, s, p, c) ==
    /\ Begin(t, [Idle EXCEPT !.pc = "s_expire", !.actor = s, !.peer = p, !.client = c])
    /\ UNCHANGED <<requests, blocks, up>>

SendExpire(t) ==
    /\ At(t, "s_expire")
    /\ RemoveExpired
    /\ Goto(t, "s_lookup")
    /\ UNCHANGED <<blocks, up>>

\* A row with the same client_request_id answers the retry.
SendLookup(t) ==
    /\ At(t, "s_lookup")
    /\ \/ /\ \E r \in requests : SameKey(r, task[t].actor, task[t].client)
          /\ Finish(t)
       \/ /\ \A r \in requests : ~SameKey(r, task[t].actor, task[t].client)
          /\ Goto(t, "s_count")
    /\ UNCHANGED <<requests, blocks, up>>

SendCount(t) ==
    /\ At(t, "s_count")
    /\ \/ ~HasRoom(task[t].actor) /\ Finish(t)
       \/ HasRoom(task[t].actor) /\ Goto(t, "s_resolve")
    /\ UNCHANGED <<requests, blocks, up>>

\* Reads the clock, mints the ids and looks the recipient up.  An unknown
\* recipient gets the reply of a stored request, with ids nothing has.
SendResolve(t) ==
    /\ At(t, "s_resolve")
    /\ \/ ~Known(task[t].peer) /\ Finish(t)
       \/ /\ Known(task[t].peer)
          /\ \E id \in Fresh :
                task' = [task EXCEPT ![t].pc = "s_check", ![t].rid = id,
                                     ![t].lease = LeaseTTL, ![t].hard = HardTTL]
    /\ UNCHANGED <<requests, blocks, up>>

SendCheck(t) ==
    /\ At(t, "s_check")
    /\ \/ ~Accepts(task[t].peer, task[t].actor) /\ Finish(t)
       \/ Accepts(task[t].peer, task[t].actor) /\ Goto(t, "s_insert")
    /\ UNCHANGED <<requests, blocks, up>>

\* The unique index on (sender_account_id, client_request_id) refuses the
\* second of two concurrent sends; the handler then answers INTERNAL_ERROR.
SendInsert(t) ==
    /\ At(t, "s_insert")
    /\ \/ /\ IndexAdmits(task[t].actor, task[t].client)
          /\ requests' = requests \cup
                {[rid |-> task[t].rid, client |-> task[t].client,
                  sender |-> task[t].actor, recipient |-> task[t].peer,
                  lease |-> task[t].lease, hard |-> task[t].hard]}
       \/ /\ ~IndexAdmits(task[t].actor, task[t].client)
          /\ UNCHANGED requests
    /\ Finish(t)
    /\ UNCHANGED <<blocks, up>>

(***************************************************************************)
(* renewLiveChatRequest.  The new expiry is computed from the clock read   *)
(* before the UPDATE is queued, and the UPDATE names only the request_id.  *)
(***************************************************************************)
RenewStart(t, s, id) ==
    /\ Begin(t, [Idle EXCEPT !.pc = "r_expire", !.actor = s, !.rid = id])
    /\ UNCHANGED <<requests, blocks, up>>

RenewExpire(t) ==
    /\ At(t, "r_expire")
    /\ RemoveExpired
    /\ Goto(t, "r_read")
    /\ UNCHANGED <<blocks, up>>

RenewRead(t) ==
    /\ At(t, "r_read")
    /\ \/ \E r \in Owned(task[t].rid, task[t].actor) :
             task' = [task EXCEPT ![t].pc = "r_stamp", ![t].hard = r.hard]
       \/ Owned(task[t].rid, task[t].actor) = {} /\ Finish(t)
    /\ UNCHANGED <<requests, blocks, up>>

RenewStamp(t) ==
    /\ At(t, "r_stamp")
    /\ task' = [task EXCEPT ![t].pc = "r_write", ![t].lease = RenewedLease(task[t].hard)]
    /\ UNCHANGED <<requests, blocks, up>>

RenewWrite(t) ==
    /\ At(t, "r_write")
    /\ requests' = {IF r.rid = task[t].rid THEN Extended(r, task[t].lease) ELSE r
                        : r \in requests}
    /\ Finish(t)
    /\ UNCHANGED <<blocks, up>>

(***************************************************************************)
(* cancelLiveChatRequest.                                                  *)
(***************************************************************************)
CancelStart(t, s, id) ==
    /\ Begin(t, [Idle EXCEPT !.pc = "c_read", !.actor = s, !.rid = id])
    /\ UNCHANGED <<requests, blocks, up>>

CancelRead(t) ==
    /\ At(t, "c_read")
    /\ \/ Owned(task[t].rid, task[t].actor) # {} /\ Goto(t, "c_delete")
       \/ Owned(task[t].rid, task[t].actor) = {} /\ Finish(t)
    /\ UNCHANGED <<requests, blocks, up>>

CancelDelete(t) ==
    /\ At(t, "c_delete")
    /\ requests' = {r \in requests : r.rid # task[t].rid}
    /\ Finish(t)
    /\ UNCHANGED <<blocks, up>>

(***************************************************************************)
(* blockIdentity and unblockIdentity.  A block of an unknown name or of    *)
(* oneself is refused before any statement that writes.                    *)
(***************************************************************************)
BlockStart(t, b, p) ==
    /\ b # p
    /\ Begin(t, [Idle EXCEPT !.pc = "b_insert", !.actor = b, !.peer = p])
    /\ UNCHANGED <<requests, blocks, up>>

BlockInsert(t) ==
    /\ At(t, "b_insert")
    /\ blocks' = blocks \cup {<<task[t].actor, task[t].peer>>}
    /\ Goto(t, "b_delete")
    /\ UNCHANGED <<requests, up>>

BlockDelete(t) ==
    /\ At(t, "b_delete")
    /\ requests' = {r \in requests :
                       ~(r.sender = task[t].peer /\ r.recipient = task[t].actor)}
    /\ Goto(t, "b_read")
    /\ UNCHANGED <<blocks, up>>

\* The block's created_at is read back for the reply.
BlockReply(t) ==
    /\ At(t, "b_read")
    /\ <<task[t].actor, task[t].peer>> \in blocks
    /\ Finish(t)
    /\ UNCHANGED <<requests, blocks, up>>

\* A concurrent unblockIdentity removed it: fetch_one fails.
BlockVanished(t) ==
    /\ At(t, "b_read")
    /\ <<task[t].actor, task[t].peer>> \notin blocks
    /\ Finish(t)
    /\ UNCHANGED <<requests, blocks, up>>

\* One statement, so the handler is one action.
Unblock(b, p) ==
    /\ up
    /\ <<b, p>> \in blocks
    /\ blocks' = blocks \ {<<b, p>>}
    /\ UNCHANGED <<requests, task, up>>

(***************************************************************************)
(* The environment of the handlers.                                        *)
(***************************************************************************)

\* The interval task of main.rs; liveChatRequests runs the same statement
\* before it reads Visible(account).
Cleanup ==
    /\ up
    /\ RemoveExpired
    /\ UNCHANGED <<blocks, task, up>>

\* A statement fails (INTERNAL_ERROR) or the client goes away and the
\* handler is dropped at an await; what it did so far stays.
Abort(t) ==
    /\ ~At(t, "idle")
    /\ Finish(t)
    /\ UNCHANGED <<requests, blocks, up>>

Crash ==
    /\ up
    /\ up' = FALSE
    /\ task' = [t \in Task |-> Idle]
    /\ UNCHANGED <<requests, blocks>>

\* main cleans expired requests before it serves the first request.
Restart ==
    /\ ~up
    /\ up' = TRUE
    /\ RemoveExpired
    /\ UNCHANGED <<blocks, task>>

Tick ==
    /\ requests' = {[r EXCEPT !.lease = Earlier(r.lease), !.hard = Earlier(r.hard)]
                        : r \in requests}
    /\ task' = [t \in Task |-> [task[t] EXCEPT !.lease = Earlier(task[t].lease),
                                               !.hard = Earlier(task[t].hard)]]
    /\ UNCHANGED <<blocks, up>>

-----------------------------------------------------------------------------
SendStep(t) ==
    \/ \E s \in Account, p \in Account \cup {Unknown}, c \in ClientId : SendStart(t, s, p, c)
    \/ SendExpire(t) \/ SendLookup(t) \/ SendCount(t)
    \/ SendResolve(t) \/ SendCheck(t) \/ SendInsert(t)

RenewStep(t) ==
    \/ \E s \in Account, id \in RequestId : RenewStart(t, s, id)
    \/ RenewExpire(t) \/ RenewRead(t) \/ RenewStamp(t) \/ RenewWrite(t)

CancelStep(t) ==
    \/ \E s \in Account, id \in RequestId : CancelStart(t, s, id)
    \/ CancelRead(t) \/ CancelDelete(t)

BlockStep(t) ==
    \/ \E b, p \in Account : BlockStart(t, b, p)
    \/ BlockInsert(t) \/ BlockDelete(t) \/ BlockReply(t) \/ BlockVanished(t)

Environment ==
    \/ Cleanup \/ Crash \/ Restart \/ Tick
    \/ \E t \in Task : Abort(t)

Next ==
    \/ \E t \in Task : SendStep(t) \/ RenewStep(t) \/ CancelStep(t) \/ BlockStep(t)
    \/ \E b, p \in Account : Unblock(b, p)
    \/ Environment

Spec == Init /\ [][Next]_vars

\* Time passes, the interval task keeps firing, and systemd restarts the
\* service after a failure (Restart=on-failure).  Nothing is assumed of clients or handlers: any
\* handler may stay before any of its statements for ever.
FairSpec == Spec /\ WF_vars(Tick) /\ WF_vars(Cleanup) /\ WF_vars(Restart)

-----------------------------------------------------------------------------
(* Properties                                                              *)

\* Every row, block and handler has the shape the schema and the handlers
\* give it; in particular no row names a recipient that is not an account,
\* although the name of one passes the first four steps of a send.
TypeOK ==
    /\ requests \subseteq Row
    /\ blocks \subseteq Account \X Account
    /\ task \in [Task -> Handler]
    /\ up \in BOOLEAN

\* No lease outlives the hard expiry fixed when the request was created,
\* however renewals are delayed between their read and their UPDATE
\* (README: "never beyond the 15-minute hard expiry").
LeaseWithinHard == \A r \in requests : r.lease <= r.hard

\* A sender's client_request_id names at most one stored request even when
\* retries run concurrently and each finds no row before it inserts.
OneRequestPerClientId ==
    \A r, q \in requests : r.sender = q.sender /\ r.client = q.client => r = q

\* The 25-request check and the insert are separate statements, so a sender
\* can pass the limit, but by at most one for every other handler in
\* progress; a renewal that revives an expired row counts too.
ActiveBounded ==
    \A a \in Account : Cardinality(ActiveOf(a)) <= MaxActive + Cardinality(Task) - 1

\* A block is sealed when it is stored, no request of the blocked sender is
\* left and no send of theirs that already passed the block check is about
\* to insert.
Sealed(b, s) ==
    /\ <<b, s>> \in blocks
    /\ \A r \in requests : ~(r.sender = s /\ r.recipient = b)
    /\ \A t \in Task : ~(At(t, "s_insert") /\ task[t].actor = s /\ task[t].peer = b)

\* Nothing but unblockIdentity opens a sealed block: no send, retry, renewal
\* or restart puts a request of the blocked sender in front of the blocker.
SealedBlockStaysSealed ==
    [][\A b, s \in Account : Sealed(b, s) /\ <<b, s>> \in blocks' => Sealed(b, s)']_vars

Gone(r) == \A q \in requests' : q.rid # r.rid

\* A request leaves the table only because it expired, because a cancel of
\* its own sender deletes it, or because its recipient blocks the sender.
\* The owner check of cancelLiveChatRequest is a statement earlier than the
\* DELETE, which names ids only.
RemovalIsAuthorised ==
    [][\A r \in requests : Gone(r) =>
          \/ Expired(r)
          \/ \E t \in Task : \/ At(t, "c_delete") /\ task[t].actor = r.sender
                             \/ /\ At(t, "b_delete")
                                /\ task[t].actor = r.recipient
                                /\ task[t].peer = r.sender]_vars

\* What a stored request is never changes, its hard expiry is never
\* postponed, and only a renewal by its own sender postpones its lease: the
\* UPDATE checks neither the sender nor the lease_id again.
OnlyTheSenderRenews ==
    [][\A r \in requests, q \in requests' : q.rid = r.rid =>
          /\ q.sender = r.sender /\ q.recipient = r.recipient /\ q.client = r.client
          /\ q.hard <= r.hard
          /\ q.lease > r.lease =>
                \E t \in Task : At(t, "r_write") /\ task[t].actor = r.sender]_vars

\* Every stored request is eventually deleted, however often its sender
\* renews it and whenever the service crashes.
RequestsEventuallyLeave ==
    \A id \in RequestId : (\E r \in requests : r.rid = id) ~> (\A r \in requests : r.rid # id)

\* A block that stays in place takes effect: the sends that passed the check
\* before it, however late they insert, stop being visible for good.
BlockTakesEffect ==
    \A b \in Account : \A s \in Account \ {b} :
        <>[](<<b, s>> \in blocks) => <>[](\A r \in Visible(b) : r.sender # s)

\* What README says of blockIdentity ("Blocking removes active requests from
\* the blocked sender to the blocker"), read at its reply: the blocker then
\* sees no request of the blocked sender.
BlockedAtReply ==
    [][\A t \in Task : BlockReply(t) => \A r \in Visible(task[t].actor) : r.sender # task[t].peer]_vars

\* What README says of renewLiveChatRequest ("renews a sender lease"), read
\* at its reply: a renewal that answers with a lease renewed a request.
RenewalRenews ==
    [][\A t \in Task : RenewWrite(t) => \E r \in requests : r.rid = task[t].rid]_vars

-----------------------------------------------------------------------------
(* The inductive invariant behind the safety properties.                   *)

\* A request id names one row.
IdsUnique == \A r, q \in requests : r.rid = q.rid => r = q

\* Handlers whose rid decides what they write, not what they look up.
Minting  == {"s_check", "s_insert"}
Bound    == Minting \cup {"r_stamp", "r_write", "c_delete"}

\* An id minted by a send in progress is on no row, and no other handler is
\* bound to it.
MintedIdsUnused ==
    \A t \in Task : task[t].pc \in Minting =>
        /\ \A r \in requests : r.rid # task[t].rid
        /\ \A u \in Task : task[u].pc \in Bound /\ task[u].rid = task[t].rid => u = t

\* The lease a send is about to store is within its hard expiry.
NewLeaseWithinHard ==
    \A t \in Task : task[t].pc \in Minting => task[t].lease <= task[t].hard

\* A renewal past its SELECT: its row, if it still exists, is its sender's
\* and carries the hard expiry it read, and the lease it computed is within.
RenewalKnowsItsRow ==
    \A t \in Task : task[t].pc \in {"r_stamp", "r_write"} =>
        \A r \in requests : r.rid = task[t].rid => r.sender = task[t].actor /\ r.hard = task[t].hard

RenewedLeaseWithinHard ==
    \A t \in Task : task[t].pc = "r_write" => task[t].lease <= task[t].hard

\* A cancel past its owner check: its row, if it still exists, is its sender's.
CancelOwnsItsRow ==
    \A t \in Task : task[t].pc = "c_delete" =>
        \A r \in requests : r.rid = task[t].rid => r.sender = task[t].actor

\* A send that has resolved its recipient has an account and an id.
SendResolved ==
    \A t \in Task : task[t].pc \in Minting =>
        task[t].peer \in Account /\ task[t].rid \in RequestId

\* A handler in progress has the arguments its kind takes.
ArgumentsOK ==
    \A t \in Task :
        /\ task[t].pc # "idle" => task[t].actor \in Account
        /\ task[t].pc \in SendPc => task[t].client \in ClientId
        /\ task[t].pc \in RenewPc \cup CancelPc => task[t].rid \in RequestId
        /\ task[t].pc \in BlockPc => task[t].peer \in Account \ {task[t].actor}

IInv ==
    /\ TypeOK
    /\ ArgumentsOK /\ SendResolved
    /\ IdsUnique /\ MintedIdsUnused
    /\ LeaseWithinHard /\ NewLeaseWithinHard /\ RenewedLeaseWithinHard
    /\ RenewalKnowsItsRow /\ CancelOwnsItsRow
    /\ OneRequestPerClientId

\* The same for ActiveBounded: a request counts while it is active or while a
\* renewal past its clean-up may still revive it, and a send counts from its
\* count to its insert.
Sending == {"s_resolve", "s_check", "s_insert"}
Reviving == {"r_read", "r_stamp", "r_write"}

Sends(a) == {t \in Task : task[t].pc \in Sending /\ task[t].actor = a}
Revivable(r) == \E t \in Task : task[t].pc \in Reviving /\ task[t].rid = r.rid
Counted(a) == {r \in requests : r.sender = a /\ (~Expired(r) \/ Revivable(r))}

CountInv ==
    /\ IsFiniteSet(requests)
    /\ \A a \in Account :
          Cardinality(Counted(a)) + Cardinality(Sends(a)) <= MaxActive + Cardinality(Task) - 1

=============================================================================
