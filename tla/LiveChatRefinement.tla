------------------------- MODULE LiveChatRefinement -------------------------
(***************************************************************************)
(* LiveChat implements RequestBook.  The tables are the book and the       *)
(* blocks; the mandates are read off the handlers: a handler past the      *)
(* statement that checks its rule, and before the one that acts on it,     *)
(* carries one.  All other statements of the handlers are stutters.        *)
(***************************************************************************)
EXTENDS LiveChat

\* The row a send past its block check is about to insert.
RowOf(h) == [rid |-> h.rid, client |-> h.client, sender |-> h.actor,
             recipient |-> h.peer, lease |-> h.lease, hard |-> h.hard]

MandateOf(h) ==
    CASE h.pc = "s_insert" -> {[op |-> "store", row |-> RowOf(h)]}
      [] h.pc \in {"r_stamp", "r_write"} -> {[op |-> "renew", rid |-> h.rid, by |-> h.actor]}
      [] h.pc = "c_delete" -> {[op |-> "cancel", rid |-> h.rid, by |-> h.actor]}
      [] h.pc = "b_delete" -> {[op |-> "clear", by |-> h.actor, peer |-> h.peer]}
      [] OTHER -> {}

mandates == UNION {MandateOf(task[t]) : t \in Task}

Book == INSTANCE RequestBook WITH held <- requests

\* Whatever handlers, retries, failures and crashes do between statements,
\* the tables change as if every operation checked its rule in one atomic
\* step and took effect in another: a send inserts only what passed the
\* block check under an id of its own, a renewal changes only the lease of
\* the caller's request, a cancel and a block remove only what they name.
ImplementsRequestBook == Book!Spec

-----------------------------------------------------------------------------
(* The inductive invariant of the book itself.                             *)

\* What is stored and what was decided to be stored are requests with a lease
\* inside their hard expiry; the book holds one per name its sender chose.
BookInv ==
    /\ requests \subseteq Book!Request
    /\ \A m \in mandates : m.op = "store" =>
          m.row \in Book!Request /\ m.row.lease <= m.row.hard
    /\ LeaseWithinHard
    /\ OneRequestPerClientId

\* Sealed, as the book sees it.
BookSealed(b, s) ==
    /\ <<b, s>> \in blocks
    /\ \A r \in requests : ~(r.sender = s /\ r.recipient = b)
    /\ \A m \in mandates : m.op = "store" => ~(m.row.sender = s /\ m.row.recipient = b)

\* The book shows what seals a block in LiveChat.
SealsAgree == \A b, s \in Account : Sealed(b, s) <=> BookSealed(b, s)

=============================================================================
