----------------------------- MODULE MCLiveChat -----------------------------
(* Small instances of LiveChat for TLC.                                    *)
EXTENDS LiveChatRefinement, TLC

CONSTANTS a1, a2, c1, c2, c3, q1, q2, q3, t1, t2

\* Ids, client ids, handlers and accounts are interchangeable.
Symmetric == Permutations(Account) \cup Permutations(ClientId)
                \cup Permutations(RequestId) \cup Permutations(Task)

\* For the request limit, which blocks do not enter.
NoBlocks == blocks = {}

=============================================================================
