-------------------------- MODULE MCAuthentication --------------------------
(* Small instances of Authentication for TLC.                              *)
EXTENDS AuthenticationRefinement, TLC

CONSTANTS a1, a2, q1, q2, t1, t2

\* Accounts, challenge ids and handlers are interchangeable.
Symmetric == Permutations(Account) \cup Permutations(ChallengeId) \cup Permutations(Task)

=============================================================================
