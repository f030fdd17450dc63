----------------------------- MODULE MCRegistry -----------------------------
(* A small instance of Registry for TLC.                                   *)
EXTENDS Registry, TLC

CONSTANTS k1, k2, k3, t1, t2

\* Three spellings of one name, another name, one too short, one that starts
\* with a digit and one with a character outside the alphabet.
Spellings == {<<"a", "b">>, <<"A", "b">>, <<" ", "a", "B", " ">>, <<"b", "-", "1">>,
              <<"a", " ">>, <<"1", "a">>, <<"a", ".", "b">>}

\* Keys and handlers are interchangeable.
Symmetric == Permutations(Key) \cup Permutations(Task)

=============================================================================
