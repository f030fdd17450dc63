--------------------------- MODULE MCHttpPipeline ---------------------------
(* Small instances of HttpPipeline for TLC.                                *)
EXTENDS HttpPipeline, TLC

CONSTANTS r1, r2

\* Requests are interchangeable.
Symmetric == Permutations(Req)

=============================================================================
