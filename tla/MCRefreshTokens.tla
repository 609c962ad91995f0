-------------------------- MODULE MCRefreshTokens --------------------------
(* RefreshTokens on small instances.                                       *)
EXTENDS RefreshTokens, TLC

\* Handlers and rows are interchangeable.
Symmetry == Permutations(Requests) \cup Permutations(Tokens)

============================================================================
