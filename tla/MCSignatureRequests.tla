------------------------ MODULE MCSignatureRequests ------------------------
(* SignatureRequests on small instances.                                   *)
EXTENDS SignatureRequests, TLC

\* Its properties are invariants and action properties, which it respects.
Symmetry == Permutations(Requests) \cup Permutations(Keys) \cup Permutations(Handlers)

============================================================================
