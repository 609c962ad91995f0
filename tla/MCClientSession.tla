-------------------------- MODULE MCClientSession --------------------------
EXTENDS ClientSession, TLC

Symmetry == Permutations(Tabs) \cup Permutations(Tokens)

=============================================================================
