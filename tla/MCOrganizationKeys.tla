------------------------- MODULE MCOrganizationKeys -------------------------
(* OrganizationKeys on small instances.                                    *)
EXTENDS OrganizationKeys, TLC

\* Its properties are invariants and action properties, which it respects.
Symmetry == Permutations(Keyrings) \cup Permutations(KeyHandlers)

\* A bound: no grant is for the founder, who is as any other target.
GrantsForOthers == \A g \in KeyHandlers : Founder \notin targets[g]

=============================================================================
