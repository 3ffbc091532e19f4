-------------------------- MODULE MCProviderStake --------------------------
(* Two providers, amounts that can meet, exceed and undercut each other.   *)
EXTENDS ProviderStake, TLC

CONSTANTS p1, p2

Symmetry == Permutations({p1, p2})

=============================================================================
