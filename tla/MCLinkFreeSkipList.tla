------------------------- MODULE MCLinkFreeSkipList -------------------------
(* Instances of LinkFreeSkipList for TLC. *)
EXTENDS LinkFreeSkipList, TLC

Symmetry == Permutations(Threads) \union Permutations(Nodes)

=============================================================================
