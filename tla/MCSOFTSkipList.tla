--------------------------- MODULE MCSOFTSkipList ---------------------------
(* Instances of SOFTSkipList for TLC. *)
EXTENDS SOFTSkipList, TLC

Symmetry == Permutations(Threads) \union Permutations(Nodes)
=============================================================================
