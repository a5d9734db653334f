-------------------------- MODULE MCAssetLifecycle --------------------------
(* Small instances of AssetLifecycle for TLC. *)
EXTENDS AssetLifecycle, TLC

UnitSize == [a \in Assets |-> 1]

Symmetric ==
    Permutations(Assets) \cup Permutations(Projects)
    \cup Permutations(Checkpoints) \cup Permutations(Posts)
=============================================================================
