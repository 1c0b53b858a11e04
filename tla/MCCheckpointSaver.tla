------------------------- MODULE MCCheckpointSaver -------------------------
(* Two operations in flight at a time, two channels.                       *)
EXTENDS CheckpointSaver, TLC

Symmetry == Permutations(Op) \union Permutations(Proc)
=============================================================================
