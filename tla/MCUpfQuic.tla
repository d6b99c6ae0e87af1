----------------------------- MODULE MCUpfQuic -----------------------------
(* UpfQuic for TLC. *)
EXTENDS UpfQuic, TLC

Symmetry == Permutations(Conns) \cup Permutations(Nodes) \cup Permutations(SendCtxs)
=============================================================================
