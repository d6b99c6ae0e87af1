----------------------------- MODULE MCGnbQuic -----------------------------
(* GnbQuic for TLC. *)
EXTENDS GnbQuic, TLC

Symmetry == Permutations(Conns) \cup Permutations(Blocks)
=============================================================================
