----------------------------- MODULE MCGnbGtp ------------------------------
(* GnbGtp for TLC. *)
EXTENDS GnbGtp, TLC

Symmetry == Permutations(UEs) \cup Permutations(Psis)
=============================================================================
