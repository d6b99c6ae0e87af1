------------------------------ MODULE MCUpfN3 ------------------------------
(* Model checking of UpfN3: nothing in it depends on which session, address  *)
(* or gNB is which.                                                          *)
EXTENDS UpfN3

Symmetry == Permutations(Sessions) \cup Permutations(Addrs) \cup Permutations(Gnbs)
=============================================================================
