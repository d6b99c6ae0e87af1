----------------------------- MODULE MCN3Tunnel -----------------------------
(* Model checking of N3Tunnel: every gNB has an address of its own. *)
EXTENDS N3Tunnel, TLC

GnbAddr(g) == <<"ip", g>>

Symmetry == Permutations(Gnbs) \cup Permutations(Upfs) \cup Permutations(Packets)
              \cup Permutations(Conns)
=============================================================================
