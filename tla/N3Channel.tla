----------------------------- MODULE N3Channel -----------------------------
(***************************************************************************)
(* What the N3 interface promises the tasks that use it, whatever carries  *)
(* it: a packet may be lost or overtaken, but it arrives at most once, and *)
(* only where it was sent to. For the packets that have been given up      *)
(* (stray) the place is not promised.                                      *)
(***************************************************************************)
CONSTANTS Packets,  \* each is sent once
          Ends,     \* gNB addresses and UPFs
          NoEnd     \* the packet has not been sent yet

VARIABLES dest,     \* where each packet is to go
          stray,    \* the packets that may arrive elsewhere
          transit,  \* the packets on their way
          got       \* the packets that have arrived at each end

cvars == <<dest, stray, transit, got>>

ChanInit ==
  /\ dest = [p \in Packets |-> NoEnd]
  /\ stray = {}
  /\ transit = {}
  /\ got = [e \in Ends |-> {}]

(* A packet is handed in; it may be dropped at once, and others with it. *)
Submit(p, e, P) ==
  /\ dest[p] = NoEnd
  /\ dest' = [dest EXCEPT ![p] = e]
  /\ P \subseteq transit \cup {p}
  /\ transit' = P
  /\ stray' \in {stray, stray \cup {p}}
  /\ UNCHANGED got

Lose(P) ==
  /\ P \subseteq transit
  /\ transit' = P
  /\ UNCHANGED <<dest, stray, got>>

(* A packet on its way can no longer be held to its destination. *)
GiveUp(p) ==
  /\ p \in transit
  /\ stray' = stray \cup {p}
  /\ UNCHANGED <<dest, transit, got>>

Deliver(p, e) ==
  /\ p \in transit
  /\ e = dest[p] \/ p \in stray
  /\ transit' = transit \ {p}
  /\ got' = [got EXCEPT ![e] = @ \cup {p}]
  /\ UNCHANGED <<dest, stray>>

ChanNext ==
  \/ \E p \in Packets, e \in Ends, P \in SUBSET Packets : Submit(p, e, P)
  \/ \E P \in SUBSET Packets : Lose(P)
  \/ \E p \in Packets : GiveUp(p)
  \/ \E p \in Packets, e \in Ends : Deliver(p, e)

ChanSpec == ChanInit /\ [][ChanNext]_cvars
=============================================================================
