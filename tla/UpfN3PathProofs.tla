-------------------------- MODULE UpfN3PathProofs --------------------------
(***************************************************************************)
(* The UPF's packet path, on top of what UpfN3Proofs says of its rules: a  *)
(* session is found by its UE's address, FARs fit the PDRs that use them,  *)
(* packets leave through a tunnel of their own session, and buffered       *)
(* packets keep their order and page the UE once.                          *)
(***************************************************************************)
EXTENDS UpfN3Proofs

-----------------------------------------------------------------------------
(* UE addresses. *)

AddrTypes ==
  /\ ipv4 \in [Sessions -> Addrs \cup {NoAddr}]
  /\ ipv4_hash \in [Addrs -> Sessions \cup {NoSess}]
  /\ smfIp \in [Sessions -> Addrs \cup {NoAddr}]

(* The SMF gives an address to one session at a time, and the UPF's table   *)
(* leads to that session once it is established; an address of a session    *)
(* the SMF forgot may be stale, but is never one the SMF uses elsewhere and *)
(* the table still takes for the old one.                                   *)
AddrInv ==
  /\ \A s \in Sessions : s \notin sess_list => smfIp[s] = NoAddr /\ ipv4[s] = NoAddr
  /\ \A s, u \in Sessions : smfIp[s] = smfIp[u] /\ smfIp[s] # NoAddr => s = u
  /\ \A s \in Sessions : smfIp[s] # NoAddr /\ ~(s = main.sess /\ main.addr # NoAddr)
       => ipv4[s] = smfIp[s] /\ ipv4_hash[smfIp[s]] = s
  /\ main.addr # NoAddr => smfIp[main.sess] = main.addr /\ ipv4[main.sess] = NoAddr
  /\ main.pc = "restore" => \A s \in Sessions : smfIp[s] = NoAddr

addrVars == <<sess_list, smfIp, ipv4, ipv4_hash>>

LEMMA AddrInit == Init => AddrTypes /\ AddrInv
BY ConstAssumption DEF Init, AddrTypes, AddrInv, IdleMain

(* Steps that leave the addresses alone and keep the main thread with the   *)
(* session it is establishing, if any.                                      *)
LEMMA AddrFrame ==
  ASSUME AddrTypes, AddrInv, UNCHANGED addrVars,
         main'.addr = main.addr, main'.addr # NoAddr => main'.sess = main.sess,
         main'.pc = "restore" => main.pc = "restore"
  PROVE  AddrTypes' /\ AddrInv'
BY DEF AddrTypes, AddrInv, addrVars

LEMMA AddrRemove ==
  ASSUME RuleInv, AddrTypes, AddrInv, NEW s \in Sessions, sess_remove(s),
         main.addr = NoAddr, main'.addr = NoAddr,
         \/ smfIp[s] # NoAddr /\ smfIp' = [smfIp EXCEPT ![s] = NoAddr]
         \/ smfIp' = smfIp /\ \A u \in Sessions : smfIp[u] = NoAddr,
         main'.pc = "restore" => main.pc = "restore"
  PROVE  AddrTypes' /\ AddrInv'
<1>1. /\ sess_list' = sess_list \ {s}
      /\ ipv4' = [ipv4 EXCEPT ![s] = NoAddr]
      /\ ipv4_hash' = [a \in Addrs |-> IF a = ipv4[s] THEN NoSess ELSE ipv4_hash[a]]
  BY DEF sess_remove
<1>2. AddrTypes'
  BY <1>1 DEF AddrTypes
<1>3. \A u \in Sessions : smfIp'[u] # NoAddr => u # s /\ smfIp'[u] = smfIp[u] /\ smfIp[u] # ipv4[s]
  BY DEF AddrTypes, AddrInv
<1>4. \A u \in Sessions : u # s => ipv4'[u] = ipv4[u]
  BY <1>1 DEF AddrTypes
<1>5. \A u \in Sessions : smfIp'[u] # NoAddr =>
         ipv4'[u] = smfIp'[u] /\ ipv4_hash'[smfIp'[u]] = u
  BY <1>1, <1>3, <1>4 DEF AddrTypes, AddrInv
<1>6. \A u \in Sessions : u \notin sess_list' => smfIp'[u] = NoAddr /\ ipv4'[u] = NoAddr
  BY <1>1, <1>3, <1>4 DEF AddrTypes, AddrInv
<1>7. main'.pc = "restore" => \A u \in Sessions : smfIp'[u] = NoAddr
  BY <1>3 DEF AddrInv
<1>8. \A u, v \in Sessions : smfIp'[u] = smfIp'[v] /\ smfIp'[u] # NoAddr => u = v
  BY <1>3 DEF AddrInv
<1> QED BY <1>2, <1>5, <1>6, <1>7, <1>8 DEF AddrInv

LEMMA AddrNext == RuleInv /\ AddrTypes /\ AddrInv /\ [Next]_vars => AddrTypes' /\ AddrInv'
<1> SUFFICES ASSUME RuleInv, AddrTypes, AddrInv, [Next]_vars
             PROVE  AddrTypes' /\ AddrInv'
  OBVIOUS
<1> DEFINE P == AddrTypes' /\ AddrInv'
<1>0. /\ main.pc \in {"idle", "restore"} => main.addr = NoAddr /\ main.sess = NoSess
      /\ main.pc \notin {"idle", "restore"} => main.sess \in sess_list /\ main.sess \in Sessions
      /\ NoAddr \notin Addrs /\ NoSess \notin Sessions
      /\ main.addr \in Addrs \cup {NoAddr}
  BY ConstAssumption DEF RuleInv, MainInv, RuleTypes, IdleMain
<1>1. CASE UNCHANGED vars
  BY <1>1, AddrFrame DEF vars, sessVars, addrVars
<1>2. ASSUME NEW s \in Sessions, NEW a \in Addrs, session_establishment_request(s, a) PROVE P
  <2>1. /\ main.pc = "idle" /\ s \notin sess_list /\ smfIp[s] = NoAddr
        /\ a \notin {smfIp[t] : t \in Sessions}
        /\ smfIp' = [smfIp EXCEPT ![s] = a] /\ sess_list' = sess_list \cup {s}
        /\ main' = [IdleMain EXCEPT !.pc = "add", !.sess = s, !.addr = a, !.todo = "dl"]
        /\ ipv4' = ipv4 /\ ipv4_hash' = ipv4_hash
    BY <1>2 DEF session_establishment_request, MainIdle
  <2>2. main'.pc = "add" /\ main'.sess = s /\ main'.addr = a /\ a # NoAddr
    BY <1>0, <2>1 DEF IdleMain
  <2>3. smfIp'[s] = a /\ \A u \in Sessions : u # s => smfIp'[u] = smfIp[u] /\ smfIp[u] # a
    BY <2>1 DEF AddrTypes
  <2>4. AddrTypes'
    BY <2>1 DEF AddrTypes
  <2> QED BY <1>0, <2>1, <2>2, <2>3, <2>4 DEF AddrInv
<1>3. ASSUME NEW s \in Sessions, create_flow_request(s) PROVE P
  <2>1. /\ main.pc = "idle" /\ UNCHANGED addrVars
        /\ main' = [IdleMain EXCEPT !.pc = "add", !.sess = s, !.todo = "qdl"]
    BY <1>3 DEF create_flow_request, MainIdle, sessVars, addrVars
  <2>2. main'.pc = "add" /\ main'.addr = NoAddr
    BY <2>1 DEF IdleMain
  <2> QED BY <1>0, <2>1, <2>2, AddrFrame
<1>4. ASSUME NEW s \in Sessions, remove_flow_request(s) PROVE P
  BY <1>4, AddrFrame DEF remove_flow_request, addrVars
<1>5. ASSUME NEW s \in Sessions, session_deletion_request(s) PROVE P
  <2>1. /\ main.pc = "idle" /\ main' = main /\ smfIp[s] # NoAddr /\ sess_remove(s)
        /\ smfIp' = [smfIp EXCEPT ![s] = NoAddr]
    BY <1>5 DEF session_deletion_request, MainIdle
  <2> QED BY <1>0, <2>1, AddrRemove
<1>6. ASSUME NEW s \in Sessions, deletion_lost(s) PROVE P
  <2>1. /\ main.pc = "idle" /\ UNCHANGED <<main, sess_list, ipv4, ipv4_hash>>
        /\ smfIp' = [smfIp EXCEPT ![s] = NoAddr]
    BY <1>6 DEF deletion_lost, MainIdle, sessVars
  <2>2. \A u \in Sessions : smfIp'[u] # NoAddr => u # s /\ smfIp'[u] = smfIp[u]
    BY <2>1 DEF AddrTypes
  <2>3. \A u \in Sessions : smfIp[u] = NoAddr => smfIp'[u] = NoAddr
    BY <2>1 DEF AddrTypes
  <2>4. AddrTypes'
    BY <2>1 DEF AddrTypes
  <2> QED BY <1>0, <2>1, <2>2, <2>3, <2>4 DEF AddrInv
<1>7. ASSUME NEW s \in Sessions, NEW F \in SUBSET DlFars, NEW g \in Gnbs,
             activate_request(s, F, g)
      PROVE  P
  BY <1>7, AddrFrame DEF activate_request, addrVars
<1>8. ASSUME NEW s \in Sessions, deactivate_request(s) PROVE P
  BY <1>8, AddrFrame DEF deactivate_request, addrVars
<1>9. CASE pdr_add
  <2>1. UNCHANGED addrVars /\ main.pc = "add"
        /\ (main' = [main EXCEPT !.pc = "cleanup"] \/ main' = [main EXCEPT !.pc = "fill"])
    BY <1>9 DEF pdr_add, addrVars
  <2>2. main'.addr = main.addr /\ main'.sess = main.sess /\ main'.pc \in {"cleanup", "fill"}
    BY <2>1 DEF RuleInv, RuleTypes
  <2> QED BY <2>1, <2>2, AddrFrame
<1>10. CASE handle_create_pdr
  <2>1. UNCHANGED addrVars /\ \E x, y, z : z # "restore" /\
           main' = [main EXCEPT !.todo = x, !.created = y, !.pc = z]
    BY <1>10 DEF handle_create_pdr, addrVars
  <2>2. main'.addr = main.addr /\ main'.sess = main.sess /\ main'.pc # "restore"
    BY <2>1 DEF RuleInv, RuleTypes
  <2> QED BY <2>1, <2>2, AddrFrame
<1>11. CASE session_accepted
  <2>1. PICK s \in Sessions : s = main.sess /\ s \in sess_list /\ main.pc = "finish"
    BY <1>0, <1>11 DEF session_accepted
  <2>2. /\ IF main.addr # NoAddr THEN set_ue_ip(s, main.addr)
                                 ELSE UNCHANGED <<ipv4, ipv4_hash>>
        /\ main' = IdleMain /\ UNCHANGED <<sess_list, smfIp>>
    BY <1>11, <2>1 DEF session_accepted
  <2>3. main'.addr = NoAddr /\ main'.sess = NoSess /\ main'.pc = "idle"
    BY <2>2 DEF IdleMain
  <2>4. CASE main.addr = NoAddr
    BY <2>2, <2>3, <2>4, AddrFrame DEF addrVars
  <2>5. CASE main.addr # NoAddr
    <3>1. /\ ipv4' = [ipv4 EXCEPT ![s] = main.addr]
          /\ ipv4_hash' = [b \in Addrs |-> IF b = main.addr THEN s
                                           ELSE IF b = ipv4[s] THEN NoSess
                                           ELSE ipv4_hash[b]]
      BY <2>2, <2>5 DEF set_ue_ip
    <3>2. ipv4[s] = NoAddr /\ smfIp[s] = main.addr /\ main.addr \in Addrs
      BY <1>0, <2>1, <2>5 DEF AddrInv
    <3>3. AddrTypes'
      BY <2>2, <3>1, <3>2 DEF AddrTypes
    <3>4. ipv4'[s] = main.addr /\ ipv4_hash'[main.addr] = s
          /\ \A u \in Sessions \ {s} : ipv4'[u] = ipv4[u]
          /\ \A b \in Addrs : b # main.addr => ipv4_hash'[b] = ipv4_hash[b]
      BY <1>0, <3>1, <3>2 DEF AddrTypes
    <3>5. \A u \in Sessions \ {s} : smfIp[u] # NoAddr =>
             /\ smfIp[u] # main.addr /\ smfIp[u] \in Addrs
             /\ ipv4[u] = smfIp[u] /\ ipv4_hash[smfIp[u]] = u
      BY <2>1, <3>2 DEF AddrInv, AddrTypes
    <3>6. \A u \in Sessions : smfIp[u] # NoAddr =>
             ipv4'[u] = smfIp[u] /\ ipv4_hash'[smfIp[u]] = u
      BY <3>2, <3>4, <3>5
    <3> QED BY <2>1, <2>2, <2>3, <3>3, <3>4, <3>6 DEF AddrInv
  <2> QED BY <2>4, <2>5
<1>12. CASE session_refused
  <2>1. PICK s \in Sessions : s = main.sess /\ s \in sess_list /\ main.pc = "cleanup"
    BY <1>0, <1>12 DEF session_refused
  <2>2. /\ smfIp' = (IF main.addr # NoAddr THEN [smfIp EXCEPT ![s] = NoAddr] ELSE smfIp)
        /\ main' = IdleMain /\ UNCHANGED <<sess_list, ipv4, ipv4_hash>>
    BY <1>12, <2>1 DEF session_refused
  <2>3. main'.addr = NoAddr /\ main'.sess = NoSess /\ main'.pc = "idle"
    BY <2>2 DEF IdleMain
  <2>4. CASE main.addr = NoAddr
    BY <2>2, <2>3, <2>4, AddrFrame DEF addrVars
  <2>5. CASE main.addr # NoAddr
    <3>1. AddrTypes'
      BY <2>2 DEF AddrTypes
    <3>2. \A u \in Sessions : /\ smfIp'[u] # NoAddr => u # s /\ smfIp'[u] = smfIp[u]
                              /\ smfIp[u] = NoAddr => smfIp'[u] = NoAddr
      BY <2>2, <2>5 DEF AddrTypes
    <3> QED BY <2>1, <2>2, <2>3, <3>1, <3>2 DEF AddrInv
  <2> QED BY <2>4, <2>5
<1>13. CASE pfcp_restoration
  <2>1. /\ main.pc = "idle" /\ smfIp' = [s \in Sessions |-> NoAddr]
        /\ main' = [IdleMain EXCEPT !.pc = "restore"]
        /\ UNCHANGED <<sess_list, ipv4, ipv4_hash>>
    BY <1>13 DEF pfcp_restoration, MainIdle, sessVars
  <2>2. main'.addr = NoAddr
    BY <2>1 DEF IdleMain
  <2> QED BY <2>1, <2>2 DEF AddrTypes, AddrInv
<1>14. ASSUME NEW s \in Sessions, restoration_remove(s) PROVE P
  <2>1. /\ main.pc = "restore" /\ sess_remove(s) /\ smfIp' = smfIp
        /\ (main' = main \/ main' = IdleMain)
    BY <1>14 DEF restoration_remove
  <2>2. main'.addr = NoAddr /\ \A u \in Sessions : smfIp[u] = NoAddr
    BY <1>0, <2>1 DEF IdleMain, AddrInv
  <2> QED BY <1>0, <2>1, <2>2, AddrRemove
<1>15. ASSUME NEW a \in Addrs, NEW class \in {"flow", "other"}, tun_recv(a, class) PROVE P
  BY <1>15, AddrFrame DEF tun_recv, addrVars
<1>16. ASSUME NEW t \in Slots, NEW class \in Classes, gtpu_recv(t, class) PROVE P
  BY <1>16, AddrFrame DEF gtpu_recv, addrVars
<1>17. ASSUME NEW t \in Slots, uplink_find(t) PROVE P
  BY <1>17, AddrFrame DEF uplink_find, ulVars, addrVars
<1>18. ASSUME NEW class \in Classes, uplink_pick(class) PROVE P
  BY <1>18, AddrFrame DEF uplink_pick, ulVars, addrVars
<1>19. CASE uplink_use
  BY <1>19, AddrFrame DEF uplink_use, ulVars, addrVars
<1> QED
  BY <1>1, <1>2, <1>3, <1>4, <1>5, <1>6, <1>7, <1>8, <1>9, <1>10, <1>11, <1>12,
     <1>13, <1>14, <1>15, <1>16, <1>17, <1>18, <1>19 DEF Next

LEMMA AddrAlways == Spec => [](AddrTypes /\ AddrInv)
<1>1. Init => AddrTypes /\ AddrInv
  BY AddrInit
<1>2. RuleInv /\ (AddrTypes /\ AddrInv) /\ [Next]_vars => (AddrTypes /\ AddrInv)'
  BY AddrNext
<1> QED BY <1>1, <1>2, RuleAlways, PTL DEF Spec

(* A session the SMF has is found by its UE's address (upf_sess_set_ue_ip,  *)
(* upf_sess_remove), even when deletions were lost, requests were refused   *)
(* and the SMF gave the address of a forgotten session to another UE.       *)
THEOREM SessionLookup == Spec => []SessionFoundByAddress
<1>1. AddrInv /\ RuleInv => SessionFoundByAddress
  BY DEF AddrInv, SessionFoundByAddress, RuleInv, RuleTypes
<1> QED BY <1>1, AddrAlways, RuleAlways, PTL

-----------------------------------------------------------------------------
(* FARs, datagrams and buffers. *)

FarRec == [apply_action : {"none", "FORW", "BUFF"},
           dst_if : {"none", "UNKNOWN", "ACCESS", "CORE", "CP"}, addr : Ips,
           teid : Sessions \cup {NoSess}, gnode : Ips, buf : Seq(0 .. MaxPkts)]

(* A datagram that leaves through a tunnel of its own session, and to the   *)
(* SMF only if it was a router solicitation's PDR that took it.             *)
OwnDatagrams ==
  {d \in [sess : Sessions, pdr : PdrIds, to : Ips, teid : Sessions \cup {NoSess}, pkt : Nat] :
     d.teid = d.sess /\ (d.to = Smf <=> d.pdr = "up2cp")}

PathTypes ==
  /\ far \in [Sessions -> [FarIds -> FarRec]]
  /\ \A s \in Sessions, f \in FarIds : Len(far[s][f].buf) <= MaxBuf
  /\ n3out \in Seq(OwnDatagrams)
  /\ reports \in [Sessions -> [FarIds -> Nat]]
  /\ idle \in [Sessions -> [FarIds -> BOOLEAN]]
  /\ lastSent \in [Sessions -> [FarIds -> Nat]]
  /\ pkts \in 0 .. MaxPkts

(* The MsQuic worker holds what its next step uses. *)
WorkerInv ==
  /\ ul \in [pc : {"idle", "pick", "use"}, teid : Slots \cup {NoSlot},
             sess : Sessions \cup {NoSess}, pdr : Slots \cup {NoSlot}]
  /\ ul.pc # "idle" => /\ ul.sess \in Sessions /\ ul.teid \in Slots
                       /\ transport_mode = "QUIC"
  /\ ul.pc = "use" => ul.pdr \in Slots
  /\ ub \in {"none", "assert", "stale"}

(* A FAR that is set up, but for its GTP node (PreFar), with it (GoodFar),  *)
(* and one of a request that has not been accepted yet.                     *)
FarFits(s, f, F) ==
  /\ F.addr # NoIp => F.teid = s
  /\ f \in DlFars => /\ F.dst_if = "ACCESS" /\ F.apply_action \in {"FORW", "BUFF"}
                     /\ F.addr \in Gnbs \cup {NoIp}
                     /\ F.apply_action = "FORW" => F.addr # NoIp
  /\ f = "cp" => F.dst_if = "CP" /\ F.apply_action = "FORW" /\ F.addr = Smf
  /\ f \in {"ul", "qul"} => F.dst_if = "CORE" /\ F.apply_action = "FORW" /\ F.addr = NoIp
PreFar(s, f, F) ==
  /\ FarFits(s, f, F)
  /\ F.addr = NoIp \/ transport_mode = "QUIC" => F.gnode = NoIp
GoodFar(s, f, F) ==
  /\ FarFits(s, f, F)
  /\ F.gnode = IF transport_mode = "QUIC" THEN NoIp ELSE F.addr
HalfFar(F) == /\ F.apply_action = "none" /\ F.dst_if = "UNKNOWN"
              /\ F.addr = NoIp /\ F.gnode = NoIp

Uses(s, f)  == \E p \in Rules(s) : pdr[p].far = f
Begun(s, f) == s = main.sess /\ \E p \in main.created : pdr[p].far = f

FarInv ==
  \A s \in Sessions, f \in FarIds :
    /\ ~Uses(s, f) => far[s][f] = NoFar
    /\ Uses(s, f) /\ Begun(s, f) => HalfFar(far[s][f])
    /\ Uses(s, f) /\ ~Begun(s, f) => GoodFar(s, f, far[s][f])

(* With GTP-U, packets wait only at FARs that are to buffer, and a FAR with *)
(* packets is one the SMF was told of, once.                                *)
PageOf(s, f, b) == /\ reports[s][f] = IF b # <<>> THEN 1 ELSE 0
                   /\ idle[s][f] <=> b # <<>>

(* What waits is newer than what was sent, and in order. *)
OrderOf(s, f, b) == /\ \A i \in 1 .. Len(b) : lastSent[s][f] < b[i] /\ b[i] <= pkts
                    /\ \A i, j \in 1 .. Len(b) : i < j => b[i] < b[j]

BufferInv ==
  transport_mode = "GTPU" =>
    \A s \in Sessions, f \in DlFars :
      /\ PageOf(s, f, far[s][f].buf)
      /\ OrderOf(s, f, far[s][f].buf)
      /\ lastSent[s][f] <= pkts
      /\ far[s][f].buf # <<>> => far[s][f].apply_action = "BUFF"

PathInv == PathTypes /\ WorkerInv /\ FarInv /\ BufferInv

-----------------------------------------------------------------------------
(* A FAR that is given another buffer. *)
LEMMA WithBuffer ==
  ASSUME NEW F \in FarRec, NEW b \in Seq(0 .. MaxPkts)
  PROVE  [F EXCEPT !.buf = b] \in FarRec
<1> DEFINE A == {"none", "FORW", "BUFF"}
           D == {"none", "UNKNOWN", "ACCESS", "CORE", "CP"}
           I == Ips
           T == Sessions \cup {NoSess}
           B == Seq(0 .. MaxPkts)
           R == [apply_action : A, dst_if : D, addr : I, teid : T, gnode : I, buf : B]
<1>1. F \in R /\ b \in B
  BY DEF FarRec
<1> HIDE DEF A, D, I, T, B
<1>2. [F EXCEPT !.buf = b] \in R
  BY <1>1
<1> QED BY <1>2 DEF A, D, I, T, B, FarRec

LEMMA FarFacts ==
  /\ NoFar \in FarRec /\ ZeroFar \in FarRec /\ HalfFar(ZeroFar)
  /\ NoFar.buf = <<>> /\ ZeroFar.buf = <<>> /\ NoFar.apply_action = "none"
  /\ NoFar.addr = NoIp /\ NoFar.gnode = NoIp /\ NoFar.dst_if = "none"
  /\ DlFars \subseteq FarIds /\ Smf \notin Gnbs /\ NoIp \notin Gnbs /\ NoIp # Smf
  /\ Gnbs \subseteq Ips /\ Smf \in Ips /\ NoIp \in Ips
  /\ Len(<<>>) = 0 /\ <<>> \in Seq(OwnDatagrams) /\ <<>> \in Seq(0 .. MaxPkts)
  /\ MaxBuf \in Nat \ {0} /\ MaxPkts \in Nat
<1>1. /\ DlFars \subseteq FarIds /\ Smf \notin Gnbs /\ NoIp \notin Gnbs /\ NoIp # Smf
      /\ Gnbs \subseteq Ips /\ Smf \in Ips /\ NoIp \in Ips
      /\ MaxBuf \in Nat \ {0} /\ MaxPkts \in Nat
  BY ConstAssumption DEF DlFars, FarIds, Ips
<1>2. Len(<<>>) = 0 /\ <<>> \in Seq(OwnDatagrams) /\ <<>> \in Seq(0 .. MaxPkts)
  BY EmptySeq
<1>3. /\ NoFar \in FarRec /\ NoFar.buf = <<>> /\ NoFar.apply_action = "none"
      /\ NoFar.addr = NoIp /\ NoFar.gnode = NoIp /\ NoFar.dst_if = "none"
  BY <1>1, <1>2 DEF NoFar, FarRec
<1>4. ZeroFar \in FarRec /\ ZeroFar.buf = <<>> /\ HalfFar(ZeroFar)
  BY <1>3 DEF ZeroFar, FarRec, HalfFar
<1> QED BY <1>1, <1>2, <1>3, <1>4

LEMMA PathInit == Init => PathInv
<1> SUFFICES ASSUME Init PROVE PathInv
  OBVIOUS
<1>1. \A s \in Sessions : Rules(s) = {}
  BY EmptyFacts DEF Init, Rules
<1>2. \A s \in Sessions, f \in FarIds :
        far[s][f] = NoFar /\ reports[s][f] = 0 /\ idle[s][f] = FALSE /\ lastSent[s][f] = 0
  BY DEF Init
<1>3. PathTypes
  <2>1. far \in [Sessions -> [FarIds -> FarRec]]
    BY FarFacts DEF Init
  <2>2. \A s \in Sessions, f \in FarIds : Len(far[s][f].buf) <= MaxBuf
    BY <1>2, FarFacts
  <2> QED BY <2>1, <2>2, FarFacts DEF PathTypes, Init
<1>4. WorkerInv
  BY DEF WorkerInv, Init, IdleUl
<1>5. FarInv
  BY <1>1, <1>2 DEF FarInv, Uses
<1>6. BufferInv
  <2>1. pkts = 0 /\ DlFars \subseteq FarIds
    BY FarFacts DEF Init
  <2>2. \A s \in Sessions, f \in DlFars : far[s][f].buf = <<>>
    BY <1>2, <2>1, FarFacts
  <2> QED BY <1>2, <2>1, <2>2, FarFacts DEF BufferInv, PageOf, OrderOf
<1> QED BY <1>3, <1>4, <1>5, <1>6 DEF PathInv

(* A datagram of a FAR that has a GTP node. *)
LEMMA DatagramOk ==
  ASSUME NEW s \in Sessions, NEW f \in FarIds, NEW F \in FarRec, FarFits(s, f, F),
         F.gnode = F.addr, F.gnode # NoIp, NEW id \in PdrIds, f = "cp" <=> id = "up2cp",
         NEW pkt \in Nat
  PROVE  Datagram(F, s, id, pkt) \in OwnDatagrams
<1>1. f \in DlFars \/ f = "cp"
  BY DEF FarFits, FarIds, DlFars
<1>2. F.teid = s /\ F.gnode \in Ips
  BY DEF FarFits, FarRec
<1>3. F.gnode = Smf <=> f = "cp"
  BY <1>1, FarFacts DEF FarFits, DlFars
<1> QED BY <1>2, <1>3 DEF Datagram, OwnDatagrams

(* The end of a PFCP request: what FARs, datagrams and histories are then.  *)
LEMMA FinishPath ==
  ASSUME PathTypes, RuleTypes, NEW s \in Sessions, NEW fars \in [FarIds -> FarRec],
         NEW extra \in Seq(OwnDatagrams),
         \A f \in FarIds : Len(fars[f].buf) <= MaxBuf,
         \A f \in FarIds : fars[f] = NoFar \/ PreFar(s, f, fars[f]),
         finish_request(s, fars, extra)
  PROVE  /\ far' \in [Sessions -> [FarIds -> FarRec]]
         /\ n3out' \in Seq(OwnDatagrams)
         /\ reports' \in [Sessions -> [FarIds -> Nat]]
         /\ idle' \in [Sessions -> [FarIds -> BOOLEAN]]
         /\ lastSent' \in [Sessions -> [FarIds -> Nat]]
         /\ \A u \in Sessions, f \in FarIds : Len(far'[u][f].buf) <= MaxBuf
         /\ \A u \in Sessions \ {s} :
              /\ far'[u] = far[u] /\ reports'[u] = reports[u]
              /\ idle'[u] = idle[u] /\ lastSent'[u] = lastSent[u]
         /\ \A f \in FarIds :
              /\ fars[f] = NoFar => far'[s][f] = NoFar
              /\ PreFar(s, f, fars[f]) => GoodFar(s, f, far'[s][f])
              /\ far'[s][f].apply_action = fars[f].apply_action
         /\ transport_mode = "GTPU" => \A f \in DlFars :
              IF fars[f].apply_action = "BUFF"
                THEN /\ far'[s][f].buf = fars[f].buf /\ reports'[s][f] = reports[s][f]
                     /\ idle'[s][f] = idle[s][f] /\ lastSent'[s][f] = lastSent[s][f]
                ELSE /\ far'[s][f].buf = <<>> /\ reports'[s][f] = 0 /\ ~idle'[s][f]
                     /\ lastSent'[s][f] \in {lastSent[s][f], Last(fars[f].buf)}
                     /\ fars[f].buf = <<>> => lastSent'[s][f] = lastSent[s][f]
<1> DEFINE nodes == setup_gtpu_nodes(fars)
           F == Flushes(nodes)
           sent(f) == IF f \in F
                        THEN [i \in DOMAIN nodes[f].buf |->
                                Datagram(nodes[f], s, f, nodes[f].buf[i])]
                        ELSE <<>>
<1>1. /\ far' = [far EXCEPT ![s] =
                   [f \in FarIds |-> IF f \in F THEN [nodes[f] EXCEPT !.buf = <<>>]
                                     ELSE nodes[f]]]
      /\ n3out' = (extra \o sent("qdl")) \o sent("dl")
      /\ lastSent' = [lastSent EXCEPT ![s] =
                        [f \in FarIds |-> IF f \in F THEN Last(nodes[f].buf)
                                          ELSE lastSent[s][f]]]
      /\ reports' = [reports EXCEPT ![s] =
                       [f \in FarIds |-> IF nodes[f].apply_action = "BUFF"
                                         THEN reports[s][f] ELSE 0]]
      /\ idle' = [idle EXCEPT ![s] =
                    [f \in FarIds |-> idle[s][f] /\ nodes[f].apply_action = "BUFF"]]
  BY DEF finish_request, PathTypes
<1>2. ASSUME NEW f \in FarIds
      PROVE  /\ nodes[f] \in FarRec /\ nodes[f].buf = fars[f].buf
             /\ nodes[f].apply_action = fars[f].apply_action
             /\ fars[f] = NoFar => nodes[f] = NoFar
             /\ PreFar(s, f, fars[f]) => GoodFar(s, f, nodes[f])
  <2>1. fars[f] \in FarRec
    OBVIOUS
  <2>2. CASE transport_mode = "QUIC" \/ fars[f].addr = NoIp
    <3>1. nodes[f] = fars[f]
      BY <2>2 DEF setup_gtpu_nodes
    <3> QED BY <2>1, <2>2, <3>1 DEF PreFar, GoodFar
  <2>3. CASE ~(transport_mode = "QUIC" \/ fars[f].addr = NoIp)
    <3>1. nodes[f] = [fars[f] EXCEPT !.gnode = fars[f].addr]
      BY <2>3 DEF setup_gtpu_nodes
    <3>2. /\ nodes[f] \in FarRec /\ nodes[f].gnode = fars[f].addr
          /\ nodes[f].buf = fars[f].buf /\ nodes[f].apply_action = fars[f].apply_action
          /\ nodes[f].addr = fars[f].addr /\ nodes[f].teid = fars[f].teid
          /\ nodes[f].dst_if = fars[f].dst_if
      BY <2>1, <3>1 DEF FarRec
    <3>3. fars[f] # NoFar
      BY <2>3, FarFacts
    <3> QED BY <2>3, <3>2, <3>3 DEF PreFar, GoodFar, FarFits
  <2> QED BY <2>2, <2>3
<1> HIDE DEF nodes
<1>3. /\ F \subseteq DlFars
      /\ \A f \in F : /\ nodes[f].gnode # NoIp /\ nodes[f].apply_action = "FORW"
                      /\ nodes[f].buf # <<>> /\ GoodFar(s, f, nodes[f])
                      /\ transport_mode # "QUIC" /\ nodes[f].gnode = nodes[f].addr
  <2>1. F \subseteq DlFars /\ \A f \in F : nodes[f].gnode # NoIp
           /\ nodes[f].apply_action = "FORW" /\ nodes[f].buf # <<>>
    BY DEF Flushes
  <2>2. ASSUME NEW f \in F PROVE GoodFar(s, f, nodes[f])
    <3>1. f \in FarIds
      BY <2>1, FarFacts
    <3>2. fars[f] # NoFar
      BY <1>2, <2>1, <3>1, FarFacts
    <3> QED BY <1>2, <3>1, <3>2
  <2> QED BY <2>1, <2>2 DEF GoodFar
<1>4. \A f \in {"dl", "qdl"} : sent(f) \in Seq(OwnDatagrams)
  <2>1. ASSUME NEW f \in {"dl", "qdl"}, f \in F PROVE sent(f) \in Seq(OwnDatagrams)
    <3>0. f \in FarIds /\ f \in PdrIds /\ f # "cp" /\ f # "up2cp"
      BY DEF FarIds, PdrIds, SessionPdrs, FlowPdrs
    <3>1. nodes[f] \in FarRec /\ GoodFar(s, f, nodes[f]) /\ nodes[f].buf \in Seq(0 .. MaxPkts)
      BY <1>2, <1>3, <2>1, <3>0 DEF FarRec
    <3>2. \A i \in 1 .. Len(nodes[f].buf) : nodes[f].buf[i] \in Nat
      BY <3>1, FarFacts
    <3>3. \A i \in 1 .. Len(nodes[f].buf) :
             Datagram(nodes[f], s, f, nodes[f].buf[i]) \in OwnDatagrams
      BY <1>3, <2>1, <3>0, <3>1, <3>2, DatagramOk DEF GoodFar
    <3>4. DOMAIN nodes[f].buf = 1 .. Len(nodes[f].buf) /\ Len(nodes[f].buf) \in Nat
      BY <3>1
    <3> DEFINE t == [i \in 1 .. Len(nodes[f].buf) |-> Datagram(nodes[f], s, f, nodes[f].buf[i])]
    <3>5. t \in Seq(OwnDatagrams)
      BY <3>3, <3>4, IsASeq
    <3> QED BY <2>1, <3>4, <3>5
  <2> QED BY <2>1, FarFacts
<1>5. n3out' \in Seq(OwnDatagrams)
  <2>1. sent("dl") \in Seq(OwnDatagrams) /\ sent("qdl") \in Seq(OwnDatagrams)
    BY <1>4
  <2> HIDE DEF sent
  <2>2. extra \o sent("qdl") \in Seq(OwnDatagrams)
    BY <2>1
  <2> QED BY <1>1, <2>1, <2>2
<1> HIDE DEF F, sent
<1>6. \A u \in Sessions \ {s} :
        /\ far'[u] = far[u] /\ reports'[u] = reports[u]
        /\ idle'[u] = idle[u] /\ lastSent'[u] = lastSent[u]
  BY <1>1 DEF PathTypes
<1>7. \A f \in FarIds :
        /\ far'[s][f] = (IF f \in F THEN [nodes[f] EXCEPT !.buf = <<>>] ELSE nodes[f])
        /\ lastSent'[s][f] = (IF f \in F THEN Last(nodes[f].buf) ELSE lastSent[s][f])
        /\ reports'[s][f] = (IF nodes[f].apply_action = "BUFF" THEN reports[s][f] ELSE 0)
        /\ idle'[s][f] = (idle[s][f] /\ nodes[f].apply_action = "BUFF")
  BY <1>1 DEF PathTypes
<1>8. \A f \in FarIds :
        /\ far'[s][f] \in FarRec /\ Len(far'[s][f].buf) <= MaxBuf
        /\ far'[s][f].apply_action = fars[f].apply_action
        /\ fars[f] = NoFar => far'[s][f] = NoFar
        /\ PreFar(s, f, fars[f]) => GoodFar(s, f, far'[s][f])
        /\ far'[s][f].buf = IF f \in F THEN <<>> ELSE fars[f].buf
  <2>1. ASSUME NEW f \in FarIds, f \in F
        PROVE  /\ far'[s][f] \in FarRec /\ far'[s][f].buf = <<>>
               /\ far'[s][f].apply_action = fars[f].apply_action
               /\ fars[f] # NoFar
               /\ GoodFar(s, f, far'[s][f])
    <3>1. far'[s][f] = [nodes[f] EXCEPT !.buf = <<>>] /\ nodes[f] \in FarRec
      BY <1>2, <1>7, <2>1
    <3>2. /\ far'[s][f] \in FarRec /\ far'[s][f].buf = <<>>
          /\ far'[s][f].apply_action = nodes[f].apply_action
          /\ far'[s][f].addr = nodes[f].addr /\ far'[s][f].teid = nodes[f].teid
          /\ far'[s][f].dst_if = nodes[f].dst_if /\ far'[s][f].gnode = nodes[f].gnode
      BY <3>1, FarFacts DEF FarRec
    <3>3. fars[f] # NoFar
      BY <1>2, <1>3, <2>1, FarFacts
    <3> QED BY <1>2, <1>3, <2>1, <3>2, <3>3 DEF GoodFar, FarFits
  <2>2. ASSUME NEW f \in FarIds, f \notin F PROVE far'[s][f] = nodes[f]
    BY <1>7, <2>2
  <2> QED BY <1>2, <2>1, <2>2, FarFacts
<1>9. /\ far' \in [Sessions -> [FarIds -> FarRec]]
      /\ \A u \in Sessions, f \in FarIds : Len(far'[u][f].buf) <= MaxBuf
  <2>1. far'[s] \in [FarIds -> FarRec]
    <3>1. far'[s] = [f \in FarIds |-> IF f \in F THEN [nodes[f] EXCEPT !.buf = <<>>] ELSE nodes[f]]
      BY <1>1 DEF PathTypes
    <3> QED BY <1>7, <1>8, <3>1
  <2>2. DOMAIN far' = Sessions /\ far' = [u \in Sessions |-> far'[u]]
    BY <1>1 DEF PathTypes
  <2>3. \A u \in Sessions : far'[u] \in [FarIds -> FarRec]
    BY <1>6, <2>1 DEF PathTypes
  <2> QED BY <1>6, <1>8, <2>2, <2>3 DEF PathTypes
<1>10. /\ reports' \in [Sessions -> [FarIds -> Nat]]
       /\ idle' \in [Sessions -> [FarIds -> BOOLEAN]]
  <2>1. [f \in FarIds |-> IF nodes[f].apply_action = "BUFF" THEN reports[s][f] ELSE 0]
          \in [FarIds -> Nat]
    BY DEF PathTypes
  <2>2. [f \in FarIds |-> idle[s][f] /\ nodes[f].apply_action = "BUFF"] \in [FarIds -> BOOLEAN]
    OBVIOUS
  <2> QED BY <1>1, <2>1, <2>2 DEF PathTypes
<1>11. lastSent' \in [Sessions -> [FarIds -> Nat]]
  <2>1. ASSUME NEW f \in F PROVE Last(nodes[f].buf) \in Nat
    <3>1. nodes[f].buf \in Seq(0 .. MaxPkts) /\ nodes[f].buf # <<>>
      BY <1>2, <1>3, FarFacts DEF FarRec
    <3>2. Len(nodes[f].buf) \in 1 .. Len(nodes[f].buf)
      BY <3>1
    <3>3. nodes[f].buf[Len(nodes[f].buf)] \in Nat
      BY <3>1, <3>2, FarFacts
    <3> QED BY <3>3 DEF Last
  <2>2. [f \in FarIds |-> IF f \in F THEN Last(nodes[f].buf) ELSE lastSent[s][f]]
          \in [FarIds -> Nat]
    BY <2>1 DEF PathTypes
  <2> QED BY <1>1, <2>2 DEF PathTypes
<1>12. ASSUME transport_mode = "GTPU", NEW f \in DlFars
       PROVE  IF fars[f].apply_action = "BUFF"
                THEN /\ far'[s][f].buf = fars[f].buf /\ reports'[s][f] = reports[s][f]
                     /\ idle'[s][f] = idle[s][f] /\ lastSent'[s][f] = lastSent[s][f]
                ELSE /\ far'[s][f].buf = <<>> /\ reports'[s][f] = 0 /\ ~idle'[s][f]
                     /\ lastSent'[s][f] \in {lastSent[s][f], Last(fars[f].buf)}
                     /\ fars[f].buf = <<>> => lastSent'[s][f] = lastSent[s][f]
  <2>0. f \in FarIds /\ idle[s][f] \in BOOLEAN
    BY FarFacts DEF PathTypes
  <2>1. CASE fars[f].apply_action = "BUFF"
    <3>1. f \notin F /\ nodes[f].apply_action = "BUFF"
      BY <1>2, <1>3, <2>0, <2>1
    <3> QED BY <1>7, <1>8, <2>0, <2>1, <3>1
  <2>2. CASE fars[f].apply_action # "BUFF"
    <3>1. nodes[f].apply_action # "BUFF" /\ nodes[f].buf = fars[f].buf
      BY <1>2, <2>0, <2>2
    <3>2. fars[f].buf # <<>> => f \in F
      <4>1. SUFFICES ASSUME fars[f].buf # <<>> PROVE f \in F
        OBVIOUS
      <4>2. GoodFar(s, f, nodes[f])
        BY <1>2, <2>0, <4>1, FarFacts
      <4>3. nodes[f].apply_action = "FORW" /\ nodes[f].gnode # NoIp
        BY <1>12, <3>1, <4>2 DEF GoodFar, FarFits
      <4> QED BY <1>12, <3>1, <4>1, <4>3 DEF F, Flushes
    <3>3. far'[s][f].buf = <<>>
      BY <1>8, <2>0, <3>2
    <3>4. fars[f].buf = <<>> => f \notin F
      BY <1>3, <3>1
    <3>5. reports'[s][f] = 0 /\ ~idle'[s][f]
      BY <1>7, <2>0, <3>1
    <3>6. lastSent'[s][f] \in {lastSent[s][f], Last(fars[f].buf)}
          /\ (fars[f].buf = <<>> => lastSent'[s][f] = lastSent[s][f])
      BY <1>7, <2>0, <3>1, <3>4
    <3> QED BY <2>2, <3>3, <3>5, <3>6
  <2> QED BY <2>1, <2>2
<1> QED BY <1>5, <1>6, <1>8, <1>9, <1>10, <1>11, <1>12

(* A request of session s that ends with FARs that fit its rules. *)
LEMMA FinishInv ==
  ASSUME RuleInv, PathInv, NEW s \in Sessions, NEW fars \in [FarIds -> FarRec],
         NEW extra \in Seq(OwnDatagrams), finish_request(s, fars, extra),
         UNCHANGED <<transport_mode, ul, ub, pkts>>,
         main.sess \in {NoSess, s}, main'.sess = NoSess,
         \A u \in Sessions \ {s}, f \in FarIds : Uses(u, f)' <=> Uses(u, f),
         \A f \in FarIds : IF Uses(s, f)' THEN PreFar(s, f, fars[f]) ELSE fars[f] = NoFar,
         \A f \in FarIds : fars[f] = NoFar \/ fars[f].buf = far[s][f].buf
  PROVE  PathInv'
<1> USE DEF PathInv
<1>0. NoSess \notin Sessions /\ RuleTypes
  BY ConstAssumption DEF RuleInv
<1>1. \A f \in FarIds : Len(fars[f].buf) <= MaxBuf /\ (fars[f] = NoFar \/ PreFar(s, f, fars[f]))
  <2>1. ASSUME NEW f \in FarIds PROVE Len(fars[f].buf) <= MaxBuf
    <3>1. CASE fars[f] = NoFar
      BY <3>1, FarFacts
    <3>2. CASE fars[f].buf = far[s][f].buf
      BY <3>2 DEF PathTypes
    <3> QED BY <3>1, <3>2
  <2>2. \A f \in FarIds : fars[f] = NoFar \/ PreFar(s, f, fars[f])
    OBVIOUS
  <2> QED BY <2>1, <2>2
<1>2. /\ far' \in [Sessions -> [FarIds -> FarRec]]
      /\ n3out' \in Seq(OwnDatagrams)
      /\ reports' \in [Sessions -> [FarIds -> Nat]]
      /\ idle' \in [Sessions -> [FarIds -> BOOLEAN]]
      /\ lastSent' \in [Sessions -> [FarIds -> Nat]]
      /\ \A u \in Sessions, f \in FarIds : Len(far'[u][f].buf) <= MaxBuf
  BY <1>0, <1>1, FinishPath
<1>3. \A u \in Sessions \ {s} :
        /\ far'[u] = far[u] /\ reports'[u] = reports[u]
        /\ idle'[u] = idle[u] /\ lastSent'[u] = lastSent[u]
  BY <1>0, <1>1, FinishPath
<1>4. \A f \in FarIds :
        /\ fars[f] = NoFar => far'[s][f] = NoFar
        /\ PreFar(s, f, fars[f]) => GoodFar(s, f, far'[s][f])
        /\ far'[s][f].apply_action = fars[f].apply_action
  BY <1>0, <1>1, FinishPath
<1>5. transport_mode = "GTPU" => \A f \in DlFars :
        IF fars[f].apply_action = "BUFF"
          THEN /\ far'[s][f].buf = fars[f].buf /\ reports'[s][f] = reports[s][f]
               /\ idle'[s][f] = idle[s][f] /\ lastSent'[s][f] = lastSent[s][f]
          ELSE /\ far'[s][f].buf = <<>> /\ reports'[s][f] = 0 /\ ~idle'[s][f]
               /\ lastSent'[s][f] \in {lastSent[s][f], Last(fars[f].buf)}
               /\ fars[f].buf = <<>> => lastSent'[s][f] = lastSent[s][f]
  BY <1>0, <1>1, FinishPath
<1>6. PathTypes'
  BY <1>2 DEF PathTypes
<1>7. WorkerInv'
  BY DEF WorkerInv
<1>8. FarInv'
  <2>1. ASSUME NEW u \in Sessions \ {s}, NEW f \in FarIds
        PROVE  /\ ~Uses(u, f)' => far'[u][f] = NoFar
               /\ Uses(u, f)' => GoodFar(u, f, far[u][f])'
    <3>1. ~Begun(u, f)
      BY <1>0, <2>1 DEF Begun
    <3>2. GoodFar(u, f, far[u][f]) => GoodFar(u, f, far[u][f])'
      BY <1>3, <2>1 DEF GoodFar, FarFits
    <3> QED BY <1>3, <2>1, <3>1, <3>2 DEF FarInv
  <2>2. ASSUME NEW f \in FarIds
        PROVE  /\ ~Uses(s, f)' => far'[s][f] = NoFar
               /\ Uses(s, f)' => GoodFar(s, f, far[s][f])'
    <3>1. GoodFar(s, f, far'[s][f]) => GoodFar(s, f, far[s][f])'
      BY DEF GoodFar, FarFits
    <3> QED BY <1>4, <2>2, <3>1
  <2>3. \A u \in Sessions, f \in FarIds : ~Begun(u, f)'
    BY <1>0 DEF Begun
  <2> QED BY <2>1, <2>2, <2>3 DEF FarInv
<1>9. BufferInv'
  <2>1. SUFFICES ASSUME transport_mode = "GTPU", NEW u \in Sessions, NEW f \in DlFars
                 PROVE  /\ PageOf(u, f, far[u][f].buf)' /\ OrderOf(u, f, far[u][f].buf)'
                        /\ lastSent'[u][f] <= pkts'
                        /\ far'[u][f].buf # <<>> => far'[u][f].apply_action = "BUFF"
    BY DEF BufferInv
  <2>2. /\ PageOf(u, f, far[u][f].buf) /\ OrderOf(u, f, far[u][f].buf)
        /\ lastSent[u][f] <= pkts /\ f \in FarIds
        /\ far[u][f].buf # <<>> => far[u][f].apply_action = "BUFF"
    BY <2>1, FarFacts DEF BufferInv
  <2>3. CASE u # s
    BY <1>3, <2>2, <2>3 DEF PageOf, OrderOf
  <2>4. CASE u = s /\ fars[f].apply_action = "BUFF"
    <3>1. fars[f].buf = far[s][f].buf
      BY <2>2, <2>4, FarFacts
    <3>2. /\ far'[s][f].buf = far[s][f].buf /\ reports'[s][f] = reports[s][f]
          /\ idle'[s][f] = idle[s][f] /\ lastSent'[s][f] = lastSent[s][f]
          /\ far'[s][f].apply_action = "BUFF"
      BY <1>4, <1>5, <2>1, <2>2, <2>4, <3>1
    <3> QED BY <2>2, <2>4, <3>2 DEF PageOf, OrderOf
  <2>5. CASE u = s /\ fars[f].apply_action # "BUFF"
    <3>1. /\ far'[s][f].buf = <<>> /\ reports'[s][f] = 0 /\ ~idle'[s][f]
          /\ lastSent'[s][f] \in {lastSent[s][f], Last(fars[f].buf)}
          /\ fars[f].buf = <<>> => lastSent'[s][f] = lastSent[s][f]
      BY <1>5, <2>1, <2>5
    <3>2. fars[f].buf # <<>> => Last(fars[f].buf) <= pkts
      <4>1. SUFFICES ASSUME fars[f].buf # <<>> PROVE Last(fars[f].buf) <= pkts
        OBVIOUS
      <4>2. fars[f].buf = far[s][f].buf /\ fars[f].buf \in Seq(0 .. MaxPkts)
        BY <2>2, <4>1, FarFacts DEF FarRec
      <4>3. Len(fars[f].buf) \in 1 .. Len(fars[f].buf)
        BY <4>1, <4>2
      <4> QED BY <2>2, <2>5, <4>2, <4>3 DEF OrderOf, Last
    <3>3. lastSent'[s][f] <= pkts'
      BY <2>2, <2>5, <3>1, <3>2
    <3> QED BY <2>5, <3>1, <3>3, FarFacts DEF PageOf, OrderOf
  <2> QED BY <2>3, <2>4, <2>5
<1> QED BY <1>6, <1>7, <1>8, <1>9

(* What the rules say of the FARs a session uses. *)
LEMMA UsesIdle ==
  ASSUME RuleInv, NEW s \in Sessions, main.sess # s
  PROVE  /\ pdr_list[s] = <<>> => \A f \in FarIds : ~Uses(s, f)
         /\ pdr_list[s] # <<>> => Uses(s, "dl") /\ Uses(s, "ul") /\ Uses(s, "cp")
         /\ Uses(s, "qdl") <=> HasFlow(s)
         /\ Uses(s, "qul") <=> HasFlow(s)
         /\ \A f \in FarIds : ~Begun(s, f)
<1> USE DEF RuleInv
<1>1. \A p \in Rules(s) : pdr[p].id \in PdrIds /\ pdr[p].far = FarOf(pdr[p].id)
  BY DEF IdInv, Fresh
<1>2. pdr_list[s] = <<>> => Rules(s) = {}
  BY ListFacts
<1>3. /\ pdr_list[s] # <<>> => HasId(s, "dl") /\ HasId(s, "ul") /\ HasId(s, "up2cp")
      /\ HasId(s, "qdl") <=> HasId(s, "qul")
  BY DEF IdInv, SessionPdrs
<1>4. HasFlow(s) <=> HasId(s, "qul")
  BY DEF HasFlow, HasId, Rules
<1>5. \A id \in PdrIds : /\ FarOf(id) = "qdl" <=> id = "qdl"
                         /\ FarOf(id) = "qul" <=> id = "qul"
                         /\ id = "dl" => FarOf(id) = "dl"
                         /\ id = "ul" => FarOf(id) = "ul"
                         /\ id = "up2cp" => FarOf(id) = "cp"
  BY DEF FarOf, PdrIds, SessionPdrs, FlowPdrs
<1>6. /\ Uses(s, "qdl") <=> HasId(s, "qdl")
      /\ Uses(s, "qul") <=> HasId(s, "qul")
  BY <1>1, <1>5 DEF Uses, HasId
<1>7. /\ HasId(s, "dl") => Uses(s, "dl")
      /\ HasId(s, "ul") => Uses(s, "ul")
      /\ HasId(s, "up2cp") => Uses(s, "cp")
  BY <1>1, <1>5 DEF Uses, HasId
<1> QED BY <1>2, <1>3, <1>4, <1>6, <1>7 DEF Uses, Begun

-----------------------------------------------------------------------------
(* Steps that leave FARs, buffers and the worker alone. *)

LEMMA PathFrame ==
  ASSUME PathInv, UNCHANGED <<transport_mode, far, histVars, pkts>>,
         n3out' \in {n3out, <<>>}, WorkerInv',
         \A s \in Sessions, f \in FarIds : Uses(s, f)' <=> Uses(s, f),
         \A s \in Sessions, f \in FarIds : Uses(s, f) => (Begun(s, f)' <=> Begun(s, f))
  PROVE  PathInv'
<1> USE DEF PathInv
<1>1. PathTypes'
  BY FarFacts DEF PathTypes, histVars
<1>2. FarInv'
  BY DEF FarInv, GoodFar, FarFits, HalfFar
<1>3. BufferInv'
  BY DEF BufferInv, PageOf, OrderOf, histVars
<1> QED BY <1>1, <1>2, <1>3

(* The start of a request and steps that change no rule. *)
LEMMA StartPath ==
  ASSUME RuleInv, PathInv, UNCHANGED <<transport_mode, pdr, pdr_list, far, histVars, pkts, ul, ub>>,
         n3out' \in {n3out, <<>>},
         \/ main' = main
         \/ main.sess = NoSess /\ main'.created = {}
  PROVE  PathInv'
<1>1. \A s \in Sessions, f \in FarIds : Uses(s, f)' <=> Uses(s, f)
  BY DEF Uses, Rules
<1>2. \A s \in Sessions, f \in FarIds : Begun(s, f)' <=> Begun(s, f)
  BY ConstAssumption DEF Begun
<1>3. WorkerInv'
  BY DEF PathInv, WorkerInv
<1> QED BY <1>1, <1>2, <1>3, PathFrame

LEMMA AddPath ==
  ASSUME RuleInv, PathInv, pdr_add
  PROVE  PathInv'
<1> USE DEF RuleInv
<1>1. /\ main.pc = "add" /\ UNCHANGED <<transport_mode, far, histVars, pkts, ul, ub, n3out>>
  BY DEF pdr_add
<1>2. PICK s \in Sessions : s = main.sess /\ main.created \subseteq Rules(s)
  BY <1>1 DEF MainInv, RuleTypes
<1>3. CASE pdr_pool = <<>>
  <2>1. main' = [main EXCEPT !.pc = "cleanup"] /\ UNCHANGED <<pdr, pdr_list>>
    BY <1>3 DEF pdr_add
  <2>2. main'.sess = main.sess /\ main'.created = main.created
    BY <2>1 DEF RuleTypes
  <2>3. \A u \in Sessions, f \in FarIds : (Uses(u, f)' <=> Uses(u, f)) /\ (Begun(u, f)' <=> Begun(u, f))
    BY <2>1, <2>2 DEF Uses, Rules, Begun
  <2> QED BY <1>1, <2>3, PathFrame DEF PathInv, WorkerInv
<1>4. CASE pdr_pool # <<>>
  <2>1. PICK p \in Slots : p = Head(pdr_pool) /\ p \in ToSet(pdr_pool)
    BY <1>4, TailFacts DEF RuleTypes, OwnInv
  <2>2. /\ pdr' = [pdr EXCEPT ![p] = ZeroPdr]
        /\ pdr_list' = [pdr_list EXCEPT ![s] = Append(pdr_list[s], p)]
        /\ main' = [main EXCEPT !.pc = "fill"]
    BY <1>2, <1>4, <2>1 DEF pdr_add, RuleTypes
  <2>3. main'.sess = main.sess /\ main'.created = main.created
    BY <2>2 DEF RuleTypes
  <2>4. /\ pdr'[p].far = "none" /\ "none" \notin FarIds
        /\ \A q \in Slots \ {p} : pdr'[q] = pdr[q]
    BY <2>2 DEF RuleTypes, ZeroPdr, FarIds
  <2>5. \A u \in Sessions : Rules(u) \subseteq Slots \ {p}
    BY <2>1, ListFacts DEF OwnInv
  <2>6. Rules(s)' = Rules(s) \cup {p} /\ \A u \in Sessions \ {s} : Rules(u)' = Rules(u)
    <3>1. pdr_list'[s] = Append(pdr_list[s], p) /\ pdr_list[s] \in Seq(Slots)
          /\ \A u \in Sessions \ {s} : pdr_list'[u] = pdr_list[u]
      BY <2>2 DEF RuleTypes
    <3>2. ToSet(Append(pdr_list[s], p)) = ToSet(pdr_list[s]) \cup {p}
      BY <3>1, AppendFacts
    <3> QED BY <3>1, <3>2 DEF Rules
  <2>7. \A u \in Sessions, f \in FarIds : Uses(u, f)' <=> Uses(u, f)
    <3>1. ASSUME NEW f \in FarIds PROVE Uses(s, f)' <=> Uses(s, f)
      BY <2>4, <2>5, <2>6 DEF Uses
    <3>2. ASSUME NEW u \in Sessions \ {s}, NEW f \in FarIds PROVE Uses(u, f)' <=> Uses(u, f)
      BY <2>4, <2>5, <2>6 DEF Uses
    <3> QED BY <3>1, <3>2
  <2>8. \A u \in Sessions, f \in FarIds : Begun(u, f)' <=> Begun(u, f)
    BY <1>2, <2>3, <2>4, <2>5 DEF Begun
  <2>9. WorkerInv'
    BY <1>1 DEF PathInv, WorkerInv
  <2> QED BY <1>1, <2>7, <2>8, <2>9, PathFrame
<1> QED BY <1>3, <1>4

-----------------------------------------------------------------------------
(* Rules that go. *)

LEMMA RemoveUses ==
  ASSUME RuleInv, NEW s \in Sessions, NEW rest, NEW gone, pdr_remove(s, rest, gone),
         ToSet(gone) \subseteq Rules(s)
  PROVE  \A u \in Sessions \ {s}, f \in FarIds : Uses(u, f)' <=> Uses(u, f)
<1> USE DEF RuleInv
<1>1. /\ pdr_list' = [pdr_list EXCEPT ![s] = rest]
      /\ pdr' = [p \in Slots |-> IF p \in ToSet(gone) THEN ZeroPdr ELSE pdr[p]]
  BY DEF pdr_remove
<1>2. ASSUME NEW u \in Sessions \ {s}, NEW p \in Rules(u) PROVE pdr'[p] = pdr[p]
  <2>1. p \in Slots /\ p \notin ToSet(gone)
    BY <1>2, ListFacts DEF OwnInv
  <2> QED BY <1>1, <2>1
<1>3. \A u \in Sessions \ {s} : Rules(u)' = Rules(u)
  BY <1>1 DEF RuleTypes, Rules
<1> QED BY <1>2, <1>3 DEF Uses

LEMMA ClearPath ==
  ASSUME RuleInv, PathInv, NEW s \in Sessions, sess_clear(s),
         UNCHANGED <<transport_mode, ul, ub, pkts>>, n3out' \in {n3out, <<>>},
         main.sess \in {NoSess, s}, main'.sess = NoSess
  PROVE  PathInv'
<1> USE DEF RuleInv, PathInv
<1>1. /\ pdr_remove(s, <<>>, pdr_list[s])
      /\ far' = [far EXCEPT ![s] = NoFars]
      /\ reports' = [reports EXCEPT ![s] = NoReports]
      /\ idle' = [idle EXCEPT ![s] = NotIdle]
      /\ lastSent' = [lastSent EXCEPT ![s] = NoReports]
  BY DEF sess_clear
<1>2. \A u \in Sessions \ {s}, f \in FarIds : Uses(u, f)' <=> Uses(u, f)
  BY <1>1, RemoveUses DEF Rules
<1>3. \A f \in FarIds : ~Uses(s, f)'
  <2>1. pdr_list'[s] = <<>>
    BY <1>1 DEF pdr_remove, RuleTypes
  <2> QED BY <2>1, EmptyFacts DEF Uses, Rules
<1>4. /\ \A u \in Sessions \ {s} : far'[u] = far[u] /\ reports'[u] = reports[u]
                                   /\ idle'[u] = idle[u] /\ lastSent'[u] = lastSent[u]
      /\ \A f \in FarIds : far'[s][f] = NoFar /\ reports'[s][f] = 0
                           /\ idle'[s][f] = FALSE /\ lastSent'[s][f] = 0
  BY <1>1 DEF PathTypes, NoFars, NoReports, NotIdle
<1>5. NoFars \in [FarIds -> FarRec] /\ NoReports \in [FarIds -> Nat]
      /\ NotIdle \in [FarIds -> BOOLEAN]
  BY FarFacts DEF NoFars, NoReports, NotIdle
<1>6. PathTypes'
  <2>1. ASSUME NEW u \in Sessions, NEW f \in FarIds PROVE Len(far'[u][f].buf) <= MaxBuf
    <3>1. CASE u = s
      <4>1. far'[u][f].buf = <<>>
        BY <1>4, <3>1, FarFacts
      <4> QED BY <4>1, FarFacts
    <3>2. CASE u # s
      BY <1>4, <3>2 DEF PathTypes
    <3> QED BY <3>1, <3>2
  <2> QED BY <1>1, <1>5, <2>1, FarFacts DEF PathTypes
<1>7. WorkerInv'
  BY DEF WorkerInv
<1>8. FarInv'
  <2>1. \A u \in Sessions, f \in FarIds : ~Begun(u, f)' /\ (u # s => ~Begun(u, f))
    BY ConstAssumption DEF Begun
  <2>2. ASSUME NEW u \in Sessions \ {s}, NEW f \in FarIds
        PROVE  /\ ~Uses(u, f)' => far'[u][f] = NoFar
               /\ Uses(u, f)' => GoodFar(u, f, far[u][f])'
    BY <1>2, <1>4, <2>1 DEF FarInv, GoodFar, FarFits
  <2> QED BY <1>3, <1>4, <2>1, <2>2 DEF FarInv
<1>9. BufferInv'
  <2>1. SUFFICES ASSUME transport_mode = "GTPU", NEW u \in Sessions, NEW f \in DlFars
                 PROVE  /\ PageOf(u, f, far[u][f].buf)' /\ OrderOf(u, f, far[u][f].buf)'
                        /\ lastSent'[u][f] <= pkts'
                        /\ far'[u][f].buf # <<>> => far'[u][f].apply_action = "BUFF"
    BY DEF BufferInv
  <2>2. CASE u # s
    <3>1. /\ PageOf(u, f, far[u][f].buf) /\ OrderOf(u, f, far[u][f].buf)
          /\ lastSent[u][f] <= pkts
          /\ far[u][f].buf # <<>> => far[u][f].apply_action = "BUFF"
      BY <2>1 DEF BufferInv
    <3> QED BY <1>4, <2>2, <3>1 DEF PageOf, OrderOf
  <2>3. CASE u = s
    <3>1. /\ far'[s][f].buf = <<>> /\ reports'[s][f] = 0 /\ idle'[s][f] = FALSE
          /\ lastSent'[s][f] = 0
      BY <1>4, FarFacts
    <3> QED BY <2>3, <3>1, FarFacts DEF PageOf, OrderOf, PathTypes
  <2> QED BY <2>2, <2>3
<1> QED BY <1>6, <1>7, <1>8, <1>9

-----------------------------------------------------------------------------
(* Requests that end by flushing what they may. *)

LEMMA AcceptPath ==
  ASSUME RuleInv, PathInv, session_accepted
  PROVE  PathInv'
<1> USE DEF RuleInv, PathInv
<1>1. PICK s \in Sessions : main.pc = "finish" /\ s = main.sess
                            /\ main.created \subseteq Rules(s)
  BY DEF session_accepted, MainInv, RuleTypes
<1> DEFINE C == {pdr[p].far : p \in main.created}
           new == [f \in FarIds |->
                     IF f \in C
                       THEN [far[s][f] EXCEPT
                               !.apply_action = NewFar(f, s).apply_action,
                               !.dst_if = NewFar(f, s).dst_if,
                               !.addr = NewFar(f, s).addr,
                               !.teid = NewFar(f, s).teid]
                       ELSE far[s][f]]
<1>2. /\ finish_request(s, new, <<>>) /\ main' = IdleMain
      /\ UNCHANGED <<transport_mode, pdr_list, ul, pkts, ub>>
  BY <1>1 DEF session_accepted
<1>3. \A p \in Slots : pdr'[p].far = pdr[p].far
  <2>1. \A p \in Slots : pdr'[p] = IF p \in main.created
                                     THEN [pdr[p] EXCEPT !.teid = chosen_teid(p, s)]
                                     ELSE pdr[p]
    BY <1>1 DEF session_accepted
  <2> QED BY <2>1 DEF RuleTypes, PdrRec
<1>4. \A u \in Sessions, f \in FarIds : Uses(u, f)' <=> Uses(u, f)
  <2>1. \A u \in Sessions : Rules(u)' = Rules(u) /\ Rules(u) \subseteq Slots
    BY <1>2, ListFacts DEF Rules
  <2> QED BY <1>3, <2>1 DEF Uses
<1>5. \A f \in FarIds : f \in C <=> Begun(s, f)
  BY <1>1 DEF Begun
<1>6. \A f \in C : Uses(s, f)
  BY <1>1 DEF Uses
<1> HIDE DEF C
<1>7. ASSUME NEW f \in FarIds
      PROVE  /\ new[f] \in FarRec /\ new[f].buf = far[s][f].buf
             /\ IF Uses(s, f) THEN PreFar(s, f, new[f]) ELSE new[f] = NoFar
  <2>1. far[s][f] \in FarRec
    BY DEF PathTypes
  <2>2. CASE f \in C
    <3>1. /\ NewFar(f, s).apply_action = (IF f \in DlFars THEN "BUFF" ELSE "FORW")
          /\ NewFar(f, s).dst_if = CASE f \in DlFars -> "ACCESS" [] f = "cp" -> "CP"
                                     [] OTHER -> "CORE"
          /\ NewFar(f, s).addr = (IF f = "cp" THEN Smf ELSE NoIp)
          /\ NewFar(f, s).teid = (IF f = "cp" THEN s ELSE NoSess)
      BY DEF NewFar
    <3>2. /\ NewFar(f, s).apply_action \in {"none", "FORW", "BUFF"}
          /\ NewFar(f, s).dst_if \in {"none", "UNKNOWN", "ACCESS", "CORE", "CP"}
          /\ NewFar(f, s).addr \in Ips /\ NewFar(f, s).teid \in Sessions \cup {NoSess}
      BY <3>1, FarFacts
    <3>3. /\ new[f] \in FarRec
          /\ new[f].apply_action = NewFar(f, s).apply_action
          /\ new[f].dst_if = NewFar(f, s).dst_if
          /\ new[f].addr = NewFar(f, s).addr /\ new[f].teid = NewFar(f, s).teid
          /\ new[f].gnode = far[s][f].gnode /\ new[f].buf = far[s][f].buf
      BY <2>1, <2>2, <3>2 DEF FarRec
    <3>4. far[s][f].gnode = NoIp /\ Uses(s, f)
      BY <1>5, <1>6, <2>2 DEF FarInv, HalfFar
    <3>5. FarFits(s, f, new[f])
      BY <3>1, <3>3, FarFacts DEF FarFits, DlFars, FarIds
    <3> QED BY <3>3, <3>4, <3>5 DEF PreFar
  <2>3. CASE f \notin C
    <3>1. new[f] = far[s][f] /\ ~Begun(s, f)
      BY <1>5, <2>3
    <3>2. GoodFar(s, f, far[s][f]) => PreFar(s, f, far[s][f])
      BY DEF GoodFar, PreFar
    <3> QED BY <2>1, <3>1, <3>2 DEF FarInv
  <2> QED BY <2>2, <2>3
<1>8. new \in [FarIds -> FarRec]
  BY <1>7
<1> DEFINE extra == <<>>
<1>9. main'.sess = NoSess /\ extra \in Seq(OwnDatagrams) /\ finish_request(s, new, extra)
  BY <1>2, FarFacts DEF IdleMain
<1> HIDE DEF new, extra
<1> QED BY <1>1, <1>2, <1>4, <1>7, <1>8, <1>9, FinishInv

(* A request of an idle main thread that updates FARs, but no rule. *)
LEMMA UpdatePath ==
  ASSUME RuleInv, PathInv, NEW s \in Sessions, NEW fars \in [FarIds -> FarRec],
         NEW extra \in Seq(OwnDatagrams), finish_request(s, fars, extra),
         UNCHANGED <<transport_mode, pdr, pdr_list, main, ul, ub, pkts>>,
         main.pc = "idle",
         \A f \in FarIds : IF Uses(s, f) THEN PreFar(s, f, fars[f]) ELSE fars[f] = NoFar,
         \A f \in FarIds : fars[f] = NoFar \/ fars[f].buf = far[s][f].buf
  PROVE  PathInv'
<1>1. \A u \in Sessions, f \in FarIds : Uses(u, f)' <=> Uses(u, f)
  BY DEF Uses, Rules
<1>2. main.sess = NoSess /\ main'.sess = NoSess
  BY DEF RuleInv, MainInv, IdleMain
<1> QED BY <1>1, <1>2, FinishInv

LEMMA IdleFars ==
  ASSUME RuleInv, PathInv, main.pc = "idle", NEW s \in Sessions
  PROVE  /\ \A f \in FarIds : IF Uses(s, f) THEN GoodFar(s, f, far[s][f])
                                            ELSE far[s][f] = NoFar
         /\ \A f \in FarIds : far[s][f] \in FarRec
         /\ pdr_list[s] # <<>> => Uses(s, "dl")
         /\ main.sess = NoSess /\ NoSess \notin Sessions
<1>1. main.sess = NoSess /\ NoSess \notin Sessions
  BY ConstAssumption DEF RuleInv, MainInv, IdleMain
<1>2. \A f \in FarIds : ~Begun(s, f)
  BY <1>1 DEF Begun
<1>3. pdr_list[s] # <<>> => Uses(s, "dl")
  BY <1>1, UsesIdle
<1> QED BY <1>1, <1>2, <1>3 DEF PathInv, PathTypes, FarInv

LEMMA ActivatePath ==
  ASSUME RuleInv, PathInv, NEW s \in Sessions, NEW F \in SUBSET DlFars, NEW g \in Gnbs,
         activate_request(s, F, g)
  PROVE  PathInv'
<1> DEFINE old == far[s]
           new == [f \in FarIds |->
                     IF f \in F THEN [old[f] EXCEPT !.apply_action = "FORW", !.addr = g, !.teid = s]
                     ELSE old[f]]
           moved == {f \in F : old[f].apply_action = "FORW" /\ old[f].addr # g}
           marker(f) == IF f \in moved /\ old[f].gnode # NoIp
                          THEN <<Datagram(old[f], s, f, 0)>> ELSE <<>>
<1>1. /\ main.pc = "idle" /\ pdr_list[s] # <<>> /\ F \in FarUpdates(s)
      /\ finish_request(s, new, marker("qdl") \o marker("dl"))
      /\ UNCHANGED <<transport_mode, pdr, pdr_list, main, ul, ub, pkts>>
  BY DEF activate_request, MainIdle, pdrVars
<1>2. \A f \in FarIds : /\ IF Uses(s, f) THEN GoodFar(s, f, old[f]) ELSE old[f] = NoFar
                        /\ old[f] \in FarRec
  BY <1>1, IdleFars
<1>3. \A f \in F : f \in FarIds /\ f \in DlFars /\ Uses(s, f)
  <2>1. "dl" \in FarIds /\ Uses(s, "dl")
    BY <1>1, IdleFars DEF FarIds
  <2>2. F = {"dl"} \/ \A f \in F : old[f] # NoFar
    BY <1>1 DEF FarUpdates
  <2> QED BY <1>2, <2>1, <2>2, FarFacts
<1>4. \A f \in {"dl", "qdl"} : marker(f) \in Seq(OwnDatagrams)
  <2>1. ASSUME NEW f \in {"dl", "qdl"}, f \in moved, old[f].gnode # NoIp
        PROVE  marker(f) \in Seq(OwnDatagrams)
    <3>1. /\ f \in FarIds /\ f \in PdrIds /\ f # "cp" /\ f # "up2cp"
          /\ old[f] \in FarRec /\ GoodFar(s, f, old[f])
      BY <1>2, <1>3, <2>1 DEF PdrIds, SessionPdrs, FlowPdrs
    <3>2. FarFits(s, f, old[f]) /\ old[f].gnode = old[f].addr
      BY <2>1, <3>1 DEF GoodFar
    <3>3. Datagram(old[f], s, f, 0) \in OwnDatagrams
      <4> HIDE DEF old
      <4> QED BY <2>1, <3>1, <3>2, DatagramOk
    <3> QED BY <2>1, <3>3
  <2>2. ASSUME NEW f \in {"dl", "qdl"}, ~(f \in moved /\ old[f].gnode # NoIp)
        PROVE  marker(f) \in Seq(OwnDatagrams)
    BY <2>2, FarFacts
  <2> QED BY <2>1, <2>2
<1>5. marker("qdl") \o marker("dl") \in Seq(OwnDatagrams)
  <2>1. marker("qdl") \in Seq(OwnDatagrams) /\ marker("dl") \in Seq(OwnDatagrams)
    BY <1>4
  <2> HIDE DEF marker
  <2> QED BY <2>1
<1>6. ASSUME NEW f \in FarIds
      PROVE  /\ new[f] \in FarRec /\ new[f].buf = old[f].buf
             /\ IF Uses(s, f) THEN PreFar(s, f, new[f]) ELSE new[f] = NoFar
  <2>1. old[f] \in FarRec
    BY <1>2
  <2>2. CASE f \in F
    <3>1. /\ new[f] \in FarRec /\ new[f].apply_action = "FORW" /\ new[f].addr = g
          /\ new[f].teid = s /\ new[f].dst_if = old[f].dst_if
          /\ new[f].gnode = old[f].gnode /\ new[f].buf = old[f].buf
      BY <2>1, <2>2, FarFacts DEF FarRec
    <3>2. GoodFar(s, f, old[f]) /\ f \in DlFars /\ Uses(s, f)
      BY <1>2, <1>3, <2>2
    <3>3. f # "cp" /\ f # "ul" /\ f # "qul" /\ g # NoIp
      BY <3>2, FarFacts DEF DlFars
    <3> QED BY <3>1, <3>2, <3>3 DEF GoodFar, PreFar, FarFits
  <2>3. CASE f \notin F
    <3>1. new[f] = old[f]
      BY <2>3
    <3>2. GoodFar(s, f, old[f]) => PreFar(s, f, old[f])
      BY DEF GoodFar, PreFar
    <3> QED BY <1>2, <2>1, <3>1, <3>2
  <2> QED BY <2>2, <2>3
<1>7. new \in [FarIds -> FarRec]
  BY <1>6
<1> DEFINE extra == marker("qdl") \o marker("dl")
<1>8. extra \in Seq(OwnDatagrams) /\ finish_request(s, new, extra)
  BY <1>1, <1>5
<1> HIDE DEF new, extra, marker
<1> QED BY <1>1, <1>6, <1>7, <1>8, UpdatePath

LEMMA DeactivatePath ==
  ASSUME RuleInv, PathInv, NEW s \in Sessions, deactivate_request(s)
  PROVE  PathInv'
<1> DEFINE old == far[s]
           new == [f \in FarIds |->
                     IF f \in DlFars /\ old[f] # NoFar
                       THEN [old[f] EXCEPT !.apply_action = "BUFF"] ELSE old[f]]
<1>1. /\ main.pc = "idle" /\ finish_request(s, new, <<>>)
      /\ UNCHANGED <<transport_mode, pdr, pdr_list, main, ul, ub, pkts>>
  BY DEF deactivate_request, MainIdle, pdrVars
<1>2. \A f \in FarIds : /\ IF Uses(s, f) THEN GoodFar(s, f, old[f]) ELSE old[f] = NoFar
                        /\ old[f] \in FarRec
  BY <1>1, IdleFars
<1>3. ASSUME NEW f \in FarIds
      PROVE  /\ new[f] \in FarRec /\ new[f].buf = old[f].buf
             /\ IF Uses(s, f) THEN PreFar(s, f, new[f]) ELSE new[f] = NoFar
  <2>1. old[f] \in FarRec
    BY <1>2
  <2>2. CASE f \in DlFars /\ old[f] # NoFar
    <3>1. /\ new[f] \in FarRec /\ new[f].apply_action = "BUFF" /\ new[f].addr = old[f].addr
          /\ new[f].teid = old[f].teid /\ new[f].dst_if = old[f].dst_if
          /\ new[f].gnode = old[f].gnode /\ new[f].buf = old[f].buf
      BY <2>1, <2>2 DEF FarRec
    <3>2. GoodFar(s, f, old[f]) /\ Uses(s, f) /\ f # "cp" /\ f # "ul" /\ f # "qul"
      BY <1>2, <2>2 DEF DlFars
    <3> QED BY <3>1, <3>2 DEF GoodFar, PreFar, FarFits
  <2>3. CASE ~(f \in DlFars /\ old[f] # NoFar)
    <3>1. new[f] = old[f]
      BY <2>3
    <3>2. GoodFar(s, f, old[f]) => PreFar(s, f, old[f])
      BY DEF GoodFar, PreFar
    <3> QED BY <1>2, <2>1, <3>1, <3>2
  <2> QED BY <2>2, <2>3
<1>4. new \in [FarIds -> FarRec]
  BY <1>3
<1> DEFINE extra == <<>>
<1>5. extra \in Seq(OwnDatagrams) /\ finish_request(s, new, extra)
  BY <1>1, FarFacts
<1> HIDE DEF new, extra
<1> QED BY <1>1, <1>3, <1>4, <1>5, UpdatePath

LEMMA RemoveFlowPath ==
  ASSUME RuleInv, PathInv, NEW s \in Sessions, remove_flow_request(s)
  PROVE  PathInv'
<1> USE DEF RuleInv
<1> DEFINE new == [far[s] EXCEPT !["qdl"] = NoFar, !["qul"] = NoFar]
<1>1. /\ main.pc = "idle" /\ HasFlow(s) /\ finish_request(s, new, <<>>)
      /\ UNCHANGED <<transport_mode, main, ul, ub, pkts>>
  BY DEF remove_flow_request, MainIdle
<1>2. PICK qdl \in Rules(s) : qdl = pdr_find(s, "qdl") /\ pdr[qdl].id = "qdl"
  BY <1>1, FlowFound
<1>3. PICK qul \in Rules(s) : qul = pdr_find(s, "qul") /\ pdr[qul].id = "qul"
  BY <1>1, FlowFound
<1> DEFINE one == RemoveFirst(pdr_list[s], qdl)
           rest == RemoveFirst(one, qul)
<1>4. pdr_remove(s, rest, <<qdl, qul>>)
  BY <1>2, <1>3 DEF remove_flow_request
<1>5. /\ qdl # qul /\ pdr_list[s] \in Seq(Slots) /\ IsInjective(pdr_list[s])
      /\ Rules(s) \subseteq Slots
  BY <1>2, <1>3, ListFacts DEF OwnInv
<1>6. one \in Seq(Slots) /\ ToSet(one) = Rules(s) \ {qdl} /\ IsInjective(one)
  BY <1>5, RemoveFirstFacts DEF Rules
<1> HIDE DEF one
<1>7. ToSet(rest) = Rules(s) \ {qdl, qul}
  <2>1. qul \in ToSet(one)
    BY <1>5, <1>6
  <2>2. ToSet(rest) = ToSet(one) \ {qul}
    BY <1>6, <2>1, RemoveFirstFacts
  <2> QED BY <1>6, <2>2
<1> HIDE DEF rest
<1>8. ToSet(<<qdl, qul>>) = {qdl, qul}
  <2>1. DOMAIN <<qdl, qul>> = {1, 2}
    OBVIOUS
  <2> QED BY <2>1 DEF ToSet
<1>9. \A u \in Sessions \ {s}, f \in FarIds : Uses(u, f)' <=> Uses(u, f)
  BY <1>4, <1>8, RemoveUses
<1>10. /\ main.sess = NoSess /\ NoSess \notin Sessions
       /\ \A f \in FarIds : IF Uses(s, f) THEN GoodFar(s, f, far[s][f]) ELSE far[s][f] = NoFar
       /\ \A f \in FarIds : far[s][f] \in FarRec
  BY <1>1, IdleFars
<1>11. Rules(s)' = Rules(s) \ {qdl, qul}
       /\ \A p \in Rules(s) \ {qdl, qul} : pdr'[p] = pdr[p]
  BY <1>4, <1>5, <1>7, <1>8 DEF pdr_remove, RuleTypes, Rules
<1>12. \A f \in FarIds : Uses(s, f)' <=> Uses(s, f) /\ f \notin {"qdl", "qul"}
  <2>1. \A p \in Rules(s) : pdr[p].id \in PdrIds /\ pdr[p].far = FarOf(pdr[p].id)
    BY <1>10 DEF IdInv, Fresh
  <2>2. \A p \in Rules(s) : pdr[p].far \in {"qdl", "qul"} <=> p \in {qdl, qul}
    <3>1. \A id \in PdrIds : /\ FarOf(id) = "qdl" <=> id = "qdl"
                             /\ FarOf(id) = "qul" <=> id = "qul"
      BY DEF FarOf, PdrIds, SessionPdrs, FlowPdrs
    <3>2. \A p \in Rules(s) : /\ pdr[p].id = "qdl" <=> p = qdl
                              /\ pdr[p].id = "qul" <=> p = qul
      BY <1>2, <1>3 DEF IdInv
    <3> QED BY <2>1, <3>1, <3>2
  <2> QED BY <1>11, <2>2 DEF Uses
<1>13. \A f \in FarIds : new[f] = IF f \in {"qdl", "qul"} THEN NoFar ELSE far[s][f]
  BY DEF PathInv, PathTypes
<1>14. new \in [FarIds -> FarRec]
  BY FarFacts DEF PathInv, PathTypes
<1> HIDE DEF new
<1>15. ASSUME NEW f \in FarIds
       PROVE  IF Uses(s, f)' THEN PreFar(s, f, new[f]) ELSE new[f] = NoFar
  <2>1. GoodFar(s, f, far[s][f]) => PreFar(s, f, far[s][f])
    BY DEF GoodFar, PreFar
  <2> QED BY <1>10, <1>12, <1>13, <2>1
<1>16. \A f \in FarIds : new[f] = NoFar \/ new[f].buf = far[s][f].buf
  BY <1>13
<1>17. main.sess \in {NoSess, s} /\ main'.sess = NoSess
  BY <1>1, <1>10
<1> QED BY <1>1, <1>9, <1>14, <1>15, <1>16, <1>17, FarFacts, FinishInv

-----------------------------------------------------------------------------
(* A PDR is filled in: its FAR begins, unless one of the request's own PDRs *)
(* has begun it.                                                            *)
LEMMA FillPath ==
  ASSUME RuleInv, PathInv, handle_create_pdr
  PROVE  PathInv'
<1> USE DEF RuleInv, PathInv
<1>1. PICK s \in Sessions : main.pc = "fill" /\ s = main.sess /\ pdr_list[s] # <<>>
                            /\ main.created \subseteq Rules(s)
  BY DEF handle_create_pdr, MainInv, RuleTypes
<1>2. PICK id \in PdrIds : id = main.todo /\ id \in Wanted /\ ~HasId(s, id)
  <2>1. main.todo \in Wanted /\ main.todo \in PdrIds
    BY <1>1, IdFacts DEF MainInv, Wanted
  <2>2. main.todo \notin Done
    BY <2>1 DEF Done, PdrIds, SessionPdrs, FlowPdrs
  <2> QED BY <1>1, <2>1, <2>2 DEF MainInv
<1>3. PICK p \in Slots : /\ p = Last(pdr_list[s]) /\ p \in Rules(s)
                         /\ ToSet(Front(pdr_list[s])) = Rules(s) \ {p}
                         /\ Front(pdr_list[s]) \in Seq(Slots)
                         /\ IsInjective(Front(pdr_list[s]))
  BY <1>1, FrontFacts DEF RuleTypes, OwnInv, Rules
<1>4. PICK g \in FarIds : g = FarOf(id)
  BY IdFacts
<1>5. /\ pdr' = [pdr EXCEPT ![p] = [ZeroPdr EXCEPT !.id = id, !.far = g]]
      /\ pdr_list' = [pdr_list EXCEPT ![s] = insert_sorted(Front(pdr_list[s]), p, pdr')]
      /\ far' = IF far[s][g] = NoFar THEN [far EXCEPT ![s][g] = ZeroFar] ELSE far
      /\ main'.sess = s /\ main'.created = main.created \cup {p}
      /\ UNCHANGED <<transport_mode, n3out, histVars, pkts, ul, ub>>
  BY <1>1, <1>2, <1>3, <1>4 DEF handle_create_pdr, RuleTypes
<1>6. /\ pdr'[p].far = g /\ pdr'[p].id = id
      /\ \A q \in Slots \ {p} : pdr'[q] = pdr[q]
  BY <1>5 DEF RuleTypes, ZeroPdr
<1>7. \A q \in Rules(s) \ {p} : q \in Slots /\ pdr[q].id \in PdrIds /\ pdr[q].far = FarOf(pdr[q].id)
  BY <1>1, <1>3, ListFacts DEF IdInv, Fresh
<1>8. pdr[p] = ZeroPdr /\ pdr[p].far = "none" /\ p \notin main.created
  <2>1. pdr[p] = ZeroPdr
    BY <1>1, <1>3 DEF IdInv, Fresh
  <2>2. pdr[p].id \notin PdrIds /\ pdr[p].far = "none"
    BY <2>1, IdFacts DEF ZeroPdr
  <2>3. Wanted \subseteq PdrIds
    BY IdFacts DEF Wanted
  <2> QED BY <1>1, <1>3, <2>1, <2>2, <2>3 DEF MainInv
<1>9. Rules(s)' = Rules(s) /\ \A u \in Sessions \ {s} : Rules(u)' = Rules(u)
  <2> DEFINE list == Front(pdr_list[s])
             rules == pdr'
  <2>1. /\ list \in Seq(Slots) /\ IsInjective(list) /\ p \notin ToSet(list)
        /\ rules[p].id \in PdrIds /\ \A q \in ToSet(list) : rules[q].id \in PdrIds
    BY <1>3, <1>6, <1>7
  <2>2. pdr_list'[s] = insert_sorted(list, p, rules)
        /\ \A u \in Sessions \ {s} : pdr_list'[u] = pdr_list[u]
    BY <1>5 DEF RuleTypes
  <2> HIDE DEF list, rules
  <2>3. ToSet(insert_sorted(list, p, rules)) = ToSet(list) \cup {p}
    BY <2>1, InsertSorted
  <2>4. ToSet(list) \cup {p} = Rules(s)
    BY <1>3 DEF list
  <2> QED BY <2>2, <2>3, <2>4 DEF Rules
<1>10. \A u \in Sessions \ {s}, f \in FarIds : Uses(u, f)' <=> Uses(u, f)
  <2>1. \A u \in Sessions \ {s} : Rules(u) \subseteq Slots \ {p}
    BY <1>3, ListFacts DEF OwnInv
  <2> QED BY <1>6, <1>9, <2>1 DEF Uses
<1>11. \A f \in FarIds : /\ Uses(s, f)' <=> Uses(s, f) \/ f = g
                         /\ Begun(s, f)' <=> Begun(s, f) \/ f = g
  <2>0. "none" \notin FarIds
    BY DEF FarIds
  <2>1. ASSUME NEW f \in FarIds PROVE Uses(s, f)' <=> Uses(s, f) \/ f = g
    BY <1>3, <1>6, <1>7, <1>8, <1>9, <2>0 DEF Uses
  <2>2. ASSUME NEW f \in FarIds PROVE Begun(s, f)' <=> Begun(s, f) \/ f = g
    <3>1. \A q \in main.created : q \in Slots \ {p}
      BY <1>1, <1>7, <1>8
    <3> QED BY <1>1, <1>5, <1>6, <3>1 DEF Begun
  <2> QED BY <2>1, <2>2
<1>12. Uses(s, g) => Begun(s, g)
  <2>1. SUFFICES ASSUME NEW q \in Rules(s), pdr[q].far = g PROVE Begun(s, g)
    BY DEF Uses
  <2>2. q # p /\ pdr[q].id \in PdrIds /\ FarOf(pdr[q].id) = FarOf(id) /\ pdr[q].id # id
    <3>1. q # p
      BY <1>8, <2>1 DEF FarIds
    <3> QED BY <1>2, <1>4, <1>7, <2>1, <3>1 DEF HasId
  <2>3. id \in SessionPdrs /\ pdr[q].id \in SessionPdrs
    BY <2>2 DEF FarOf, PdrIds, SessionPdrs, FlowPdrs
  <2>4. pdr[q].id \in Wanted
    BY <1>2, <2>3, IdFacts DEF Wanted
  <2>5. q \in main.created
    BY <1>1, <2>1, <2>4 DEF MainInv
  <2> QED BY <1>1, <2>1, <2>5 DEF Begun
<1>13. /\ \A u \in Sessions, f \in FarIds : ~(u = s /\ f = g) => far'[u][f] = far[u][f]
       /\ ~Uses(s, g) => far'[s][g] = ZeroFar
       /\ Uses(s, g) => far'[s][g] = far[s][g]
       /\ \A u \in Sessions, f \in FarIds : far'[u][f].buf = far[u][f].buf
       /\ far' \in [Sessions -> [FarIds -> FarRec]]
  <2>1. CASE far[s][g] = NoFar
    <3>1. far' = [far EXCEPT ![s][g] = ZeroFar]
      BY <1>5, <2>1
    <3>2. ~Uses(s, g)
      <4>1. ~HalfFar(far[s][g])
        BY <2>1, FarFacts DEF HalfFar
      <4> QED BY <1>12, <4>1 DEF FarInv
    <3>3. far'[s][g] = ZeroFar
          /\ \A u \in Sessions, f \in FarIds : ~(u = s /\ f = g) => far'[u][f] = far[u][f]
      BY <3>1 DEF PathTypes
    <3>4. far' \in [Sessions -> [FarIds -> FarRec]]
      BY <3>1, FarFacts DEF PathTypes
    <3>5. \A u \in Sessions, f \in FarIds : far'[u][f].buf = far[u][f].buf
      BY <2>1, <3>3, FarFacts
    <3> QED BY <3>2, <3>3, <3>4, <3>5
  <2>2. CASE far[s][g] # NoFar
    BY <1>5, <2>2 DEF FarInv, PathTypes
  <2> QED BY <2>1, <2>2
<1>14. PathTypes'
  BY <1>5, <1>13 DEF PathTypes, histVars
<1>15. WorkerInv'
  BY <1>5 DEF WorkerInv
<1>16. FarInv'
  <2>1. SUFFICES ASSUME NEW u \in Sessions, NEW f \in FarIds
                 PROVE  /\ ~Uses(u, f)' => far'[u][f] = NoFar
                        /\ Uses(u, f)' /\ Begun(u, f)' => HalfFar(far[u][f])'
                        /\ Uses(u, f)' /\ ~Begun(u, f)' => GoodFar(u, f, far[u][f])'
    BY DEF FarInv
  <2>2. CASE u = s /\ f = g
    <3>1. Uses(u, f)' /\ Begun(u, f)'
      BY <1>11, <2>2
    <3>2. HalfFar(far'[s][g])
      BY <1>12, <1>13, FarFacts DEF FarInv
    <3> QED BY <2>2, <3>1, <3>2 DEF HalfFar
  <2>3. CASE ~(u = s /\ f = g)
    <3>1. (Uses(u, f)' <=> Uses(u, f)) /\ (Begun(u, f)' <=> Begun(u, f))
      <4>1. u # s => ~Begun(u, f) /\ ~Begun(u, f)'
        BY <1>1, <1>5 DEF Begun
      <4> QED BY <1>10, <1>11, <2>3, <4>1
    <3>2. far'[u][f] = far[u][f] /\ transport_mode' = transport_mode
      BY <1>5, <1>13, <2>3
    <3> QED BY <3>1, <3>2 DEF FarInv, GoodFar, FarFits, HalfFar
  <2> QED BY <2>2, <2>3
<1>17. BufferInv'
  <2>1. SUFFICES ASSUME transport_mode = "GTPU", NEW u \in Sessions, NEW f \in DlFars
                 PROVE  /\ PageOf(u, f, far[u][f].buf)' /\ OrderOf(u, f, far[u][f].buf)'
                        /\ lastSent'[u][f] <= pkts'
                        /\ far'[u][f].buf # <<>> => far'[u][f].apply_action = "BUFF"
    BY <1>5 DEF BufferInv
  <2>2. /\ PageOf(u, f, far[u][f].buf) /\ OrderOf(u, f, far[u][f].buf)
        /\ lastSent[u][f] <= pkts
        /\ far[u][f].buf # <<>> => far[u][f].apply_action = "BUFF"
    BY <2>1 DEF BufferInv
  <2>3. far'[u][f].buf = far[u][f].buf /\ f \in FarIds
        /\ (far[u][f].buf # <<>> => far'[u][f] = far[u][f])
    <3>1. f \in FarIds
      BY FarFacts
    <3>2. far'[u][f] = far[u][f] \/ far'[u][f] = ZeroFar
      BY <1>13, <3>1
    <3> QED BY <1>13, <3>1, <3>2, FarFacts
  <2> QED BY <1>5, <2>2, <2>3 DEF PageOf, OrderOf, histVars
<1> QED BY <1>14, <1>15, <1>16, <1>17

-----------------------------------------------------------------------------
(* Packets. *)

LEMMA BufferFacts ==
  ASSUME NEW b \in Seq(0 .. MaxPkts), Len(b) <= MaxBuf, NEW x \in 0 .. MaxPkts
  PROVE  /\ buffer(b, x) \in Seq(0 .. MaxPkts) /\ Len(buffer(b, x)) <= MaxBuf
         /\ buffer(b, x) # <<>>
         /\ buffer(b, x) = b \/ buffer(b, x) = Append(b, x)
<1>1. Len(b) \in Nat /\ MaxBuf \in Nat \ {0}
  BY FarFacts
<1>2. CASE Len(b) < MaxBuf
  <2>1. buffer(b, x) = Append(b, x) /\ Append(b, x) \in Seq(0 .. MaxPkts)
        /\ Len(Append(b, x)) = Len(b) + 1 /\ Append(b, x) # <<>>
    BY <1>2 DEF buffer
  <2> QED BY <1>1, <1>2, <2>1
<1>3. CASE ~(Len(b) < MaxBuf)
  <2>1. buffer(b, x) = b /\ Len(b) > 0
    BY <1>1, <1>3 DEF buffer
  <2>2. b # <<>>
    BY <2>1, FarFacts
  <2> QED BY <2>1, <2>2
<1> QED BY <1>2, <1>3

(* A packet put into a FAR's buffer changes nothing else of it. *)
LEMMA BufferFar ==
  ASSUME PathTypes, FarInv, NEW s \in Sessions, NEW f \in FarIds, NEW x \in 0 .. MaxPkts,
         Uses(s, f), far' = [far EXCEPT ![s][f].buf = buffer(far[s][f].buf, x)],
         UNCHANGED <<transport_mode, pdr, pdr_list, main>>
  PROVE  /\ far' \in [Sessions -> [FarIds -> FarRec]]
         /\ \A u \in Sessions, h \in FarIds : Len(far'[u][h].buf) <= MaxBuf
         /\ \A u \in Sessions, h \in FarIds : ~(u = s /\ h = f) => far'[u][h] = far[u][h]
         /\ far'[s][f].apply_action = far[s][f].apply_action
         /\ far'[s][f].buf = buffer(far[s][f].buf, x)
         /\ FarInv'
<1> DEFINE b == buffer(far[s][f].buf, x)
<1>1. far[s][f] \in FarRec /\ far[s][f].buf \in Seq(0 .. MaxPkts) /\ Len(far[s][f].buf) <= MaxBuf
  BY DEF PathTypes, FarRec
<1>2. b \in Seq(0 .. MaxPkts) /\ Len(b) <= MaxBuf
  BY <1>1, BufferFacts
<1> HIDE DEF b
<1>3. far' = [far EXCEPT ![s][f].buf = b]
  BY DEF b
<1>4. /\ \A u \in Sessions, h \in FarIds : ~(u = s /\ h = f) => far'[u][h] = far[u][h]
      /\ far'[s][f] = [far[s][f] EXCEPT !.buf = b]
  <2> DEFINE F == [far[s][f] EXCEPT !.buf = b]
  <2>1. far' = [far EXCEPT ![s] = [far[s] EXCEPT ![f] = F]]
    BY <1>3 DEF PathTypes
  <2> HIDE DEF F
  <2>2. /\ far'[s] = [far[s] EXCEPT ![f] = F]
        /\ \A u \in Sessions \ {s} : far'[u] = far[u]
    BY <2>1 DEF PathTypes
  <2>3. far'[s][f] = F /\ \A h \in FarIds \ {f} : far'[s][h] = far[s][h]
    BY <2>2 DEF PathTypes
  <2> QED BY <2>2, <2>3 DEF F
<1>5. /\ far'[s][f] \in FarRec /\ far'[s][f].buf = b
      /\ far'[s][f].apply_action = far[s][f].apply_action
      /\ far'[s][f].dst_if = far[s][f].dst_if /\ far'[s][f].addr = far[s][f].addr
      /\ far'[s][f].teid = far[s][f].teid /\ far'[s][f].gnode = far[s][f].gnode
  <2> DEFINE F == far[s][f]
  <2>1. F \in FarRec
    BY <1>1
  <2>2. far'[s][f] = [F EXCEPT !.buf = b]
    BY <1>4
  <2> HIDE DEF F
  <2>3. /\ far'[s][f].buf = b /\ far'[s][f].apply_action = F.apply_action
        /\ far'[s][f].dst_if = F.dst_if /\ far'[s][f].addr = F.addr
        /\ far'[s][f].teid = F.teid /\ far'[s][f].gnode = F.gnode
    BY <2>1, <2>2 DEF FarRec
  <2>4. far'[s][f] \in FarRec
    BY <1>2, <2>1, <2>2, WithBuffer
  <2> QED BY <2>3, <2>4 DEF F
<1>6. far' \in [Sessions -> [FarIds -> FarRec]]
  <2>1. [far[s] EXCEPT ![f] = far'[s][f]] \in [FarIds -> FarRec]
    BY <1>5 DEF PathTypes
  <2>2. far' = [far EXCEPT ![s] = [far[s] EXCEPT ![f] = [far[s][f] EXCEPT !.buf = b]]]
    BY <1>3 DEF PathTypes
  <2> QED BY <1>4, <2>1, <2>2 DEF PathTypes
<1>7. \A u \in Sessions, h \in FarIds : Len(far'[u][h].buf) <= MaxBuf
  <2>1. ASSUME NEW u \in Sessions, NEW h \in FarIds PROVE Len(far'[u][h].buf) <= MaxBuf
    <3>1. CASE u = s /\ h = f
      BY <1>2, <1>5, <3>1
    <3>2. CASE ~(u = s /\ h = f)
      BY <1>4, <3>2 DEF PathTypes
    <3> QED BY <3>1, <3>2
  <2> QED BY <2>1
<1>8. \A u \in Sessions, h \in FarIds : (Uses(u, h)' <=> Uses(u, h)) /\ (Begun(u, h)' <=> Begun(u, h))
  BY DEF Uses, Rules, Begun
<1>9. FarInv'
  <2>1. SUFFICES ASSUME NEW u \in Sessions, NEW h \in FarIds
                 PROVE  /\ ~Uses(u, h)' => far'[u][h] = NoFar
                        /\ Uses(u, h)' /\ Begun(u, h)' => HalfFar(far[u][h])'
                        /\ Uses(u, h)' /\ ~Begun(u, h)' => GoodFar(u, h, far[u][h])'
    BY DEF FarInv
  <2>2. CASE u = s /\ h = f
    BY <1>5, <1>8, <2>2 DEF FarInv, GoodFar, FarFits, HalfFar
  <2>3. CASE ~(u = s /\ h = f)
    BY <1>4, <1>8, <2>3 DEF FarInv, GoodFar, FarFits, HalfFar
  <2> QED BY <2>2, <2>3
<1> QED BY <1>4, <1>5, <1>6, <1>7, <1>9 DEF b

(* What the UPF knows of a rule when it may look at a packet. *)
LEMMA RuleOfPacket ==
  ASSUME RuleInv, PathInv, main.pc = "idle", NEW s \in Sessions, NEW p \in Rules(s)
  PROVE  /\ p \in Slots /\ pdr[p].id \in PdrIds /\ pdr[p].far = FarOf(pdr[p].id)
         /\ pdr[p].far \in FarIds /\ Uses(s, pdr[p].far)
         /\ far[s][pdr[p].far] \in FarRec
         /\ GoodFar(s, pdr[p].far, far[s][pdr[p].far])
         /\ pdr[p].far = "cp" <=> pdr[p].id = "up2cp"
<1>1. p \in Slots /\ pdr[p].id \in PdrIds /\ pdr[p].far = FarOf(pdr[p].id)
  BY ListFacts DEF RuleInv, IdInv, Fresh
<1>2. pdr[p].far \in FarIds /\ (pdr[p].far = "cp" <=> pdr[p].id = "up2cp")
  BY <1>1 DEF FarOf, FarIds, PdrIds, SessionPdrs, FlowPdrs
<1>3. Uses(s, pdr[p].far)
  BY DEF Uses
<1> QED BY <1>1, <1>2, <1>3, IdleFars

(* A packet marks its FAR as idle if it is to buffer. *)
LEMMA OrderKeep ==
  ASSUME NEW u \in Sessions, NEW h \in FarIds, OrderOf(u, h, far[u][h].buf),
         far'[u][h] = far[u][h], lastSent'[u][h] = lastSent[u][h],
         pkts \in Nat, pkts' = pkts + 1,
         \A i \in 1 .. Len(far[u][h].buf) : far[u][h].buf[i] \in Nat
  PROVE  OrderOf(u, h, far[u][h].buf)'
<1>1. PICK b : b = far[u][h].buf /\ b = far'[u][h].buf
  OBVIOUS
<1>2. ASSUME NEW i \in 1 .. Len(b) PROVE lastSent'[u][h] < b[i] /\ b[i] <= pkts'
  <2>1. lastSent[u][h] < b[i] /\ b[i] <= pkts /\ b[i] \in Nat
    BY <1>1, <1>2 DEF OrderOf
  <2> QED BY <2>1
<1>3. \A i, j \in 1 .. Len(b) : i < j => b[i] < b[j]
  BY <1>1 DEF OrderOf
<1> QED BY <1>1, <1>2, <1>3 DEF OrderOf

(* The packets a buffer holds are numbers. *)
LEMMA BufNats ==
  ASSUME NEW b \in Seq(0 .. MaxPkts)
  PROVE  \A i \in 1 .. Len(b) : b[i] \in Nat
<1>1. MaxPkts \in Nat
  BY FarFacts
<1> QED BY ONLY <1>1, b \in Seq(0 .. MaxPkts)

(* One packet for FAR f of session s moves only that FAR's idle mark. *)
LEMMA IdleStep ==
  ASSUME PathTypes, NEW s \in Sessions, NEW f \in FarIds, NEW action,
         idle' = [idle EXCEPT ![s][f] = @ \/ action = "BUFF"]
  PROVE  /\ idle' \in [Sessions -> [FarIds -> BOOLEAN]]
         /\ idle'[s][f] <=> (idle[s][f] \/ action = "BUFF")
         /\ \A u \in Sessions, h \in FarIds : ~(u = s /\ h = f) => idle'[u][h] = idle[u][h]
<1> DEFINE x == idle[s][f] \/ action = "BUFF"
           row == [idle[s] EXCEPT ![f] = x]
<1>1. idle' = [idle EXCEPT ![s] = row]
  BY DEF PathTypes
<1>2. x \in BOOLEAN /\ x = (idle[s][f] \/ action = "BUFF")
      /\ idle[s] \in [FarIds -> BOOLEAN]
  BY DEF PathTypes
<1> HIDE DEF x
<1>3. row \in [FarIds -> BOOLEAN]
  BY <1>2
<1>4. row[f] = x /\ \A h \in FarIds \ {f} : row[h] = idle[s][h]
  BY <1>2
<1> HIDE DEF row
<1>5. idle' \in [Sessions -> [FarIds -> BOOLEAN]]
  BY <1>1, <1>3 DEF PathTypes
<1>6. idle'[s] = row /\ \A u \in Sessions \ {s} : idle'[u] = idle[u]
  BY <1>1 DEF PathTypes
<1>7. idle'[s][f] <=> (idle[s][f] \/ action = "BUFF")
  BY <1>2, <1>4, <1>6
<1> QED BY <1>4, <1>5, <1>6, <1>7

(* A packet for FAR f of session s over GTP-U. *)
LEMMA HandlePdr ==
  ASSUME RuleInv, PathInv, main.pc = "idle", transport_mode = "GTPU",
         NEW s \in Sessions, NEW p \in Rules(s), far[s][pdr[p].far].dst_if # "CORE",
         pkts < MaxPkts, pkts' = pkts + 1, up_handle_pdr(s, p, pkts + 1),
         idle' = [idle EXCEPT ![s][pdr[p].far] =
                    @ \/ far[s][pdr[p].far].apply_action = "BUFF"],
         UNCHANGED <<transport_mode, pdr, pdr_list, main, ul, ub>>
  PROVE  PathInv'
<1> USE DEF PathInv
<1>1. PICK f \in FarIds : f = pdr[p].far
  BY RuleOfPacket
<1>2. PICK F \in FarRec : F = far[s][f] /\ GoodFar(s, f, F) /\ Uses(s, f)
  BY <1>1, RuleOfPacket
<1>3. PICK id \in PdrIds : id = pdr[p].id /\ (f = "cp" <=> id = "up2cp")
  BY <1>1, RuleOfPacket
<1>4. pkts + 1 \in 1 .. MaxPkts /\ pkts \in Nat /\ pkts' \in 0 .. MaxPkts
  BY FarFacts DEF PathTypes
<1> DEFINE buffering == F.gnode = NoIp \/ F.apply_action # "FORW"
<1>5. f \in DlFars \/ f = "cp"
  BY <1>1, <1>2 DEF GoodFar, FarFits, FarIds, DlFars
<1>6. buffering <=> F.apply_action = "BUFF"
  <2>1. F.gnode = F.addr
    BY <1>2 DEF GoodFar
  <2> QED BY <1>2, <1>5, <2>1, FarFacts DEF GoodFar, FarFits, DlFars
<1>7. buffering => f \in DlFars
  BY <1>2, <1>5, <1>6 DEF GoodFar, FarFits
<1>8. /\ n3out' = IF buffering THEN <<>> ELSE <<Datagram(F, s, id, pkts + 1)>>
      /\ lastSent' = IF buffering THEN lastSent ELSE [lastSent EXCEPT ![s][f] = pkts + 1]
      /\ far' = IF buffering THEN [far EXCEPT ![s][f].buf = buffer(far[s][f].buf, pkts + 1)] ELSE far
      /\ reports' = IF buffering /\ F.buf = <<>>
                      THEN [reports EXCEPT ![s][f] = reports[s][f] + 1] ELSE reports
  BY <1>1, <1>2, <1>3 DEF up_handle_pdr, PathTypes
<1>9. /\ idle' \in [Sessions -> [FarIds -> BOOLEAN]]
      /\ idle'[s][f] <=> (idle[s][f] \/ buffering)
      /\ \A u \in Sessions, h \in FarIds : ~(u = s /\ h = f) => idle'[u][h] = idle[u][h]
  <2>1. idle' = [idle EXCEPT ![s][f] = @ \/ F.apply_action = "BUFF"]
    BY <1>1, <1>2
  <2>2. /\ idle' \in [Sessions -> [FarIds -> BOOLEAN]]
        /\ idle'[s][f] <=> (idle[s][f] \/ F.apply_action = "BUFF")
        /\ \A u \in Sessions, h \in FarIds : ~(u = s /\ h = f) => idle'[u][h] = idle[u][h]
    <3> DEFINE x == idle[s][f] \/ F.apply_action = "BUFF"
               row == [idle[s] EXCEPT ![f] = x]
    <3>1. /\ idle \in [Sessions -> [FarIds -> BOOLEAN]] /\ f \in FarIds
          /\ x \in BOOLEAN
      BY <1>2, <1>4 DEF PathTypes
    <3>2. idle' = [idle EXCEPT ![s] = row]
      BY ONLY <2>1, <3>1, s \in Sessions
    <3>3. x <=> (idle[s][f] \/ F.apply_action = "BUFF")
      OBVIOUS
    <3> HIDE DEF x
    <3>4. idle[s] \in [FarIds -> BOOLEAN]
      BY ONLY <3>1, s \in Sessions
    <3>5. row \in [FarIds -> BOOLEAN] /\ row[f] = x
          /\ \A h \in FarIds \ {f} : row[h] = idle[s][h]
      BY ONLY <3>1, <3>4
    <3> HIDE DEF row
    <3>6. idle' \in [Sessions -> [FarIds -> BOOLEAN]]
      BY ONLY <3>1, <3>2, <3>5, s \in Sessions
    <3>7. idle'[s] = row /\ \A u \in Sessions \ {s} : idle'[u] = idle[u]
      BY ONLY <3>1, <3>2, s \in Sessions
    <3> QED BY <3>3, <3>5, <3>6, <3>7
  <2> HIDE DEF buffering
  <2>3. (idle[s][f] \/ F.apply_action = "BUFF") <=> (idle[s][f] \/ buffering)
    BY <1>6
  <2> QED BY <2>2, <2>3
<1> HIDE DEF buffering
<1>10. WorkerInv'
  BY DEF WorkerInv
<1>11. CASE buffering
  <2>1. /\ far' = [far EXCEPT ![s][f].buf = buffer(far[s][f].buf, pkts + 1)]
        /\ lastSent' = lastSent /\ n3out' = <<>>
    BY <1>8, <1>11
  <2>2. pkts + 1 \in 0 .. MaxPkts
    BY <1>4
  <2>3. /\ far' \in [Sessions -> [FarIds -> FarRec]]
        /\ \A u \in Sessions, h \in FarIds : Len(far'[u][h].buf) <= MaxBuf
        /\ \A u \in Sessions, h \in FarIds : ~(u = s /\ h = f) => far'[u][h] = far[u][h]
        /\ far'[s][f].apply_action = F.apply_action
        /\ far'[s][f].buf = buffer(F.buf, pkts + 1)
        /\ FarInv'
    <3> DEFINE x == pkts + 1
    <3>1. x \in 0 .. MaxPkts /\ far' = [far EXCEPT ![s][f].buf = buffer(far[s][f].buf, x)]
      BY <2>1, <2>2
    <3> HIDE DEF x
    <3>2. /\ far' \in [Sessions -> [FarIds -> FarRec]]
          /\ \A u \in Sessions, h \in FarIds : Len(far'[u][h].buf) <= MaxBuf
          /\ \A u \in Sessions, h \in FarIds : ~(u = s /\ h = f) => far'[u][h] = far[u][h]
          /\ far'[s][f].apply_action = far[s][f].apply_action
          /\ far'[s][f].buf = buffer(far[s][f].buf, x)
          /\ FarInv'
      BY <1>2, <3>1, BufferFar
    <3> QED BY <1>2, <3>2 DEF x
  <2>4. /\ reports' \in [Sessions -> [FarIds -> Nat]]
        /\ reports'[s][f] = (IF F.buf = <<>> THEN reports[s][f] + 1 ELSE reports[s][f])
        /\ \A u \in Sessions, h \in FarIds : ~(u = s /\ h = f) => reports'[u][h] = reports[u][h]
    BY <1>8, <1>11 DEF PathTypes
  <2>5. PathTypes'
    BY <1>4, <1>9, <2>1, <2>3, <2>4, FarFacts DEF PathTypes
  <2>6. BufferInv'
    <3>1. SUFFICES ASSUME NEW u \in Sessions, NEW h \in DlFars
                   PROVE  /\ PageOf(u, h, far[u][h].buf)' /\ OrderOf(u, h, far[u][h].buf)'
                          /\ lastSent'[u][h] <= pkts'
                          /\ far'[u][h].buf # <<>> => far'[u][h].apply_action = "BUFF"
      BY DEF BufferInv
    <3>2. /\ PageOf(u, h, far[u][h].buf) /\ OrderOf(u, h, far[u][h].buf)
          /\ lastSent[u][h] <= pkts /\ h \in FarIds
          /\ far[u][h].buf # <<>> => far[u][h].apply_action = "BUFF"
          /\ lastSent[u][h] \in Nat
          /\ far[u][h].buf \in Seq(0 .. MaxPkts) /\ Len(far[u][h].buf) <= MaxBuf
      BY <3>1, FarFacts DEF BufferInv, PathTypes, FarRec
    <3>3. \A i \in 1 .. Len(far[u][h].buf) : far[u][h].buf[i] \in Nat
      <4>1. far[u][h].buf \in Seq(0 .. MaxPkts)
        BY <3>2
      <4> QED BY ONLY <4>1, BufNats
    <3>4. CASE ~(u = s /\ h = f)
      <4>1. far'[u][h] = far[u][h] /\ reports'[u][h] = reports[u][h]
            /\ lastSent'[u][h] = lastSent[u][h] /\ idle'[u][h] = idle[u][h]
        BY <1>9, <2>1, <2>3, <2>4, <3>2, <3>4
      <4>2. PageOf(u, h, far[u][h].buf)'
        BY <3>2, <4>1 DEF PageOf
      <4>3. OrderOf(u, h, far[u][h].buf)'
        BY <1>4, <2>1, <3>2, <3>3, <4>1, OrderKeep
      <4> QED BY <1>4, <3>2, <4>1, <4>2, <4>3
    <3>5. CASE u = s /\ h = f
      <4>1. PICK b \in Seq(0 .. MaxPkts) : b = F.buf /\ Len(b) <= MaxBuf /\ b = far[u][h].buf
        BY <1>2, <3>2, <3>5
      <4>2. PICK x \in 0 .. MaxPkts : x = pkts + 1
        BY <2>2
      <4>3. PICK c \in Seq(0 .. MaxPkts) : c = buffer(b, x) /\ c # <<>> /\ (c = b \/ c = Append(b, x))
        BY <4>1, BufferFacts
      <4>4. far'[u][h].buf = c
        BY <2>3, <3>5, <4>1, <4>2, <4>3
      <4>5. reports'[u][h] = 1 /\ idle'[u][h]
        <5>1. idle'[u][h]
          BY <1>9, <1>11, <3>5
        <5>2. reports'[s][f] = (IF F.buf = <<>> THEN reports[s][f] + 1 ELSE reports[s][f])
          BY <2>4
        <5>3. reports[s][f] = IF F.buf = <<>> THEN 0 ELSE 1
          BY <3>2, <3>5, <4>1 DEF PageOf
        <5> QED BY <3>5, <5>1, <5>2, <5>3
      <4>6. PageOf(u, h, far[u][h].buf)'
        BY <4>3, <4>4, <4>5 DEF PageOf
      <4>7. OrderOf(u, h, far[u][h].buf)'
        <5>1. /\ \A i \in 1 .. Len(b) : lastSent[u][h] < b[i] /\ b[i] <= pkts /\ b[i] \in Nat
              /\ \A i, j \in 1 .. Len(b) : i < j => b[i] < b[j]
          BY <3>2, <3>3, <4>1 DEF OrderOf
        <5>2. CASE c = b
          <6>1. \A i \in 1 .. Len(c) : lastSent[u][h] < c[i] /\ c[i] <= pkts + 1
            BY <1>4, <5>1, <5>2
          <6>2. \A i, j \in 1 .. Len(c) : i < j => c[i] < c[j]
            BY <5>1, <5>2
          <6> QED BY <2>1, <4>4, <6>1, <6>2 DEF OrderOf
        <5>3. CASE c = Append(b, x)
          <6>1. Len(c) = Len(b) + 1 /\ c[Len(b) + 1] = x
                /\ (\A i \in 1 .. Len(b) : c[i] = b[i]) /\ Len(b) \in Nat
            BY <5>3
          <6>2. \A i \in 1 .. Len(c) : i \in 1 .. Len(b) \/ i = Len(b) + 1
            BY <6>1
          <6>3. \A i \in 1 .. Len(c) : lastSent[u][h] < c[i] /\ c[i] <= pkts + 1
            <7> TAKE i \in 1 .. Len(c)
            <7>1. CASE i \in 1 .. Len(b)
              BY <1>4, <5>1, <6>1, <7>1
            <7>2. CASE i = Len(b) + 1
              BY <1>4, <3>2, <4>2, <6>1, <7>2
            <7> QED BY <6>2, <7>1, <7>2
          <6>4. \A i, j \in 1 .. Len(c) : i < j => c[i] < c[j]
            BY <1>4, <4>2, <5>1, <6>1, <6>2
          <6> QED BY <2>1, <4>4, <6>3, <6>4 DEF OrderOf
        <5> QED BY <4>3, <5>2, <5>3
      <4>8. far'[u][h].apply_action = "BUFF"
        BY <1>6, <1>11, <2>3, <3>5
      <4>9. lastSent'[u][h] <= pkts'
        BY <1>4, <2>1, <3>2
      <4> QED BY <4>6, <4>7, <4>8, <4>9
    <3> QED BY <3>4, <3>5
  <2> QED BY <1>10, <2>3, <2>5, <2>6
<1>12. CASE ~buffering
  <2>1. /\ far' = far /\ reports' = reports /\ n3out' = <<Datagram(F, s, id, pkts + 1)>>
        /\ lastSent' = [lastSent EXCEPT ![s][f] = pkts + 1]
    BY <1>8, <1>12
  <2>2. n3out' \in Seq(OwnDatagrams)
    <3>1. F.gnode = F.addr /\ F.gnode # NoIp /\ FarFits(s, f, F) /\ pkts + 1 \in Nat
      BY <1>2, <1>4, <1>12 DEF GoodFar, buffering
    <3>2. Datagram(F, s, id, pkts + 1) \in OwnDatagrams
      BY <1>3, <3>1, DatagramOk
    <3> QED BY <2>1, <3>2
  <2>3. /\ lastSent' \in [Sessions -> [FarIds -> Nat]]
        /\ lastSent'[s][f] = pkts + 1
        /\ \A u \in Sessions, h \in FarIds : ~(u = s /\ h = f) => lastSent'[u][h] = lastSent[u][h]
    BY <1>4, <2>1 DEF PathTypes
  <2>4. PathTypes'
    BY <1>4, <1>9, <2>1, <2>2, <2>3 DEF PathTypes
  <2>5. FarInv'
    <3>1. \A u \in Sessions, h \in FarIds : (Uses(u, h)' <=> Uses(u, h)) /\ (Begun(u, h)' <=> Begun(u, h))
      BY DEF Uses, Rules, Begun
    <3> QED BY <2>1, <3>1 DEF FarInv, GoodFar, FarFits, HalfFar
  <2>6. BufferInv'
    <3>1. SUFFICES ASSUME NEW u \in Sessions, NEW h \in DlFars
                   PROVE  /\ PageOf(u, h, far[u][h].buf)' /\ OrderOf(u, h, far[u][h].buf)'
                          /\ lastSent'[u][h] <= pkts'
                          /\ far'[u][h].buf # <<>> => far'[u][h].apply_action = "BUFF"
      BY DEF BufferInv
    <3>2. /\ PageOf(u, h, far[u][h].buf) /\ OrderOf(u, h, far[u][h].buf)
          /\ lastSent[u][h] <= pkts /\ h \in FarIds /\ lastSent[u][h] \in Nat
          /\ far[u][h].buf # <<>> => far[u][h].apply_action = "BUFF"
          /\ far[u][h].buf \in Seq(0 .. MaxPkts) /\ idle[u][h] \in BOOLEAN
      <4>1. h \in FarIds
        BY <3>1, FarFacts
      <4>2. far[u][h] \in FarRec
        BY <3>1, <4>1 DEF PathTypes
      <4>3. far[u][h].buf \in Seq(0 .. MaxPkts)
        BY <4>2 DEF FarRec
      <4>4. lastSent[u][h] \in Nat /\ idle[u][h] \in BOOLEAN
        BY <3>1, <4>1 DEF PathTypes
      <4> QED BY <3>1, <4>1, <4>3, <4>4 DEF BufferInv
    <3>3. \A i \in 1 .. Len(far[u][h].buf) : far[u][h].buf[i] \in Nat
      <4>1. far[u][h].buf \in Seq(0 .. MaxPkts)
        BY <3>2
      <4> QED BY ONLY <4>1, BufNats
    <3>4. CASE ~(u = s /\ h = f)
      <4>1. far'[u][h] = far[u][h] /\ reports'[u][h] = reports[u][h]
            /\ lastSent'[u][h] = lastSent[u][h] /\ idle'[u][h] = idle[u][h]
        BY <1>9, <2>1, <2>3, <3>2, <3>4
      <4>2. PageOf(u, h, far[u][h].buf)'
        BY <3>2, <4>1 DEF PageOf
      <4>3. OrderOf(u, h, far[u][h].buf)'
        BY <1>4, <2>1, <3>2, <3>3, <4>1, OrderKeep
      <4> QED BY <1>4, <3>2, <4>1, <4>2, <4>3
    <3>5. CASE u = s /\ h = f
      <4>1. far[u][h].buf = <<>>
        BY <1>2, <1>6, <1>12, <3>2, <3>5
      <4>2. reports'[u][h] = 0 /\ ~idle'[u][h] /\ far'[u][h].buf = <<>>
        BY <1>9, <1>12, <2>1, <3>2, <3>5, <4>1 DEF PageOf
      <4>3. lastSent'[u][h] <= pkts'
        BY <1>4, <2>3, <3>5
      <4> QED BY <4>2, <4>3, FarFacts DEF PageOf, OrderOf
    <3> QED BY <3>4, <3>5
  <2> QED BY <1>10, <2>4, <2>5, <2>6
<1> QED BY <1>11, <1>12

(* The PDR that _gtpv1_tun_recv_common_cb takes a packet by, and the PDR    *)
(* whose FAR it ends its loop with.                                         *)
Hits(s, class)  == {i \in 1 .. Len(pdr_list[s]) : CarriesDownlink(s, pdr_list[s][i], class)}
Hit(s, class)   == IF Hits(s, class) # {} THEN Min(Hits(s, class)) ELSE 0
Taken(s, class) == pdr_list[s][IF Hit(s, class) # 0 THEN Hit(s, class) ELSE FallbackPdr(s)]
Ended(s, class) == pdr_list[s][IF Hit(s, class) # 0 THEN Hit(s, class) ELSE Len(pdr_list[s])]

LEMMA DownlinkChoice ==
  ASSUME RuleInv, PathInv, main.pc = "idle", NEW s \in Sessions, pdr_list[s] # <<>>,
         NEW class
  PROVE  /\ Taken(s, class) \in Rules(s) /\ pdr[Taken(s, class)].id \in DlFars
         /\ Ended(s, class) \in Rules(s) /\ pdr[Ended(s, class)].far \in DlFars \cup {"ul"}
<1> USE DEF RuleInv
<1> DEFINE hit == Hit(s, class)
           list == pdr_list[s]
           I == Hits(s, class)
           J == {k \in 1 .. Len(list) : SrcIf(pdr[list[k]].id) = "CORE"}
<1>1. /\ list \in Seq(Slots) /\ Len(list) \in Nat /\ Len(list) > 0
      /\ \A k \in 1 .. Len(list) : list[k] \in Rules(s)
      /\ \A p \in Rules(s) : \E k \in 1 .. Len(list) : list[k] = p
  BY ListFacts
<1>2. \A p \in Rules(s) : pdr[p].id \in PdrIds /\ pdr[p].far = FarOf(pdr[p].id)
  BY RuleOfPacket
<1>3. \A id \in PdrIds : SrcIf(id) = "CORE" <=> id \in DlFars
  BY DEF SrcIf, DlFars, PdrIds, SessionPdrs, FlowPdrs
<1>4. \A id \in DlFars : FarOf(id) = id
  BY DEF FarOf, DlFars
<1>5. PICK d \in 1 .. Len(list) : pdr[list[d]].id = "dl"
  <2>1. HasId(s, "dl")
    <3>1. main.sess # s
      BY IdleFars
    <3> QED BY <3>1 DEF IdInv, SessionPdrs
  <2> QED BY <1>1, <2>1 DEF HasId
<1>6. CASE hit # 0
  <2>1. I # {} /\ I \subseteq Nat
    BY <1>6 DEF Hit, Hits
  <2>2. hit = Min(I)
    BY <2>1 DEF Hit
  <2>3. hit \in I
    BY <2>1, <2>2, MinIn
  <2>4. hit \in 1 .. Len(list) /\ SrcIf(pdr[list[hit]].id) = "CORE"
    BY <2>3 DEF Hits, CarriesDownlink
  <2> QED BY <1>1, <1>2, <1>3, <1>4, <1>6, <2>4 DEF Taken, Ended
<1>7. CASE hit = 0
  <2>1. J # {} /\ J \subseteq 1 .. Len(list)
    BY <1>5 DEF SrcIf
  <2>2. FallbackPdr(s) = Max(J)
    BY <2>1 DEF FallbackPdr, SelectLastInSeq
  <2>3. FallbackPdr(s) \in J
    BY <1>1, <2>1, <2>2, MaxIn
  <2>4. PICK n \in 1 .. Len(list) : n = Len(list)
    BY <1>1
  <2>5. Precedence(pdr[list[n]].id) = 3
    <3>1. list[n] \in Rules(s) /\ pdr[list[n]].id \in PdrIds
      BY <1>1, <1>2
    <3>2. Precedence("dl") = 3 /\ Precedence(pdr[list[n]].id) \in 1 .. 3
      BY <3>1, IdFacts DEF Precedence
    <3>3. CASE d = n
      BY <1>5, <3>2, <3>3
    <3>4. CASE d # n
      <4>1. d < n /\ pdr[list[n]].id # "none"
        BY <1>1, <2>4, <3>1, <3>4, IdFacts
      <4>2. Precedence(pdr[list[d]].id) <= Precedence(pdr[list[n]].id)
        BY <4>1 DEF SortedInv
      <4> QED BY <1>5, <3>2, <4>2
    <3> QED BY <3>3, <3>4
  <2>6. pdr[list[n]].id \in {"dl", "ul"}
    BY <1>1, <1>2, <2>5 DEF Precedence, PdrIds, SessionPdrs, FlowPdrs
  <2>7. pdr[list[n]].far \in DlFars \cup {"ul"}
    BY <1>1, <1>2, <2>6 DEF FarOf, DlFars
  <2> QED BY <1>1, <1>2, <1>3, <1>7, <2>3, <2>4, <2>7 DEF Taken, Ended
<1> QED BY <1>6, <1>7

LEMMA TunPath ==
  ASSUME RuleInv, PathInv, AddrTypes, NEW a \in Addrs, NEW class, tun_recv(a, class)
  PROVE  PathInv'
<1> USE DEF PathInv
<1>1. PICK s \in Sessions \cup {NoSess} : s = ipv4_hash[a]
  BY DEF AddrTypes
<1>2. /\ main.pc = "idle" /\ pkts < MaxPkts /\ pkts' = pkts + 1
      /\ UNCHANGED <<transport_mode, pdr, pdr_list, main, ul, ub>>
  BY DEF tun_recv, MainIdle, pdrVars
<1>3. pkts' \in 0 .. MaxPkts /\ pkts \in Nat /\ pkts' \in Nat
  BY <1>2, FarFacts DEF PathTypes
<1>4. WorkerInv'
  BY <1>2 DEF WorkerInv
<1>5. \A u \in Sessions, h \in FarIds : (Uses(u, h)' <=> Uses(u, h)) /\ (Begun(u, h)' <=> Begun(u, h))
  BY <1>2 DEF Uses, Rules, Begun
<1>6. CASE s = NoSess \/ (s # NoSess /\ pdr_list[s] = <<>>)
  <2>1. n3out' = <<>> /\ UNCHANGED <<far, reports, idle, lastSent>>
    BY <1>1, <1>6 DEF tun_recv, histVars
  <2>2. PathTypes'
    BY <1>3, <2>1, FarFacts DEF PathTypes
  <2>3. FarInv'
    BY <1>2, <1>5, <2>1 DEF FarInv, GoodFar, FarFits, HalfFar
  <2>4. BufferInv'
    <3>1. SUFFICES ASSUME transport_mode = "GTPU", NEW u \in Sessions, NEW h \in DlFars
                   PROVE  /\ PageOf(u, h, far[u][h].buf)' /\ OrderOf(u, h, far[u][h].buf)'
                          /\ lastSent'[u][h] <= pkts'
                          /\ far'[u][h].buf # <<>> => far'[u][h].apply_action = "BUFF"
      BY <1>2 DEF BufferInv
    <3>2. /\ PageOf(u, h, far[u][h].buf) /\ OrderOf(u, h, far[u][h].buf)
          /\ lastSent[u][h] <= pkts /\ lastSent[u][h] \in Nat
          /\ far[u][h].buf # <<>> => far[u][h].apply_action = "BUFF"
          /\ far[u][h].buf \in Seq(0 .. MaxPkts)
      BY <3>1, FarFacts DEF BufferInv, PathTypes, FarRec
    <3>3. \A i \in 1 .. Len(far[u][h].buf) : far[u][h].buf[i] \in Nat
      <4>1. far[u][h].buf \in Seq(0 .. MaxPkts)
        BY <3>2
      <4> QED BY ONLY <4>1, BufNats
    <3>4. PageOf(u, h, far[u][h].buf)'
      BY <2>1, <3>2 DEF PageOf
    <3>5. OrderOf(u, h, far[u][h].buf)'
      <4>1. h \in FarIds /\ far'[u][h] = far[u][h] /\ lastSent'[u][h] = lastSent[u][h]
        BY <2>1, <3>1, FarFacts
      <4> QED BY <1>2, <1>3, <3>2, <3>3, <4>1, OrderKeep
    <3> QED BY <1>2, <1>3, <2>1, <3>2, <3>4, <3>5
  <2> QED BY <1>4, <2>2, <2>3, <2>4
<1>7. CASE s \in Sessions /\ pdr_list[s] # <<>>
  <2>1. s \in Sessions
    BY <1>7
  <2>2. /\ Taken(s, class) \in Rules(s) /\ pdr[Taken(s, class)].id \in DlFars
        /\ Ended(s, class) \in Rules(s) /\ pdr[Ended(s, class)].far \in DlFars \cup {"ul"}
    BY <1>2, <1>7, DownlinkChoice
  <2>3. PICK p \in Rules(s) : p = Taken(s, class) /\ pdr[p].id \in DlFars
    BY <2>2
  <2>4. PICK q \in Rules(s) : q = Ended(s, class) /\ pdr[q].far \in DlFars \cup {"ul"}
    BY <2>2
  <2>5. s # NoSess
    BY <1>2, <1>7, IdleFars
  <2>6. /\ IF transport_mode = "QUIC" THEN n3_route_downlink(s, p, pdr[q].far)
                                      ELSE up_handle_pdr(s, p, pkts + 1)
        /\ idle' = [idle EXCEPT ![s][pdr[p].far] =
                      @ \/ far[s][pdr[p].far].apply_action = "BUFF"]
    <3> DEFINE S == ipv4_hash[a]
               P == Taken(S, class)
               Q == Ended(S, class)
    <3>1. S = s /\ P = p /\ Q = q
      BY <1>1, <2>3, <2>4
    <3>2. ~(S = NoSess \/ (S # NoSess /\ pdr_list[S] = <<>>))
      BY <1>7, <2>5, <3>1
    <3>3. /\ IF transport_mode = "QUIC" THEN n3_route_downlink(S, P, pdr[Q].far)
                                        ELSE up_handle_pdr(S, P, pkts + 1)
          /\ idle' = [idle EXCEPT ![S][pdr[P].far] =
                        @ \/ far[S][pdr[P].far].apply_action = "BUFF"]
      BY <3>2 DEF tun_recv, SelectInSeq, Hits, Hit, Taken, Ended
    <3> HIDE DEF S, P, Q
    <3> QED BY <3>1, <3>3
  <2>7. /\ pdr[p].far \in DlFars /\ pdr[p].far \in FarIds /\ pdr[p].id \in PdrIds
        /\ pdr[p].id # "up2cp"
        /\ far[s][pdr[p].far].dst_if # "CORE"
    <3>1. /\ pdr[p].far = FarOf(pdr[p].id) /\ pdr[p].far \in FarIds /\ pdr[p].id \in PdrIds
          /\ GoodFar(s, pdr[p].far, far[s][pdr[p].far])
      BY <1>2, <1>7, RuleOfPacket
    <3>2. pdr[p].far \in DlFars /\ pdr[p].id # "up2cp"
      BY <2>3, <3>1 DEF FarOf, DlFars
    <3> QED BY <3>1, <3>2 DEF GoodFar, FarFits
  <2>8. CASE transport_mode # "QUIC"
    <3>1. transport_mode = "GTPU"
      BY <2>8, ConstAssumption DEF RuleInv, RuleTypes
    <3> QED BY <1>2, <1>7, <2>6, <2>7, <2>8, <3>1, HandlePdr
  <2>9. CASE transport_mode = "QUIC"
    <3>1. PICK f \in FarIds : /\ f = pdr[q].far /\ f \in DlFars \cup {"ul"}
                              /\ far[s][f] \in FarRec /\ GoodFar(s, f, far[s][f])
      BY <1>2, <1>7, <2>4, RuleOfPacket
    <3>2. /\ n3out' = IF far[s][f].addr = NoIp THEN <<>>
                      ELSE <<[sess |-> s, pdr |-> pdr[p].id, to |-> far[s][f].addr,
                              teid |-> far[s][f].teid, pkt |-> pkts + 1]>>
          /\ UNCHANGED <<far, lastSent, reports>>
      BY <2>6, <2>9, <3>1 DEF n3_route_downlink
    <3>3. n3out' \in Seq(OwnDatagrams)
      <4>1. CASE far[s][f].addr = NoIp
        BY <3>2, <4>1, FarFacts
      <4>2. CASE far[s][f].addr # NoIp
        <5>1. far[s][f].teid = s /\ far[s][f].addr # Smf /\ far[s][f].addr \in Ips
          BY <3>1, <4>2, FarFacts DEF GoodFar, FarFits, FarRec
        <5> DEFINE d == [sess |-> s, pdr |-> pdr[p].id, to |-> far[s][f].addr,
                         teid |-> far[s][f].teid, pkt |-> pkts + 1]
        <5>2. d \in OwnDatagrams
          BY <1>3, <1>7, <2>7, <5>1 DEF OwnDatagrams
        <5>3. n3out' = <<d>>
          BY <3>2, <4>2
        <5> HIDE DEF d
        <5> QED BY <5>2, <5>3
      <4> QED BY <4>1, <4>2
    <3>4. idle' \in [Sessions -> [FarIds -> BOOLEAN]]
      <4>1. PICK g \in FarIds : g = pdr[p].far
        BY <2>7
      <4>2. PICK action : action = far[s][g].apply_action
        OBVIOUS
      <4>3. idle' = [idle EXCEPT ![s][g] = @ \/ action = "BUFF"]
        BY <2>6, <4>1, <4>2
      <4> QED BY <1>7, <4>3, IdleStep
    <3>5. PathTypes'
      BY <1>3, <3>2, <3>3, <3>4 DEF PathTypes
    <3>6. FarInv'
      BY <1>2, <1>5, <3>2 DEF FarInv, GoodFar, FarFits, HalfFar
    <3>7. BufferInv'
      BY <1>2, <2>9 DEF BufferInv
    <3> QED BY <1>4, <3>5, <3>6, <3>7
  <2> QED BY <2>8, <2>9
<1> QED BY <1>1, <1>6, <1>7

(* The PDR of a packet with TEID t is one of its session's. *)
LEMMA UplinkChoice ==
  ASSUME RuleTypes, NEW s \in Sessions, NEW t, NEW class, UplinkPdr(s, t, class) # 0
  PROVE  pdr_list[s][UplinkPdr(s, t, class)] \in Rules(s)
<1> DEFINE list == pdr_list[s]
           I == {i \in 1 .. Len(list) : pdr[list[i]].teid = t /\ class \in Matches(pdr[list[i]].id)}
<1>1. I # {} /\ I \subseteq Nat
  BY DEF UplinkPdr, SelectInSeq
<1>2. UplinkPdr(s, t, class) = Min(I)
  BY <1>1 DEF UplinkPdr, SelectInSeq
<1>3. UplinkPdr(s, t, class) \in I
  BY <1>1, <1>2, MinIn
<1> QED BY <1>3, ListFacts

LEMMA GtpuPath ==
  ASSUME RuleInv, PathInv, NEW t \in Slots, NEW class \in Classes, gtpu_recv(t, class)
  PROVE  PathInv'
<1>1. PICK s \in Sessions : s = object_teid_hash[t]
  BY DEF gtpu_recv, RuleInv, RuleTypes
<1>2. PICK p \in Rules(s) : p = pdr_list[s][UplinkPdr(s, t, class)]
  BY <1>1, UplinkChoice DEF gtpu_recv, RuleInv
<1>3. /\ main.pc = "idle" /\ transport_mode = "GTPU" /\ far[s][pdr[p].far].dst_if # "CORE"
      /\ pkts < MaxPkts /\ pkts' = pkts + 1 /\ up_handle_pdr(s, p, pkts + 1)
      /\ idle' = [idle EXCEPT ![s][pdr[p].far] =
                    @ \/ far[s][pdr[p].far].apply_action = "BUFF"]
      /\ UNCHANGED <<transport_mode, pdr, pdr_list, main, ul, ub>>
  BY <1>1, <1>2 DEF gtpu_recv, MainIdle, pdrVars
<1> QED BY <1>3, HandlePdr

-----------------------------------------------------------------------------
(* The MsQuic worker. *)

LEMMA WorkerFrame ==
  ASSUME RuleInv, PathInv, UNCHANGED <<ulVars, far>>, WorkerInv'
  PROVE  PathInv'
<1>1. UNCHANGED <<transport_mode, pdr, pdr_list, main, far, histVars, pkts, n3out>>
  BY DEF ulVars, pdrVars
<1>2. \A s \in Sessions, f \in FarIds : (Uses(s, f)' <=> Uses(s, f)) /\ (Begun(s, f)' <=> Begun(s, f))
  BY <1>1 DEF Uses, Rules, Begun
<1> QED BY <1>1, <1>2, PathFrame

LEMMA UplinkUsePath ==
  ASSUME RuleInv, PathInv, uplink_use
  PROVE  PathInv'
<1> USE DEF RuleInv, PathInv
<1>1. /\ transport_mode = "QUIC" /\ ul.pc = "use" /\ ul' = IdleUl
      /\ ub' \in {"none", "assert", "stale"} /\ UNCHANGED ulVars
  BY DEF uplink_use, WorkerInv
<1>2. UNCHANGED <<transport_mode, pdr, pdr_list, main, n3out, reports, idle, lastSent, pkts>>
  BY <1>1 DEF ulVars, pdrVars, histVars
<1>3. WorkerInv'
  BY <1>1, <1>2 DEF WorkerInv, IdleUl
<1>4. CASE far' = far
  BY <1>1, <1>3, <1>4, WorkerFrame
<1>5. CASE far' # far
  <2>1. PICK s \in Sessions : s = ul.sess /\ ul.teid \in Slots
    BY <1>1 DEF WorkerInv
  <2>2. PICK p \in Rules(s) : p = ul.pdr /\ pdr[p].teid = ul.teid
    BY <1>5, <2>1 DEF uplink_use, Rules
  <2>3. pdr[p].teid # NoSlot
    BY <2>1, <2>2, IdFacts
  <2>4. ~Fresh(s, p)
    <3>1. Fresh(s, p) => s = main.sess
      BY DEF Fresh
    <3> QED BY <2>3, <3>1 DEF TeidInv
  <2>5. PICK f \in FarIds : f = pdr[p].far
    BY <2>4, IdFacts DEF IdInv
  <2>6. Uses(s, f)
    BY <2>5 DEF Uses
  <2>7. far' = [far EXCEPT ![s][f].buf = buffer(far[s][f].buf, 0)]
    BY <1>5, <2>1, <2>2, <2>5 DEF uplink_use, PathTypes
  <2>8. PICK x \in 0 .. MaxPkts : x = 0
    BY FarFacts
  <2>9. /\ far' \in [Sessions -> [FarIds -> FarRec]]
        /\ \A u \in Sessions, h \in FarIds : Len(far'[u][h].buf) <= MaxBuf
        /\ FarInv'
    BY <1>2, <2>6, <2>7, <2>8, BufferFar
  <2>10. PathTypes'
    BY <1>2, <2>9 DEF PathTypes
  <2>11. BufferInv'
    BY <1>1, <1>2 DEF BufferInv
  <2> QED BY <1>3, <2>9, <2>10, <2>11
<1> QED BY <1>4, <1>5

-----------------------------------------------------------------------------
LEMMA PathNext == RuleInv /\ AddrTypes /\ PathInv /\ [Next]_vars => PathInv'
<1> SUFFICES ASSUME RuleInv, AddrTypes, PathInv, [Next]_vars PROVE PathInv'
  OBVIOUS
<1>0. /\ main.pc \in {"idle", "restore"} => main.sess = NoSess /\ main.created = {}
      /\ main.pc \notin {"idle", "restore"} => main.sess \in Sessions
      /\ IdleMain.sess = NoSess /\ IdleMain.created = {}
  BY DEF RuleInv, MainInv, RuleTypes, IdleMain
<1>1. CASE UNCHANGED vars
  BY <1>1, StartPath DEF vars, pdrVars, sessVars
<1>2. ASSUME NEW s \in Sessions, NEW a \in Addrs, session_establishment_request(s, a)
      PROVE  PathInv'
  <2>1. /\ main.pc = "idle" /\ n3out' = <<>>
        /\ main' = [IdleMain EXCEPT !.pc = "add", !.sess = s, !.addr = a, !.todo = "dl"]
        /\ UNCHANGED <<transport_mode, pdr, pdr_list, far, histVars, pkts, ul, ub>>
    BY <1>2 DEF session_establishment_request, MainIdle, pdrVars
  <2>2. main'.created = {}
    BY <2>1 DEF IdleMain
  <2> QED BY <1>0, <2>1, <2>2, StartPath
<1>3. ASSUME NEW s \in Sessions, create_flow_request(s) PROVE PathInv'
  <2>1. /\ main.pc = "idle" /\ n3out' = <<>>
        /\ main' = [IdleMain EXCEPT !.pc = "add", !.sess = s, !.todo = "qdl"]
        /\ UNCHANGED <<transport_mode, pdr, pdr_list, far, histVars, pkts, ul, ub>>
    BY <1>3 DEF create_flow_request, MainIdle, pdrVars, sessVars
  <2>2. main'.created = {}
    BY <2>1 DEF IdleMain
  <2> QED BY <1>0, <2>1, <2>2, StartPath
<1>4. ASSUME NEW s \in Sessions, remove_flow_request(s) PROVE PathInv'
  BY <1>4, RemoveFlowPath
<1>5. ASSUME NEW s \in Sessions, session_deletion_request(s) PROVE PathInv'
  <2>1. /\ main.pc = "idle" /\ main' = main /\ n3out' = <<>> /\ sess_clear(s)
        /\ UNCHANGED <<transport_mode, ul, ub, pkts>>
    BY <1>5 DEF session_deletion_request, MainIdle, sess_remove
  <2> QED BY <1>0, <2>1, ClearPath
<1>6. ASSUME NEW s \in Sessions, deletion_lost(s) PROVE PathInv'
  BY <1>6, StartPath DEF deletion_lost, pdrVars, sessVars
<1>7. ASSUME NEW s \in Sessions, NEW F \in SUBSET DlFars, NEW g \in Gnbs,
             activate_request(s, F, g)
      PROVE  PathInv'
  BY <1>7, ActivatePath
<1>8. ASSUME NEW s \in Sessions, deactivate_request(s) PROVE PathInv'
  BY <1>8, DeactivatePath
<1>9. CASE pdr_add
  BY <1>9, AddPath
<1>10. CASE handle_create_pdr
  BY <1>10, FillPath
<1>11. CASE session_accepted
  BY <1>11, AcceptPath
<1>12. CASE session_refused
  <2>1. PICK s \in Sessions : s = main.sess
    BY <1>0, <1>12 DEF session_refused
  <2>2. /\ sess_clear(s) /\ main' = IdleMain
        /\ UNCHANGED <<transport_mode, ul, ub, pkts, n3out>>
    BY <1>12, <2>1 DEF session_refused
  <2> QED BY <1>0, <2>1, <2>2, ClearPath
<1>13. CASE pfcp_restoration
  <2>1. /\ main.pc = "idle" /\ n3out' = <<>> /\ main' = [IdleMain EXCEPT !.pc = "restore"]
        /\ UNCHANGED <<transport_mode, pdr, pdr_list, far, histVars, pkts, ul, ub>>
    BY <1>13 DEF pfcp_restoration, MainIdle, pdrVars, sessVars
  <2>2. main'.created = {}
    BY <2>1 DEF IdleMain
  <2> QED BY <1>0, <2>1, <2>2, StartPath
<1>14. ASSUME NEW s \in Sessions, restoration_remove(s) PROVE PathInv'
  <2>1. /\ main.pc = "restore" /\ sess_clear(s) /\ main' \in {main, IdleMain}
        /\ UNCHANGED <<transport_mode, ul, ub, pkts, n3out>>
    BY <1>14 DEF restoration_remove, sess_remove
  <2> QED BY <1>0, <2>1, ClearPath
<1>15. ASSUME NEW a \in Addrs, NEW class \in {"flow", "other"}, tun_recv(a, class)
       PROVE  PathInv'
  BY <1>15, TunPath
<1>16. ASSUME NEW t \in Slots, NEW class \in Classes, gtpu_recv(t, class) PROVE PathInv'
  BY <1>16, GtpuPath
<1>17. ASSUME NEW t \in Slots, uplink_find(t) PROVE PathInv'
  <2>1. /\ transport_mode = "QUIC" /\ object_teid_hash[t] \in Sessions
        /\ ul' = [pc |-> "pick", teid |-> t, sess |-> object_teid_hash[t], pdr |-> NoSlot]
        /\ UNCHANGED <<ulVars, far, ub>>
    BY <1>17 DEF uplink_find, RuleInv, RuleTypes
  <2>2. WorkerInv'
    BY <2>1 DEF PathInv, WorkerInv, ulVars
  <2> QED BY <2>1, <2>2, WorkerFrame
<1>18. ASSUME NEW class \in Classes, uplink_pick(class) PROVE PathInv'
  <2>1. ul.pc = "pick" /\ UNCHANGED <<ulVars, far, ub>>
    BY <1>18 DEF uplink_pick
  <2>2. PICK s \in Sessions : s = ul.sess /\ transport_mode = "QUIC" /\ ul.teid \in Slots
    BY <2>1 DEF PathInv, WorkerInv
  <2>3. WorkerInv'
    <3>1. CASE UplinkPdr(s, ul.teid, class) = 0
      <4>1. ul' = IdleUl
        BY <1>18, <2>2, <3>1 DEF uplink_pick
      <4> QED BY <2>1, <4>1 DEF PathInv, WorkerInv, ulVars, IdleUl
    <3>2. CASE UplinkPdr(s, ul.teid, class) # 0
      <4>1. PICK p \in Slots : p = pdr_list[s][UplinkPdr(s, ul.teid, class)]
        BY <3>2, UplinkChoice, ListFacts DEF RuleInv
      <4>2. ul' = [ul EXCEPT !.pc = "use", !.pdr = p]
        BY <1>18, <2>2, <3>2, <4>1 DEF uplink_pick
      <4> QED BY <2>1, <2>2, <4>2 DEF PathInv, WorkerInv, ulVars
    <3> QED BY <3>1, <3>2
  <2> QED BY <2>1, <2>3, WorkerFrame
<1>19. CASE uplink_use
  BY <1>19, UplinkUsePath
<1> QED
  BY <1>1, <1>2, <1>3, <1>4, <1>5, <1>6, <1>7, <1>8, <1>9, <1>10, <1>11, <1>12,
     <1>13, <1>14, <1>15, <1>16, <1>17, <1>18, <1>19 DEF Next

LEMMA PathAlways == Spec => []PathInv
<1>1. RuleInv /\ (AddrTypes /\ AddrInv) /\ PathInv /\ [Next]_vars => PathInv'
  BY PathNext
<1> QED BY <1>1, PathInit, RuleAlways, AddrAlways, PTL DEF Spec

-----------------------------------------------------------------------------
(* The UPF's state has its types, and no FAR buffers more packets than      *)
(* OGS_MAX_NUM_OF_GTPU_BUFFER (ogs_pfcp_up_handle_pdr's check of            *)
(* num_of_buffered_gtpu).                                                   *)
THEOREM TypeCorrect == Spec => []TypeOK
<1>1. RuleInv /\ (AddrTypes /\ AddrInv) /\ PathInv => TypeOK
  <2> SUFFICES ASSUME RuleInv, AddrTypes, PathInv PROVE TypeOK
    OBVIOUS
  <2> USE DEF RuleInv, PathInv
  <2>1. /\ transport_mode \in Modes /\ pdr_pool \in Seq(Slots) /\ sess_list \subseteq Sessions
        /\ pdr_list \in [Sessions -> Seq(Slots)]
        /\ object_teid_hash \in [Slots -> Sessions \cup {NoSess}]
        /\ main.pc \in {"idle", "add", "fill", "finish", "cleanup", "restore"}
        /\ pdr \in [Slots -> [id : PdrIds \cup {"none"}, far : FarIds \cup {"none"},
                              teid : Slots \cup {NoSlot}]]
    BY DEF RuleTypes, PdrRec
  <2>2. \A s \in Sessions, f \in FarIds :
          /\ far[s][f].apply_action \in {"none", "FORW", "BUFF"}
          /\ far[s][f].dst_if \in {"none", "UNKNOWN", "ACCESS", "CORE", "CP"}
          /\ far[s][f].addr \in Ips /\ far[s][f].gnode \in Ips
          /\ far[s][f].teid \in Sessions \cup {NoSess}
          /\ Len(far[s][f].buf) <= MaxBuf
    BY DEF PathTypes, FarRec
  <2>3. ul.pc \in {"idle", "pick", "use"} /\ ub \in {"none", "assert", "stale"}
    BY DEF WorkerInv
  <2> QED BY <2>1, <2>2, <2>3 DEF TypeOK, AddrTypes
<1> QED BY <1>1, RuleAlways, AddrAlways, PathAlways, PTL

(* The asserts on pdr->far in _gtpv1_tun_recv_common_cb and                 *)
(* _gtpv1_u_recv_cb never fail on the main thread: refused, half-built and  *)
(* removed rules never leave a listed PDR without a FAR.                    *)
THEOREM RulesComplete == Spec => []RulesHaveFar
<1>1. RuleInv /\ PathInv => RulesHaveFar
  <2> SUFFICES ASSUME RuleInv, PathInv, main.pc = "idle", NEW s \in Sessions,
                      NEW p \in Rules(s)
               PROVE  pdr[p].far # "none" /\ far[s][pdr[p].far].apply_action # "none"
    BY DEF RulesHaveFar, Rules
  <2>1. PICK f \in FarIds : f = pdr[p].far /\ GoodFar(s, f, far[s][f])
    BY RuleOfPacket
  <2>2. f # "none" /\ far[s][f].apply_action # "none"
    BY <2>1 DEF GoodFar, FarFits, FarIds, DlFars
  <2> QED BY <2>1, <2>2
<1> QED BY <1>1, RuleAlways, PathAlways, PTL

(* Whatever FAR _gtpv1_tun_recv_common_cb ends its loop with, and over both *)
(* transports, a packet leaves only through a tunnel of its own session:    *)
(* to a gNB if it is for a UE, to the SMF if it is a router solicitation.   *)
THEOREM OwnTunnel == Spec => []RoutedToOwnTunnel
<1>1. PathInv => RoutedToOwnTunnel
  <2> SUFFICES ASSUME PathInv, NEW i \in DOMAIN n3out
               PROVE  /\ n3out[i].teid = n3out[i].sess
                      /\ n3out[i].to = Smf <=> n3out[i].pdr = "up2cp"
    BY DEF RoutedToOwnTunnel
  <2>1. n3out \in Seq(OwnDatagrams)
    BY DEF PathInv, PathTypes
  <2>2. n3out[i] \in OwnDatagrams
    BY <2>1
  <2> QED BY <2>2 DEF OwnDatagrams
<1> QED BY <1>1, PathAlways, PTL

(* Buffering, paging, path switches and flow changes never reorder the      *)
(* downlink packets of a FAR (ogs_pfcp_up_handle_pdr,                       *)
(* ogs_pfcp_send_buffered_gtpu).                                            *)
THEOREM DownlinkOrder == Spec => []BufferedInOrder
<1>1. PathInv => BufferedInOrder
  <2> SUFFICES ASSUME PathInv, transport_mode = "GTPU", NEW s \in Sessions, NEW f \in DlFars
               PROVE  LET b == <<lastSent[s][f]>> \o far[s][f].buf
                      IN \A i, j \in DOMAIN b : i < j => b[i] < b[j]
    BY DEF BufferedInOrder
  <2>1. f \in FarIds
    BY FarFacts
  <2>2. PICK c \in Seq(0 .. MaxPkts) : c = far[s][f].buf
    BY <2>1 DEF PathInv, PathTypes, FarRec
  <2>3. PICK n \in Nat : n = lastSent[s][f]
    BY <2>1 DEF PathInv, PathTypes
  <2>4. /\ \A i \in 1 .. Len(c) : n < c[i]
        /\ \A i, j \in 1 .. Len(c) : i < j => c[i] < c[j]
    BY <2>2, <2>3 DEF PathInv, BufferInv, OrderOf
  <2> DEFINE b == <<n>> \o c
  <2>5. /\ DOMAIN b = 1 .. Len(c) + 1 /\ b[1] = n /\ Len(c) \in Nat
        /\ \A i \in 2 .. Len(c) + 1 : i - 1 \in 1 .. Len(c) /\ b[i] = c[i - 1]
    BY <2>2, <2>3
  <2> HIDE DEF b
  <2>6. ASSUME NEW i \in DOMAIN b, NEW j \in DOMAIN b, i < j PROVE b[i] < b[j]
    <3>1. j \in 2 .. Len(c) + 1 /\ (i = 1 \/ i \in 2 .. Len(c) + 1)
      BY <2>5, <2>6
    <3>2. CASE i = 1
      BY <2>4, <2>5, <3>1, <3>2
    <3>3. CASE i \in 2 .. Len(c) + 1
      <4>1. i - 1 < j - 1 /\ i - 1 \in 1 .. Len(c) /\ j - 1 \in 1 .. Len(c)
        BY <2>5, <2>6, <3>1, <3>3
      <4> QED BY <2>4, <2>5, <3>1, <3>3, <4>1
    <3> QED BY <3>1, <3>2, <3>3
  <2> QED BY <2>2, <2>3, <2>6 DEF b
<1> QED BY <1>1, PathAlways, PTL

(* Over GTP-U, an idle UE is paged by the first of its packets and by no    *)
(* other (the report of ogs_pfcp_up_handle_pdr).                            *)
THEOREM PagedOnce == Spec => []GtpuPagesOnce
<1>1. PathInv => GtpuPagesOnce
  <2> SUFFICES ASSUME PathInv, transport_mode = "GTPU", NEW s \in Sessions, NEW f \in DlFars
               PROVE  reports[s][f] = IF idle[s][f] THEN 1 ELSE 0
    BY DEF GtpuPagesOnce, IdleUePagedOnce
  <2>1. /\ reports[s][f] = IF far[s][f].buf # <<>> THEN 1 ELSE 0
        /\ idle[s][f] <=> far[s][f].buf # <<>>
    BY DEF PathInv, BufferInv, PageOf
  <2> QED BY <2>1
<1> QED BY <1>1, PathAlways, PTL
=============================================================================
