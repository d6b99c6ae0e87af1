------------------------------- MODULE UpfN3 -------------------------------
(***************************************************************************)
(* Packet forwarding in the UPF: the PFCP sessions with their detection    *)
(* (PDR) and forwarding (FAR) rules, the tables that find a session by its *)
(* tunnel endpoint or its UE address, and the path of a packet through     *)
(* them (open5gs/src/upf/{gtp-path,n4-handler,context}.c, lib/pfcp).       *)
(*                                                                         *)
(* The UPF's main thread handles the SMF's requests, downlink packets and, *)
(* with GTP-U, uplink packets. With QUIC, uplink packets are routed on an  *)
(* MsQuic worker, which takes no lock: its look-ups and its uses are steps *)
(* of their own, and so are the steps of a PDR's creation.                 *)
(*                                                                         *)
(* The SMF is not under test. It sends what open5gs/src/smf builds for an  *)
(* IPv4 session of a 5G core: a default flow (dl, ul), the two rules of    *)
(* the router solicitation (cp2up, up2cp) and one dedicated flow (qdl,     *)
(* qul). A PDR's slot in ogs_pfcp_pdr_pool stands for its TEID as well:    *)
(* the two pools hand out and take back in step.                           *)
(***************************************************************************)
EXTENDS Naturals, Sequences, FiniteSets, SequencesExt

CONSTANTS
  Modes,     \* the transport modes considered, a subset of {"GTPU", "QUIC"}
  Sessions,  \* upf_sess_t objects; one per SMF F-SEID
  NoSess,    \* the null session
  Addrs,     \* UE addresses
  NoAddr,    \* no address
  Gnbs,      \* gNB addresses
  Smf,       \* the SMF's N4-U address
  NoIp,      \* no address, and no GTP node
  PoolSize,  \* slots of ogs_pfcp_pdr_pool (16 for each session in the code)
  MaxBuf,    \* OGS_MAX_NUM_OF_GTPU_BUFFER (64 in the code)
  MaxPkts,   \* bound on the downlink packets
  MaxCreates \* bound on the requests that create PDRs

ASSUME ConstAssumption ==
  /\ Modes \subseteq {"GTPU", "QUIC"} /\ Modes # {}
  /\ NoSess \notin Sessions /\ NoAddr \notin Addrs
  /\ Smf \notin Gnbs /\ NoIp \notin Gnbs \cup {Smf}
  /\ PoolSize \in Nat /\ MaxBuf \in Nat \ {0} /\ MaxPkts \in Nat /\ MaxCreates \in Nat

VARIABLES
  transport_mode,    \* upf_self()->transport_mode, from the configuration
  pdr,               \* the PDRs, by slot
  pdr_pool,          \* ogs_pfcp_pdr_pool's ring of free slots
  sess_list,         \* the UPF's sessions; nothing depends on their order
  pdr_list,          \* a session's PDRs, by precedence
  far,               \* a session's FARs, by FAR ID
  ipv4,              \* sess->ipv4
  ipv4_hash,         \* self.ipv4_hash
  object_teid_hash,  \* ogs_pfcp_self()'s table from TEID to session
  main,              \* the creation of PDRs the main thread is in
  ul,                \* the uplink packet the MsQuic worker is routing
  smfIp,             \* the SMF's sessions: the address of each, or NoAddr
  n3out,             \* the downlink datagrams the last step sent
  reports,           \* downlink data reports since a FAR began to buffer
  idle,              \* has a packet come for the FAR while it was to buffer?
  lastSent,          \* the newest packet that was sent by each FAR
  pkts, creates,     \* packets and creating requests so far
  ub                 \* "none", or how the process ended

Slots  == 1..PoolSize
NoSlot == 0   \* the null PDR, and no TEID

sessVars == <<sess_list, pdr_list, far, ipv4, ipv4_hash>>
pdrVars  == <<pdr, pdr_pool, object_teid_hash>>
histVars == <<reports, idle, lastSent>>
vars == <<transport_mode, pdrVars, sessVars, main, ul, smfIp, n3out, histVars,
          pkts, creates, ub>>

-----------------------------------------------------------------------------
(* The SMF's rules (smf/context.c, n4-build.c). *)

SessionPdrs == {"dl", "ul", "cp2up", "up2cp"}
FlowPdrs    == {"qdl", "qul"}
PdrIds      == SessionPdrs \cup FlowPdrs

(* The order in which a request creates them. *)
NextPdr(id) == CASE id = "dl"    -> "ul"
                 [] id = "ul"    -> "cp2up"
                 [] id = "cp2up" -> "up2cp"
                 [] id = "qdl"   -> "qul"
                 [] OTHER        -> "none"

FarIds == {"dl", "ul", "cp", "qdl", "qul"}
DlFars == {"dl", "qdl"}

Precedence(id) == CASE id \in {"qdl", "qul"}     -> 1
                    [] id \in {"cp2up", "up2cp"} -> 2
                    [] id \in {"dl", "ul"}       -> 3
SrcIf(id) == CASE id \in {"dl", "qdl"} -> "CORE"
               [] id = "cp2up"         -> "CP"
               [] OTHER                -> "ACCESS"
FarOf(id) == CASE id = "cp2up" -> "dl" [] id = "up2cp" -> "cp" [] OTHER -> id

(* The packets a PDR's SDF filters let through: all of them if it has none. *)
Classes == {"flow", "other", "rs"}
Matches(id) == CASE id \in {"qdl", "qul"} -> {"flow"}
                 [] id = "up2cp"          -> {"rs"}
                 [] OTHER                 -> Classes

(* PDRs with a local F-TEID; the SMF gives these three one CHOOSE ID. *)
HasTeid(id)  == id \in {"ul", "up2cp", "cp2up", "qul"}
SharesUl(id) == id \in {"up2cp", "qul"}

(* What a FAR is to do. The TEID of its outer header stands for the session it
   was given to at the tunnel's far end. *)
NewFar(f, s) ==
  [apply_action |-> IF f \in DlFars THEN "BUFF" ELSE "FORW",
   dst_if |-> CASE f \in DlFars -> "ACCESS" [] f = "cp" -> "CP" [] OTHER -> "CORE",
   addr   |-> IF f = "cp" THEN Smf ELSE NoIp,
   teid   |-> IF f = "cp" THEN s ELSE NoSess]

-----------------------------------------------------------------------------
Ips     == Gnbs \cup {Smf, NoIp}
NoFar   == [apply_action |-> "none", dst_if |-> "none", addr |-> NoIp,
            teid |-> NoSess, gnode |-> NoIp, buf |-> <<>>]
ZeroFar == [NoFar EXCEPT !.dst_if = "UNKNOWN"]

ZeroPdr == [id |-> "none", far |-> "none", teid |-> NoSlot]
IdleMain == [pc |-> "idle", sess |-> NoSess, addr |-> NoAddr,
             todo |-> "none", created |-> {}]
IdleUl   == [pc |-> "idle", teid |-> NoSlot, sess |-> NoSess, pdr |-> NoSlot]

TypeOK ==
  /\ transport_mode \in Modes
  /\ pdr \in [Slots -> [id : PdrIds \cup {"none"}, far : FarIds \cup {"none"},
                        teid : Slots \cup {NoSlot}]]
  /\ pdr_pool \in Seq(Slots)
  /\ sess_list \subseteq Sessions
  /\ pdr_list \in [Sessions -> Seq(Slots)]
  /\ \A s \in Sessions, f \in FarIds :
       /\ far[s][f].apply_action \in {"none", "FORW", "BUFF"}
       /\ far[s][f].dst_if \in {"none", "UNKNOWN", "ACCESS", "CORE", "CP"}
       /\ far[s][f].addr \in Ips /\ far[s][f].gnode \in Ips
       /\ far[s][f].teid \in Sessions \cup {NoSess}
       /\ Len(far[s][f].buf) <= MaxBuf
  /\ ipv4 \in [Sessions -> Addrs \cup {NoAddr}]
  /\ ipv4_hash \in [Addrs -> Sessions \cup {NoSess}]
  /\ object_teid_hash \in [Slots -> Sessions \cup {NoSess}]
  /\ main.pc \in {"idle", "add", "fill", "finish", "cleanup", "restore"}
  /\ ul.pc \in {"idle", "pick", "use"}
  /\ smfIp \in [Sessions -> Addrs \cup {NoAddr}]
  /\ ub \in {"none", "assert", "stale"}

Init ==
  /\ transport_mode \in Modes
  /\ pdr = [p \in Slots |-> ZeroPdr]
  /\ pdr_pool = [i \in Slots |-> i]
  /\ sess_list = {}
  /\ pdr_list = [s \in Sessions |-> <<>>]
  /\ far = [s \in Sessions |-> [f \in FarIds |-> NoFar]]
  /\ ipv4 = [s \in Sessions |-> NoAddr]
  /\ ipv4_hash = [a \in Addrs |-> NoSess]
  /\ object_teid_hash = [t \in Slots |-> NoSess]
  /\ main = IdleMain
  /\ ul = IdleUl
  /\ smfIp = [s \in Sessions |-> NoAddr]
  /\ n3out = <<>>
  /\ reports = [s \in Sessions |-> [f \in FarIds |-> 0]]
  /\ idle = [s \in Sessions |-> [f \in FarIds |-> FALSE]]
  /\ lastSent = [s \in Sessions |-> [f \in FarIds |-> 0]]
  /\ pkts = 0 /\ creates = 0
  /\ ub = "none"

Running  == ub = "none"
MainIdle == Running /\ main.pc = "idle"
HasFlow(s) == \E p \in ToSet(pdr_list[s]) : pdr[p].id = "qul"

-----------------------------------------------------------------------------
(* Creating PDRs and FARs. *)

insert_Unsorted(list, p, rules) == Append(list, p)

(* ogs_list_insert_sorted: before the first PDR of a greater precedence. *)
insert_sorted(list, p, rules) ==
  LET i == SelectInSeq(list, LAMBDA q : Precedence(rules[q].id) > Precedence(rules[p].id))
  IN IF i = 0 THEN Append(list, p) ELSE InsertAt(list, i, p)

(* A session establishment request for a session the UPF does not have. *)
session_establishment_request(s, a) ==
  /\ MainIdle
  /\ s \notin sess_list /\ smfIp[s] = NoAddr
  /\ a \notin {smfIp[t] : t \in Sessions}
  /\ creates < MaxCreates
  /\ creates' = creates + 1
  /\ smfIp' = [smfIp EXCEPT ![s] = a]
  /\ sess_list' = sess_list \cup {s}
  /\ main' = [IdleMain EXCEPT !.pc = "add", !.sess = s, !.addr = a,
                              !.todo = "dl"]
  /\ n3out' = <<>>
  /\ UNCHANGED <<transport_mode, pdrVars, pdr_list, far, ipv4, ipv4_hash, ul,
                 histVars, pkts, ub>>

(* A session modification request that creates the dedicated flow. *)
create_flow_request(s) ==
  /\ MainIdle
  /\ s \in sess_list /\ smfIp[s] # NoAddr
  /\ pdr_list[s] # <<>> /\ ~HasFlow(s)
  /\ creates < MaxCreates
  /\ creates' = creates + 1
  /\ main' = [IdleMain EXCEPT !.pc = "add", !.sess = s, !.todo = "qdl"]
  /\ n3out' = <<>>
  /\ UNCHANGED <<transport_mode, pdrVars, sessVars, ul, smfIp, histVars, pkts, ub>>

(* ogs_pfcp_pdr_add: a zeroed PDR at the end of the session's list, or none
   and the request is refused. *)
pdr_add ==
  /\ Running /\ main.pc = "add"
  /\ IF pdr_pool = <<>>
       THEN /\ main' = [main EXCEPT !.pc = "cleanup"]
            /\ UNCHANGED <<pdr, pdr_pool, pdr_list>>
       ELSE /\ pdr_pool' = Tail(pdr_pool)
            /\ pdr' = [pdr EXCEPT ![Head(pdr_pool)] = ZeroPdr]
            /\ pdr_list' = [pdr_list EXCEPT ![main.sess] =
                              Append(@, Head(pdr_pool))]
            /\ main' = [main EXCEPT !.pc = "fill"]
  /\ UNCHANGED <<transport_mode, object_teid_hash, sess_list, far, ipv4,
                 ipv4_hash, ul, smfIp, n3out, histVars, pkts, creates, ub>>

(* The rest of ogs_pfcp_handle_create_pdr: the PDR takes its place in the
   list, and its FAR exists from now on. *)
handle_create_pdr ==
  LET s == main.sess
      p == Last(pdr_list[s])
      id == main.todo
      new == [pdr EXCEPT ![p] = [ZeroPdr EXCEPT !.id = id, !.far = FarOf(id)]]
  IN /\ Running /\ main.pc = "fill"
     /\ pdr' = new
     /\ pdr_list' = [pdr_list EXCEPT ![s] = insert_sorted(Front(@), p, new)]
     /\ far' = IF far[s][FarOf(id)] = NoFar
                 THEN [far EXCEPT ![s][FarOf(id)] = ZeroFar]
                 ELSE far
     /\ main' = [main EXCEPT !.todo = NextPdr(id), !.created = @ \cup {p},
                             !.pc = IF NextPdr(id) = "none" THEN "finish" ELSE "add"]
     /\ UNCHANGED <<transport_mode, pdr_pool, object_teid_hash, sess_list, ipv4,
                    ipv4_hash, ul, smfIp, n3out, histVars, pkts, creates, ub>>

(* ogs_pfcp_setup_far_gtpu_node, for the FARs of a session; not with QUIC. *)
setup_gtpu_nodes(fars) ==
  [f \in FarIds |->
     IF transport_mode = "QUIC" \/ fars[f].addr = NoIp THEN fars[f]
     ELSE [fars[f] EXCEPT !.gnode = fars[f].addr]]

Flushes_DefaultFlow(fars) == {f \in {"dl"} : /\ fars[f].gnode # NoIp
                                             /\ fars[f].apply_action = "FORW"
                                             /\ fars[f].buf # <<>>}

(* ogs_pfcp_send_buffered_gtpu: the FARs of downlink PDRs that may flush. *)
Flushes(fars) == {f \in DlFars : /\ fars[f].gnode # NoIp
                                 /\ fars[f].apply_action = "FORW"
                                 /\ fars[f].buf # <<>>}

Datagram(F, s, id, pkt) ==
  [sess |-> s, pdr |-> id, to |-> F.gnode, teid |-> F.teid, pkt |-> pkt]

(* The end of every PFCP request of session s whose FARs are now fars: GTP
   nodes are set up, buffered packets sent; "extra" went out before them. *)
finish_request(s, fars, extra) ==
  LET nodes == setup_gtpu_nodes(fars)
      F == Flushes(nodes)
      sent(f) == IF f \in F
                   THEN [i \in DOMAIN nodes[f].buf |->
                           Datagram(nodes[f], s, f, nodes[f].buf[i])]
                   ELSE <<>>
  IN /\ far' = [far EXCEPT ![s] =
                  [f \in FarIds |-> IF f \in F THEN [nodes[f] EXCEPT !.buf = <<>>]
                                    ELSE nodes[f]]]
     /\ n3out' = extra \o sent("qdl") \o sent("dl")
     /\ lastSent' = [lastSent EXCEPT ![s] =
                       [f \in FarIds |-> IF f \in F THEN Last(nodes[f].buf) ELSE @[f]]]
     /\ reports' = [reports EXCEPT ![s] =
                       [f \in FarIds |-> IF nodes[f].apply_action = "BUFF"
                                         THEN @[f] ELSE 0]]
     /\ idle' = [idle EXCEPT ![s] =
                       [f \in FarIds |-> @[f] /\ nodes[f].apply_action = "BUFF"]]

(* ogs_pfcp_object_teid_hash_set: a PDR's own TEID, or the one of the PDR
   that already has its CHOOSE ID. *)
chosen_teid(p, s) ==
  IF ~HasTeid(pdr[p].id) THEN NoSlot
  ELSE IF SharesUl(pdr[p].id)
         THEN CHOOSE q \in ToSet(pdr_list[s]) : pdr[q].id = "ul"
         ELSE p

set_ue_ip_IfFree(s, a) ==
  /\ ipv4' = [ipv4 EXCEPT ![s] = a]
  /\ ipv4_hash' = IF ipv4_hash[a] = NoSess THEN [ipv4_hash EXCEPT ![a] = s]
                  ELSE ipv4_hash

(* upf_sess_set_ue_ip *)
set_ue_ip(s, a) ==
  /\ ipv4' = [ipv4 EXCEPT ![s] = a]
  /\ ipv4_hash' = [b \in Addrs |-> IF b = a THEN s
                                   ELSE IF b = ipv4[s] THEN NoSess
                                   ELSE ipv4_hash[b]]

(* The rest of the establishment or modification once the PDRs are there:
   the FARs, the UE's address, the TEIDs, the buffered packets. *)
session_accepted ==
  LET s == main.sess
      created == main.created
      teids == {chosen_teid(p, s) : p \in created} \ {NoSlot}
      new == [f \in FarIds |->
                IF f \in {pdr[p].far : p \in created}
                  THEN [far[s][f] EXCEPT
                          !.apply_action = NewFar(f, s).apply_action,
                          !.dst_if = NewFar(f, s).dst_if,
                          !.addr = NewFar(f, s).addr,
                          !.teid = NewFar(f, s).teid]
                  ELSE far[s][f]]
  IN /\ Running /\ main.pc = "finish"
     /\ pdr' = [p \in Slots |-> IF p \in created
                                  THEN [pdr[p] EXCEPT !.teid = chosen_teid(p, s)]
                                  ELSE pdr[p]]
     /\ object_teid_hash' = [t \in Slots |-> IF t \in teids THEN s
                                             ELSE object_teid_hash[t]]
     /\ IF main.addr # NoAddr THEN set_ue_ip(s, main.addr)
                              ELSE UNCHANGED <<ipv4, ipv4_hash>>
     /\ finish_request(s, new, <<>>)
     /\ main' = IdleMain
     /\ UNCHANGED <<transport_mode, pdr_pool, sess_list, pdr_list, ul, smfIp,
                    pkts, creates, ub>>

-----------------------------------------------------------------------------
(* Removing them. *)

pdr_remove_Unhash(s, rest, gone) ==
  /\ pdr_list' = [pdr_list EXCEPT ![s] = rest]
  /\ pdr_pool' = pdr_pool \o gone
  /\ pdr' = [p \in Slots |-> IF p \in ToSet(gone) THEN ZeroPdr ELSE pdr[p]]
  /\ object_teid_hash' = [t \in Slots |-> IF t \in {pdr[p].teid : p \in ToSet(gone)}
                                            THEN NoSess ELSE object_teid_hash[t]]

(* ogs_pfcp_pdr_remove for the PDRs of "gone", one after the other, which
   leaves those of "rest": a TEID is forgotten with the last PDR of the session
   that has it. *)
pdr_remove(s, rest, gone) ==
  LET teids == {pdr[p].teid : p \in ToSet(gone)} \ {pdr[p].teid : p \in ToSet(rest)}
  IN /\ pdr_list' = [pdr_list EXCEPT ![s] = rest]
     /\ pdr_pool' = pdr_pool \o gone
     /\ pdr' = [p \in Slots |-> IF p \in ToSet(gone) THEN ZeroPdr ELSE pdr[p]]
     /\ object_teid_hash' = [t \in Slots |-> IF t \in teids THEN NoSess
                                             ELSE object_teid_hash[t]]

NoReports == [f \in FarIds |-> 0]
NotIdle   == [f \in FarIds |-> FALSE]
NoFars    == [f \in FarIds |-> NoFar]

sess_clear_FarsOnly(s) ==
  /\ pdr_list' = [pdr_list EXCEPT ![s] = <<>>]
  /\ far' = [far EXCEPT ![s] = NoFars]
  /\ object_teid_hash' = [t \in Slots |-> IF object_teid_hash[t] = s THEN NoSess
                                            ELSE object_teid_hash[t]]
  /\ reports' = [reports EXCEPT ![s] = NoReports]
  /\ idle' = [idle EXCEPT ![s] = NotIdle]
  /\ lastSent' = [lastSent EXCEPT ![s] = NoReports]
  /\ UNCHANGED <<pdr, pdr_pool>>

(* ogs_pfcp_sess_clear: every PDR and FAR, with the packets it holds. *)
sess_clear(s) ==
  /\ pdr_remove(s, <<>>, pdr_list[s])
  /\ far' = [far EXCEPT ![s] = NoFars]
  /\ reports' = [reports EXCEPT ![s] = NoReports]
  /\ idle' = [idle EXCEPT ![s] = NotIdle]
  /\ lastSent' = [lastSent EXCEPT ![s] = NoReports]

(* A request was refused: the session loses all its rules but stays, and the
   SMF gives up on a session it could not establish. *)
session_refused ==
  LET s == main.sess
  IN /\ Running /\ main.pc = "cleanup"
     /\ sess_clear(s)
     /\ smfIp' = IF main.addr # NoAddr THEN [smfIp EXCEPT ![s] = NoAddr] ELSE smfIp
     /\ main' = IdleMain
     /\ UNCHANGED <<transport_mode, sess_list, ipv4, ipv4_hash, ul, n3out, pkts,
                    creates, ub>>

(* The PDR of session s with a given PDR ID (ogs_pfcp_pdr_find). *)
pdr_find(s, id) == CHOOSE p \in ToSet(pdr_list[s]) : pdr[p].id = id

remove_flow_request_KeepsDl(s) ==
  LET qul == pdr_find(s, "qul")
  IN /\ MainIdle
     /\ s \in sess_list /\ smfIp[s] # NoAddr /\ HasFlow(s)
     /\ pdr_remove(s, RemoveFirst(pdr_list[s], qul), <<qul>>)
     /\ finish_request(s, [far[s] EXCEPT !["qdl"] = NoFar, !["qul"] = NoFar], <<>>)
     /\ UNCHANGED <<transport_mode, sess_list, ipv4, ipv4_hash, main, ul, smfIp,
                    pkts, creates, ub>>

(* A session modification request that removes the dedicated flow. *)
remove_flow_request(s) ==
  LET qdl == pdr_find(s, "qdl")
      qul == pdr_find(s, "qul")
  IN /\ MainIdle
     /\ s \in sess_list /\ smfIp[s] # NoAddr /\ HasFlow(s)
     /\ pdr_remove(s, RemoveFirst(RemoveFirst(pdr_list[s], qdl), qul), <<qdl, qul>>)
     /\ finish_request(s, [far[s] EXCEPT !["qdl"] = NoFar, !["qul"] = NoFar], <<>>)
     /\ UNCHANGED <<transport_mode, sess_list, ipv4, ipv4_hash, main, ul, smfIp,
                    pkts, creates, ub>>

(* upf_sess_remove *)
sess_remove(s) ==
  /\ sess_clear(s)
  /\ sess_list' = sess_list \ {s}
  /\ ipv4' = [ipv4 EXCEPT ![s] = NoAddr]
  /\ ipv4_hash' = [a \in Addrs |-> IF a = ipv4[s] THEN NoSess ELSE ipv4_hash[a]]

session_deletion_request(s) ==
  /\ MainIdle
  /\ s \in sess_list /\ smfIp[s] # NoAddr
  /\ sess_remove(s)
  /\ smfIp' = [smfIp EXCEPT ![s] = NoAddr]
  /\ n3out' = <<>>
  /\ UNCHANGED <<transport_mode, main, ul, pkts, creates, ub>>

(* The SMF gives up on a deletion request that got no answer: the UPF keeps a
   session that the SMF no longer has, and whose address it may give away. *)
deletion_lost(s) ==
  /\ MainIdle
  /\ s \in sess_list /\ smfIp[s] # NoAddr
  /\ smfIp' = [smfIp EXCEPT ![s] = NoAddr]
  /\ n3out' = <<>>
  /\ UNCHANGED <<transport_mode, pdrVars, sessVars, main, ul, histVars, pkts,
                 creates, ub>>

(* pfcp_restoration: the SMF restarted and knows none of its sessions; the
   UPF removes them one by one. *)
pfcp_restoration ==
  /\ MainIdle
  /\ sess_list # {}
  /\ smfIp' = [s \in Sessions |-> NoAddr]
  /\ main' = [IdleMain EXCEPT !.pc = "restore"]
  /\ n3out' = <<>>
  /\ UNCHANGED <<transport_mode, pdrVars, sessVars, ul, histVars, pkts, creates, ub>>

restoration_remove(s) ==
  /\ Running /\ main.pc = "restore"
  /\ s \in sess_list
  /\ sess_remove(s)
  /\ main' = IF sess_list = {s} THEN IdleMain ELSE main
  /\ UNCHANGED <<transport_mode, ul, smfIp, n3out, pkts, creates, ub>>

-----------------------------------------------------------------------------
(* Updating FARs. *)

(* An update of the FARs in F: all downlink FARs of a session, or those of a
   flow that was just created. *)
FarUpdates(s) == {F \in {DlFars, {"qdl"}} : \A f \in F : far[s][f] # NoFar}
                   \cup (IF HasFlow(s) THEN {} ELSE {{"dl"}})

(* The gNB has set up its end, or the UE moved to another gNB: the old one
   gets an end marker for each FAR that has a GTP node. *)
activate_request(s, F, g) ==
  LET old == far[s]
      new == [f \in FarIds |->
                IF f \in F THEN [old[f] EXCEPT !.apply_action = "FORW", !.addr = g, !.teid = s]
                ELSE old[f]]
      moved == {f \in F : old[f].apply_action = "FORW" /\ old[f].addr # g}
      marker(f) == IF f \in moved /\ old[f].gnode # NoIp
                     THEN <<Datagram(old[f], s, f, 0)>> ELSE <<>>
  IN /\ MainIdle
     /\ s \in sess_list /\ smfIp[s] # NoAddr /\ pdr_list[s] # <<>>
     /\ F \in FarUpdates(s)
     /\ finish_request(s, new, marker("qdl") \o marker("dl"))
     /\ UNCHANGED <<transport_mode, pdrVars, sess_list, pdr_list, ipv4, ipv4_hash,
                    main, ul, smfIp, pkts, creates, ub>>

(* The UE goes idle; the FARs keep their outer headers. *)
deactivate_request(s) ==
  LET new == [f \in FarIds |->
                IF f \in DlFars /\ far[s][f] # NoFar
                  THEN [far[s][f] EXCEPT !.apply_action = "BUFF"] ELSE far[s][f]]
  IN /\ MainIdle
     /\ s \in sess_list /\ smfIp[s] # NoAddr /\ pdr_list[s] # <<>>
     /\ \E f \in DlFars : far[s][f].apply_action = "FORW"
     /\ finish_request(s, new, <<>>)
     /\ UNCHANGED <<transport_mode, pdrVars, sess_list, pdr_list, ipv4, ipv4_hash,
                    main, ul, smfIp, pkts, creates, ub>>

-----------------------------------------------------------------------------
(* Packets. *)

(* far->buffered_gtpu takes a packet, or drops it when it is full. *)
buffer_OffByOne(buf, pkt) == IF Len(buf) <= MaxBuf THEN Append(buf, pkt) ELSE buf

buffer(buf, pkt) == IF Len(buf) < MaxBuf THEN Append(buf, pkt) ELSE buf

up_handle_pdr_ReportsAll(s, p, pkt) ==
  LET f == pdr[p].far
      F == far[s][f]
      buffering == F.gnode = NoIp \/ F.apply_action # "FORW"
  IN /\ n3out' = IF buffering THEN <<>> ELSE <<Datagram(F, s, pdr[p].id, pkt)>>
     /\ lastSent' = IF buffering THEN lastSent ELSE [lastSent EXCEPT ![s][f] = pkt]
     /\ far' = IF buffering THEN [far EXCEPT ![s][f].buf = buffer(@, pkt)] ELSE far
     /\ reports' = IF buffering THEN [reports EXCEPT ![s][f] = @ + 1] ELSE reports

(* ogs_pfcp_up_handle_pdr: send, or buffer with a report for the first. *)
up_handle_pdr(s, p, pkt) ==
  LET f == pdr[p].far
      F == far[s][f]
      buffering == F.gnode = NoIp \/ F.apply_action # "FORW"
  IN /\ n3out' = IF buffering THEN <<>> ELSE <<Datagram(F, s, pdr[p].id, pkt)>>
     /\ lastSent' = IF buffering THEN lastSent ELSE [lastSent EXCEPT ![s][f] = pkt]
     /\ far' = IF buffering THEN [far EXCEPT ![s][f].buf = buffer(@, pkt)] ELSE far
     /\ reports' = IF buffering /\ F.buf = <<>>
                     THEN [reports EXCEPT ![s][f] = @ + 1] ELSE reports

(* upf_n3_route_downlink with QUIC: the packet goes to the address of the
   outer header of f, if it has one. *)
n3_route_downlink(s, p, f) ==
  /\ n3out' = IF far[s][f].addr = NoIp THEN <<>>
              ELSE <<[sess |-> s, pdr |-> pdr[p].id, to |-> far[s][f].addr,
                      teid |-> far[s][f].teid, pkt |-> pkts + 1]>>
  /\ UNCHANGED <<far, lastSent, reports>>

(* _gtpv1_tun_recv_common_cb: the first downlink PDR that can carry the
   packet, or the last downlink PDR of the list. "far" is the FAR of the PDR
   the loop stopped at, and of the last one when it ran to the end. *)
CarriesDownlink(s, p, class) ==
  /\ SrcIf(pdr[p].id) = "CORE"
  /\ far[s][pdr[p].far].dst_if = "ACCESS"
  /\ far[s][pdr[p].far].addr # NoIp
  /\ class \in Matches(pdr[p].id)

FallbackPdr(s) ==
  SelectLastInSeq(pdr_list[s], LAMBDA p : SrcIf(pdr[p].id) = "CORE")

tun_recv(a, class) ==
  LET s == ipv4_hash[a]
      list == pdr_list[s]
      hit == SelectInSeq(list, LAMBDA p : CarriesDownlink(s, p, class))
      p == list[IF hit # 0 THEN hit ELSE FallbackPdr(s)]
      f == pdr[list[IF hit # 0 THEN hit ELSE Len(list)]].far
  IN /\ MainIdle
     /\ pkts < MaxPkts
     /\ pkts' = pkts + 1
     /\ IF s = NoSess \/ (s # NoSess /\ list = <<>>)
          THEN n3out' = <<>> /\ UNCHANGED <<far, histVars>>
          ELSE /\ IF transport_mode = "QUIC"
                    THEN n3_route_downlink(s, p, f)
                    ELSE up_handle_pdr(s, p, pkts + 1)
               /\ idle' = [idle EXCEPT ![s][pdr[p].far] =
                             @ \/ far[s][pdr[p].far].apply_action = "BUFF"]
     /\ UNCHANGED <<transport_mode, pdrVars, sess_list, pdr_list, ipv4, ipv4_hash,
                    main, ul, smfIp, creates, ub>>

(* The PDR of session s that takes a packet with TEID t. *)
UplinkPdr(s, t, class) ==
  SelectInSeq(pdr_list[s], LAMBDA p : pdr[p].teid = t /\ class \in Matches(pdr[p].id))

(* _gtpv1_u_recv_cb: an uplink packet, or one of the SMF, over GTP-U. *)
gtpu_recv(t, class) ==
  LET s == object_teid_hash[t]
      p == pdr_list[s][UplinkPdr(s, t, class)]
  IN /\ MainIdle
     /\ transport_mode = "GTPU"
     /\ s # NoSess
     /\ UplinkPdr(s, t, class) # 0
     /\ far[s][pdr[p].far].dst_if # "CORE"
     /\ pkts < MaxPkts
     /\ pkts' = pkts + 1
     /\ up_handle_pdr(s, p, pkts + 1)
     /\ idle' = [idle EXCEPT ![s][pdr[p].far] =
                   @ \/ far[s][pdr[p].far].apply_action = "BUFF"]
     /\ UNCHANGED <<transport_mode, pdrVars, sess_list, pdr_list, ipv4, ipv4_hash,
                    main, ul, smfIp, creates, ub>>

(* upf_n3_route_uplink on the MsQuic worker: find the session, *)
ulVars == <<transport_mode, pdrVars, sess_list, pdr_list, ipv4, ipv4_hash, main,
            smfIp, n3out, histVars, pkts, creates>>

uplink_find(t) ==
  /\ Running /\ transport_mode = "QUIC"
  /\ ul.pc = "idle"
  /\ object_teid_hash[t] # NoSess
  /\ \A p \in Slots : pdr[p].teid = t => pdr[p].id # "cp2up"  \* the SMF's own
  /\ ul' = [pc |-> "pick", teid |-> t, sess |-> object_teid_hash[t],
            pdr |-> NoSlot]
  /\ UNCHANGED <<ulVars, far, ub>>

(* walk its PDRs, *)
uplink_pick(class) ==
  LET i == UplinkPdr(ul.sess, ul.teid, class)
  IN /\ Running /\ ul.pc = "pick"
     /\ ul' = IF i = 0 THEN IdleUl
              ELSE [ul EXCEPT !.pc = "use", !.pdr = pdr_list[ul.sess][i]]
     /\ UNCHANGED <<ulVars, far, ub>>

(* and use the PDR, its FAR and its session: memory that may have been freed
   meanwhile, or reused for a PDR whose far is still null. *)
uplink_use ==
  LET f == pdr[ul.pdr].far
  IN /\ Running /\ ul.pc = "use"
     /\ ul' = IdleUl
     /\ ub' = IF /\ ul.pdr \in ToSet(pdr_list[ul.sess])
                 /\ pdr[ul.pdr].teid = ul.teid
                THEN "none"
              ELSE IF ul.pdr \notin ToSet(pdr_pool) /\ f = "none" THEN "assert"
              ELSE "stale"
     /\ far' = IF ub' = "none" /\ far[ul.sess][f].dst_if # "CORE"
                 THEN [far EXCEPT ![ul.sess][f].buf = buffer(@, 0)] ELSE far
     /\ UNCHANGED ulVars

Next ==
  \/ \E s \in Sessions :
       \/ \E a \in Addrs : session_establishment_request(s, a)
       \/ create_flow_request(s)
       \/ remove_flow_request(s)
       \/ session_deletion_request(s)
       \/ deletion_lost(s)
       \/ \E F \in SUBSET DlFars, g \in Gnbs : activate_request(s, F, g)
       \/ deactivate_request(s)
  \/ pdr_add \/ handle_create_pdr \/ session_accepted \/ session_refused
  \/ pfcp_restoration
  \/ \E s \in Sessions : restoration_remove(s)
  \/ \E a \in Addrs, class \in {"flow", "other"} : tun_recv(a, class)
  \/ \E t \in Slots, class \in Classes : gtpu_recv(t, class)
  \/ \E t \in Slots : uplink_find(t)
  \/ \E class \in Classes : uplink_pick(class)
  \/ uplink_use

Spec == Init /\ [][Next]_vars

-----------------------------------------------------------------------------
(* Properties. *)

(* Every PDR with a TEID is found through object_teid_hash, and an entry goes
   no later than the PDR that got its TEID first, whose memory holds the key
   the table compares (ogs_hash_set keeps the first key): creating, refusing
   and removing rules, with several PDRs on one TEID, leaves no dangling entry
   and loses none (ogs_pfcp_object_teid_hash_set, ogs_pfcp_pdr_remove). *)
TeidTableMatchesRules ==
  /\ \A t \in Slots : object_teid_hash[t] # NoSess =>
       t \in ToSet(pdr_list[object_teid_hash[t]]) /\ pdr[t].teid = t
  /\ \A s \in Sessions : \A p \in ToSet(pdr_list[s]) :
       pdr[p].teid # NoSlot => object_teid_hash[pdr[p].teid] = s

(* No PDR is lost or linked twice: each slot of ogs_pfcp_pdr_pool is free or
   in the list of exactly one session the UPF has. *)
PdrOwnership ==
  /\ IsInjective(pdr_pool)
  /\ \A s \in Sessions :
       /\ IsInjective(pdr_list[s])
       /\ pdr_list[s] # <<>> => s \in sess_list
  /\ \A p \in Slots :
       Cardinality({s \in Sessions : p \in ToSet(pdr_list[s])})
         = IF p \in ToSet(pdr_pool) THEN 0 ELSE 1

(* The asserts on pdr->far in _gtpv1_tun_recv_common_cb and _gtpv1_u_recv_cb
   cannot fail: whenever the main thread may look at a packet, every PDR in a
   list has a FAR that exists. *)
RulesHaveFar ==
  main.pc = "idle" =>
    \A s \in Sessions : \A p \in ToSet(pdr_list[s]) :
      pdr[p].far # "none" /\ far[s][pdr[p].far].apply_action # "none"

(* A session the SMF has is found by its UE's address, even when the UPF still
   keeps an older session with that address whose deletion was lost. *)
SessionFoundByAddress ==
  \A s \in sess_list :
    smfIp[s] # NoAddr /\ main.sess # s => ipv4_hash[smfIp[s]] = s

(* Whatever the FAR that _gtpv1_tun_recv_common_cb ends its loop with, a
   packet for a UE only leaves to a gNB, with a TEID of the UE's own session;
   only a router solicitation goes to the SMF. *)
RoutedToOwnTunnel ==
  \A i \in DOMAIN n3out :
    /\ n3out[i].teid = n3out[i].sess
    /\ n3out[i].to = Smf <=> n3out[i].pdr = "up2cp"

(* Downlink packets of a FAR keep their order across idle periods and path
   switches: what is buffered is in order and newer than what was sent. With
   GTP-U only: over QUIC no downlink packet is ever buffered. *)
BufferedInOrder ==
  transport_mode = "GTPU" =>
  \A s \in Sessions, f \in DlFars :
    LET b == <<lastSent[s][f]>> \o far[s][f].buf
    IN \A i, j \in DOMAIN b : i < j => b[i] < b[j]

(* The packets of an idle UE get the SMF to page it, and only the first of
   them does: "Only the first time a packet is buffered, it reports downlink
   notifications" (lib/pfcp/handler.c). *)
IdleUePagedOnce ==
  \A s \in Sessions, f \in DlFars : reports[s][f] = IF idle[s][f] THEN 1 ELSE 0

(* The same when the N3 interface is GTP-U. *)
GtpuPagesOnce == transport_mode = "GTPU" => IdleUePagedOnce

(* upf_n3_route_uplink only uses rules that exist: its ogs_assert(far) holds,
   and the PDR it picked is still its session's. *)
UplinkUsesLiveRules == ub = "none"
=============================================================================
