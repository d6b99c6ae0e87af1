---------------------------- MODULE UpfN3Proofs ----------------------------
(***************************************************************************)
(* The UPF's rule tables, for any number of sessions, addresses and gNBs   *)
(* and a rule pool of any size: who owns a PDR, which PDRs and TEIDs a     *)
(* session has, and in which order.                                        *)
(*                                                                         *)
(* Everything here is about the variables of ruleVars. Packets and FAR     *)
(* updates leave them alone, so only the requests that create and remove   *)
(* rules take part in the induction.                                       *)
(***************************************************************************)
EXTENDS UpfN3, SequenceFacts, FiniteSetTheorems

ruleVars == <<transport_mode, pdr, pdr_pool, sess_list, pdr_list,
              object_teid_hash, main>>

Rules(s)     == ToSet(pdr_list[s])
HasId(s, id) == \E p \in Rules(s) : pdr[p].id = id

PdrRec == [id : PdrIds \cup {"none"}, far : FarIds \cup {"none"},
           teid : Slots \cup {NoSlot}]

RuleTypes ==
  /\ transport_mode \in Modes
  /\ pdr \in [Slots -> PdrRec]
  /\ pdr_pool \in Seq(Slots)
  /\ sess_list \subseteq Sessions
  /\ pdr_list \in [Sessions -> Seq(Slots)]
  /\ object_teid_hash \in [Slots -> Sessions \cup {NoSess}]
  /\ main \in [pc : {"idle", "add", "fill", "finish", "cleanup", "restore"},
               sess : Sessions \cup {NoSess}, addr : Addrs \cup {NoAddr},
               todo : PdrIds \cup {"none"}, created : SUBSET Slots]

(* A slot is in one place, once: the pool, or the list of a session.        *)
OwnInv ==
  /\ IsInjective(pdr_pool)
  /\ \A s \in Sessions :
       /\ IsInjective(pdr_list[s])
       /\ Rules(s) # {} => s \in sess_list
       /\ \A p \in Rules(s) : p \notin ToSet(pdr_pool)
       /\ \A u \in Sessions : \A p \in Rules(s) : p \in Rules(u) => u = s
  /\ \A p \in Slots : p \in ToSet(pdr_pool) \/ \E s \in Sessions : p \in Rules(s)

(* The PDR that ogs_pfcp_pdr_add has just linked, still zeroed. *)
Fresh(s, p) == main.pc = "fill" /\ s = main.sess /\ p = Last(pdr_list[s])

(* The PDR IDs a request creates, and those its session has so far. *)
Wanted == IF main.addr # NoAddr THEN SessionPdrs ELSE FlowPdrs
Done == CASE main.todo = "dl"    -> {}
          [] main.todo = "ul"    -> {"dl"}
          [] main.todo = "cp2up" -> {"dl", "ul"}
          [] main.todo = "up2cp" -> {"dl", "ul", "cp2up"}
          [] main.todo = "qdl"   -> SessionPdrs
          [] main.todo = "qul"   -> SessionPdrs \cup {"qdl"}
          [] OTHER -> IF main.addr # NoAddr THEN SessionPdrs ELSE PdrIds

(* How far the request that the main thread is handling has got. *)
MainInv ==
  /\ main.pc \in {"idle", "restore"} => main = [IdleMain EXCEPT !.pc = main.pc]
  /\ main.pc \notin {"idle", "restore"} => main.sess \in sess_list
  /\ main.pc \in {"add", "fill"} => main.todo \in Wanted
  /\ main.pc = "fill" => pdr_list[main.sess] # <<>>
  /\ main.pc = "finish" => main.todo = "none"
  /\ main.pc \in {"add", "fill", "finish"} =>
       /\ \A id \in PdrIds : HasId(main.sess, id) <=> id \in Done
       /\ main.created \subseteq Rules(main.sess)
       /\ \A p \in Rules(main.sess) : p \in main.created <=> pdr[p].id \in Wanted

(* A session has each PDR once, filled in, and apart from the one that is   *)
(* being given rules it has all four, and both of a flow or none.           *)
IdInv ==
  \A s \in Sessions :
    /\ \A p, q \in Rules(s) : pdr[p].id = pdr[q].id => p = q
    /\ \A p \in Rules(s) :
         /\ Fresh(s, p) => pdr[p] = ZeroPdr
         /\ ~Fresh(s, p) => pdr[p].id \in PdrIds /\ pdr[p].far = FarOf(pdr[p].id)
    /\ main.sess # s =>
         /\ pdr_list[s] # <<>> => \A id \in SessionPdrs : HasId(s, id)
         /\ HasId(s, "qdl") <=> HasId(s, "qul")

(* The TEID a PDR has: none before the request is accepted, then its own or *)
(* the one of its session's uplink PDR.                                     *)
TeidOf(s, p, t) ==
  LET id == pdr[p].id
  IN IF ~HasTeid(id) THEN t = NoSlot
     ELSE IF SharesUl(id) THEN \A q \in Rules(s) : pdr[q].id = "ul" => t = q
     ELSE t = p

TeidInv ==
  \A s \in Sessions : \A p \in Rules(s) :
    IF s = main.sess /\ (Fresh(s, p) \/ p \in main.created)
      THEN pdr[p].teid = NoSlot
      ELSE TeidOf(s, p, pdr[p].teid)

(* A list is sorted, but for a PDR that has just been linked.               *)
SortedInv ==
  \A s \in Sessions : \A i, j \in 1 .. Len(pdr_list[s]) :
    i < j /\ pdr[pdr_list[s][j]].id # "none" =>
      Precedence(pdr[pdr_list[s][i]].id) <= Precedence(pdr[pdr_list[s][j]].id)

RuleInv == /\ RuleTypes /\ OwnInv /\ MainInv /\ IdInv /\ TeidInv
           /\ TeidTableMatchesRules /\ SortedInv

-----------------------------------------------------------------------------
LEMMA RuleInit == Init => RuleInv
<1> SUFFICES ASSUME Init PROVE RuleInv
  OBVIOUS
<1> USE ConstAssumption DEF Init, NoSlot
<1>1. Slots = 1 .. PoolSize /\ PoolSize \in Nat /\ Slots \subseteq Nat
  BY DEF Slots
<1>2. pdr_pool \in Seq(Slots) /\ Len(pdr_pool) = PoolSize /\ ToSet(pdr_pool) = Slots
      /\ IsInjective(pdr_pool)
  <2>1. pdr_pool \in [1 .. PoolSize -> Slots]
    BY <1>1
  <2>2. pdr_pool \in Seq(Slots) /\ DOMAIN pdr_pool = 1 .. PoolSize
    BY <1>1, <2>1, IsASeq
  <2>3. ToSet(pdr_pool) = Slots
    BY <1>1, <2>2 DEF ToSet
  <2>4. IsInjective(pdr_pool)
    BY <1>1, <2>2 DEF IsInjective
  <2> QED BY <1>1, <2>2, <2>3, <2>4
<1>3. \A s \in Sessions : Rules(s) = {} /\ pdr_list[s] = <<>> /\ IsInjective(pdr_list[s])
  BY EmptyFacts DEF Rules
<1>4. RuleTypes
  <2>1. pdr \in [Slots -> PdrRec]
    BY DEF PdrRec, ZeroPdr
  <2>2. pdr_list \in [Sessions -> Seq(Slots)]
    BY EmptyFacts
  <2> QED BY <1>2, <2>1, <2>2 DEF RuleTypes, IdleMain
<1>5. OwnInv
  BY <1>2, <1>3 DEF OwnInv
<1>6. MainInv
  BY DEF MainInv, IdleMain
<1>7. IdInv /\ TeidInv /\ SortedInv
  BY <1>3 DEF IdInv, TeidInv, SortedInv, HasId
<1>8. TeidTableMatchesRules
  BY <1>3 DEF TeidTableMatchesRules, Rules
<1> QED BY <1>4, <1>5, <1>6, <1>7, <1>8 DEF RuleInv

LEMMA RuleFrame ==
  ASSUME RuleInv, UNCHANGED ruleVars
  PROVE  RuleInv'
BY DEF RuleInv, ruleVars, RuleTypes, OwnInv, MainInv, IdInv, TeidInv, SortedInv,
       TeidTableMatchesRules, Rules, HasId, Fresh, Wanted, Done, TeidOf

(* What the types and the ownership say of a list. *)
LEMMA ListFacts ==
  ASSUME RuleTypes, NEW s \in Sessions
  PROVE  /\ pdr_list[s] \in Seq(Slots)
         /\ Rules(s) \subseteq Slots
         /\ Rules(s) = {} <=> pdr_list[s] = <<>>
         /\ \A p \in Rules(s) : \E i \in 1 .. Len(pdr_list[s]) : pdr_list[s][i] = p
         /\ \A i \in 1 .. Len(pdr_list[s]) : pdr_list[s][i] \in Rules(s)
         /\ Len(pdr_list[s]) \in Nat
<1>1. pdr_list[s] \in Seq(Slots)
  BY DEF RuleTypes
<1> QED BY <1>1, ToSetType DEF Rules

LEMMA IdFacts ==
  /\ \A id \in PdrIds : /\ FarOf(id) \in FarIds
                        /\ Precedence(id) \in 1 .. 3
                        /\ id # "none"
  /\ "none" \notin PdrIds /\ NoSlot \notin Slots
  /\ SessionPdrs \subseteq PdrIds /\ FlowPdrs \subseteq PdrIds
  /\ SessionPdrs \cap FlowPdrs = {}
BY ConstAssumption DEF PdrIds, SessionPdrs, FlowPdrs, FarOf, FarIds, Precedence,
   NoSlot, Slots

-----------------------------------------------------------------------------
(* The start of a request. *)

LEMMA EstablishRule ==
  ASSUME RuleInv, NEW s \in Sessions, NEW a \in Addrs,
         session_establishment_request(s, a)
  PROVE  RuleInv'
<1> USE DEF RuleInv
<1>1. /\ main.pc = "idle" /\ s \notin sess_list /\ sess_list' = sess_list \cup {s}
      /\ main' = [IdleMain EXCEPT !.pc = "add", !.sess = s, !.addr = a, !.todo = "dl"]
      /\ UNCHANGED <<transport_mode, pdr, pdr_pool, pdr_list, object_teid_hash>>
  BY DEF session_establishment_request, MainIdle, pdrVars
<1>2. /\ main'.pc = "add" /\ main'.sess = s /\ main'.addr = a /\ a # NoAddr
      /\ main'.todo = "dl" /\ main'.created = {}
  BY <1>1, ConstAssumption DEF IdleMain
<1>3. Rules(s) = {} /\ main.sess = NoSess
  BY <1>1 DEF OwnInv, MainInv, IdleMain
<1>4. RuleTypes'
  BY <1>1 DEF RuleTypes, IdleMain, PdrIds, SessionPdrs
<1>5. OwnInv'
  BY <1>1 DEF OwnInv, Rules
<1>6. MainInv'
  <2>1. Done' = {} /\ Wanted' = SessionPdrs
    BY <1>2 DEF Done, Wanted
  <2>2. \A id \in PdrIds : ~HasId(s, id)'
    BY <1>1, <1>3 DEF HasId, Rules
  <2> QED BY <1>1, <1>2, <1>3, <2>1, <2>2 DEF MainInv, Rules, SessionPdrs
<1>7. \A u \in Sessions : \A p \in Rules(u) : ~Fresh(u, p) /\ ~Fresh(u, p)'
  BY <1>1, <1>2 DEF Fresh
<1>8. IdInv'
  BY <1>1, <1>3, <1>7, ConstAssumption DEF IdInv, Rules, HasId
<1>9. TeidInv'
  BY <1>1, <1>2, <1>3, <1>7, ConstAssumption DEF TeidInv, TeidOf, Rules
<1>10. SortedInv' /\ TeidTableMatchesRules'
  BY <1>1 DEF SortedInv, TeidTableMatchesRules
<1> QED BY <1>4, <1>5, <1>6, <1>8, <1>9, <1>10

LEMMA CreateFlowRule ==
  ASSUME RuleInv, NEW s \in Sessions, create_flow_request(s)
  PROVE  RuleInv'
<1> USE DEF RuleInv
<1>1. /\ main.pc = "idle" /\ s \in sess_list /\ pdr_list[s] # <<>> /\ ~HasId(s, "qul")
      /\ main' = [IdleMain EXCEPT !.pc = "add", !.sess = s, !.todo = "qdl"]
      /\ UNCHANGED <<transport_mode, pdr, pdr_pool, sess_list, pdr_list, object_teid_hash>>
  BY DEF create_flow_request, MainIdle, pdrVars, sessVars, HasFlow, HasId, Rules
<1>2. /\ main'.pc = "add" /\ main'.sess = s /\ main'.addr = NoAddr
      /\ main'.todo = "qdl" /\ main'.created = {}
  BY <1>1 DEF IdleMain
<1>3. main.sess = NoSess
  BY <1>1 DEF MainInv, IdleMain
<1>4. RuleTypes'
  BY <1>1 DEF RuleTypes, IdleMain, PdrIds, FlowPdrs
<1>5. OwnInv'
  BY <1>1 DEF OwnInv, Rules
<1>6. MainInv'
  <2>1. Done' = SessionPdrs /\ Wanted' = FlowPdrs
    BY <1>2 DEF Done, Wanted
  <2>2. HasId(s, "qdl") <=> HasId(s, "qul")
    BY <1>3, ConstAssumption DEF IdInv
  <2>3. \A id \in SessionPdrs : HasId(s, id)
    BY <1>1, <1>3, ConstAssumption DEF IdInv
  <2>4. \A id \in FlowPdrs : ~HasId(s, id)
    BY <1>1, <2>2 DEF FlowPdrs
  <2>5. \A id \in PdrIds : HasId(s, id)' <=> id \in Done'
    BY <1>1, <2>1, <2>3, <2>4, IdFacts DEF HasId, Rules, PdrIds
  <2>6. \A p \in Rules(s) : pdr[p].id \notin FlowPdrs
    BY <2>4 DEF HasId
  <2> QED BY <1>1, <1>2, <2>1, <2>5, <2>6 DEF MainInv, Rules, FlowPdrs
<1>7. \A u \in Sessions : \A p \in Rules(u) : ~Fresh(u, p) /\ ~Fresh(u, p)'
  BY <1>1, <1>2 DEF Fresh
<1>8. IdInv'
  BY <1>1, <1>3, <1>7, ConstAssumption DEF IdInv, Rules, HasId
<1>9. TeidInv'
  BY <1>1, <1>2, <1>3, <1>7, ConstAssumption DEF TeidInv, TeidOf, Rules
<1>10. SortedInv' /\ TeidTableMatchesRules'
  BY <1>1 DEF SortedInv, TeidTableMatchesRules
<1> QED BY <1>4, <1>5, <1>6, <1>8, <1>9, <1>10

LEMMA RestorationRule ==
  ASSUME RuleInv, pfcp_restoration
  PROVE  RuleInv'
<1> USE DEF RuleInv
<1>1. /\ main.pc = "idle" /\ main' = [IdleMain EXCEPT !.pc = "restore"]
      /\ UNCHANGED <<transport_mode, pdr, pdr_pool, sess_list, pdr_list, object_teid_hash>>
  BY DEF pfcp_restoration, MainIdle, pdrVars, sessVars
<1>2. main'.pc = "restore" /\ main'.sess = NoSess /\ main.sess = NoSess
  BY <1>1 DEF MainInv, IdleMain
<1>3. RuleTypes' /\ MainInv'
  BY <1>1, <1>2 DEF RuleTypes, MainInv, IdleMain
<1>4. OwnInv' /\ SortedInv' /\ TeidTableMatchesRules'
  BY <1>1 DEF OwnInv, Rules, SortedInv, TeidTableMatchesRules
<1>5. \A u \in Sessions : \A p \in Rules(u) : ~Fresh(u, p) /\ ~Fresh(u, p)'
  BY <1>1, <1>2 DEF Fresh
<1>6. IdInv' /\ TeidInv'
  BY <1>1, <1>2, <1>5, ConstAssumption DEF IdInv, TeidInv, TeidOf, Rules, HasId
<1> QED BY <1>3, <1>4, <1>6

-----------------------------------------------------------------------------
(* The steps of a PDR's creation. *)

LEMMA AddRule ==
  ASSUME RuleInv, pdr_add
  PROVE  RuleInv'
<1> USE DEF RuleInv
<1>1. PICK s \in Sessions : main.pc = "add" /\ s = main.sess /\ s \in sess_list
  BY DEF pdr_add, MainInv, RuleTypes
<1>2. UNCHANGED <<transport_mode, sess_list, object_teid_hash>>
  BY DEF pdr_add
<1>3. CASE pdr_pool = <<>>
  <2>1. /\ main' = [main EXCEPT !.pc = "cleanup"]
        /\ UNCHANGED <<pdr, pdr_pool, pdr_list>>
    BY <1>3 DEF pdr_add
  <2>2. /\ main'.pc = "cleanup" /\ main'.sess = s /\ main'.created = main.created
        /\ main' \in [pc : {"idle", "add", "fill", "finish", "cleanup", "restore"},
               sess : Sessions \cup {NoSess}, addr : Addrs \cup {NoAddr},
               todo : PdrIds \cup {"none"}, created : SUBSET Slots]
    BY <1>1, <2>1 DEF RuleTypes
  <2>3. RuleTypes' /\ MainInv'
    BY <1>1, <1>2, <2>1, <2>2 DEF RuleTypes, MainInv
  <2>4. OwnInv' /\ SortedInv' /\ TeidTableMatchesRules'
    BY <1>2, <2>1 DEF OwnInv, Rules, SortedInv, TeidTableMatchesRules
  <2>5. \A u \in Sessions : \A q \in Rules(u) : ~Fresh(u, q) /\ ~Fresh(u, q)'
    BY <1>1, <2>2 DEF Fresh
  <2>6. IdInv' /\ TeidInv'
    BY <2>1, <2>2, <2>5 DEF IdInv, TeidInv, TeidOf, Rules, HasId
  <2> QED BY <2>3, <2>4, <2>6
<1>4. CASE pdr_pool # <<>>
  <2>0. PICK p \in Slots : p = Head(pdr_pool)
    BY <1>4, TailFacts DEF RuleTypes, OwnInv
  <2>1. /\ pdr_pool' = Tail(pdr_pool)
        /\ pdr' = [pdr EXCEPT ![p] = ZeroPdr]
        /\ pdr_list' = [pdr_list EXCEPT ![s] = Append(@, p)]
        /\ main' = [main EXCEPT !.pc = "fill"]
    BY <1>1, <1>4, <2>0 DEF pdr_add
  <2>2. /\ main'.pc = "fill" /\ main'.sess = s /\ main'.created = main.created
        /\ main'.todo = main.todo /\ main'.addr = main.addr
        /\ Done' = Done /\ Wanted' = Wanted
    BY <1>1, <2>1 DEF RuleTypes, Done, Wanted
  <2>3. /\ Tail(pdr_pool) \in Seq(Slots) /\ p \in Slots /\ p \in ToSet(pdr_pool)
        /\ ToSet(Tail(pdr_pool)) = ToSet(pdr_pool) \ {p} /\ IsInjective(Tail(pdr_pool))
    BY <1>4, <2>0, TailFacts DEF RuleTypes, OwnInv
  <2>4. \A u \in Sessions : p \notin Rules(u)
    BY <2>3 DEF OwnInv
  <2>5. /\ pdr_list'[s] = Append(pdr_list[s], p) /\ pdr_list'[s] \in Seq(Slots)
        /\ Rules(s)' = Rules(s) \cup {p} /\ IsInjective(pdr_list[s])'
        /\ Last(pdr_list'[s]) = p /\ pdr_list'[s] # <<>>
        /\ Last(pdr_list[s])' = p
    <3>1. pdr_list[s] \in Seq(Slots) /\ IsInjective(pdr_list[s])
      BY <1>1 DEF RuleTypes, OwnInv
    <3>2. pdr_list'[s] = Append(pdr_list[s], p)
      BY <1>1, <2>1 DEF RuleTypes
    <3>3. pdr_list'[s] # <<>>
      <4>1. Len(Append(pdr_list[s], p)) = Len(pdr_list[s]) + 1 /\ Len(pdr_list[s]) \in Nat
        BY <2>3, <3>1
      <4>2. Len(pdr_list'[s]) > 0
        BY <3>2, <4>1
      <4> QED BY <4>2
    <3> QED BY <1>1, <2>3, <2>4, <3>1, <3>2, <3>3, AppendFacts DEF Rules
  <2>6. \A u \in Sessions \ {s} : pdr_list'[u] = pdr_list[u] /\ Rules(u)' = Rules(u)
    BY <2>1 DEF RuleTypes, Rules
  <2>7. /\ pdr'[p] = ZeroPdr
        /\ \A q \in Slots \ {p} : pdr'[q] = pdr[q]
        /\ \A u \in Sessions : \A q \in Rules(u) : q # p /\ pdr'[q] = pdr[q]
    BY <1>1, <2>1, <2>3, <2>4, ListFacts DEF RuleTypes
  <2>8. RuleTypes'
    <3>1. pdr' \in [Slots -> PdrRec]
      BY <2>1 DEF RuleTypes, PdrRec, ZeroPdr
    <3>2. pdr_list' \in [Sessions -> Seq(Slots)]
      BY <2>1, <2>5 DEF RuleTypes
    <3> QED BY <1>2, <2>1, <2>3, <3>1, <3>2 DEF RuleTypes
  <2>9. OwnInv'
    <3>1. IsInjective(pdr_pool)' /\ ToSet(pdr_pool)' = ToSet(pdr_pool) \ {p}
      BY <2>1, <2>3
    <3>2. ASSUME NEW u \in Sessions
          PROVE  /\ IsInjective(pdr_list[u])'
                 /\ Rules(u)' # {} => u \in sess_list'
                 /\ \A q \in Rules(u)' : q \notin ToSet(pdr_pool)'
      <4>1. CASE u = s
        BY <1>1, <1>2, <2>5, <3>1, <4>1 DEF OwnInv
      <4>2. CASE u # s
        BY <1>2, <2>6, <3>1, <4>2 DEF OwnInv
      <4> QED BY <4>1, <4>2
    <3>3. ASSUME NEW u \in Sessions, NEW v \in Sessions, NEW q \in Rules(u)',
                 q \in Rules(v)'
          PROVE  u = v
      BY <1>1, <2>4, <2>5, <2>6, <3>3 DEF OwnInv
    <3>4. \A q \in Slots : q \in ToSet(pdr_pool)' \/ \E u \in Sessions : q \in Rules(u)'
      BY <1>1, <2>5, <2>6, <3>1 DEF OwnInv
    <3> QED BY <3>1, <3>2, <3>3, <3>4 DEF OwnInv
  <2>10. \A u \in Sessions : \A q \in Rules(u) : ~Fresh(u, q) /\ ~Fresh(u, q)'
    BY <1>1, <2>2, <2>5, <2>7 DEF Fresh
  <2>11. Fresh(s, p)'
    BY <2>2, <2>5 DEF Fresh
  <2>12. \A u \in Sessions, id \in PdrIds : HasId(u, id)' <=> HasId(u, id)
    BY <1>1, <2>5, <2>6, <2>7, IdFacts DEF HasId, ZeroPdr
  <2>13. MainInv'
    <3>1. \A id \in PdrIds : HasId(s, id)' <=> id \in Done'
      BY <1>1, <2>2, <2>12 DEF MainInv
    <3>2. main.created \subseteq Rules(s)'
      BY <1>1, <2>5 DEF MainInv
    <3>3. p \notin main.created /\ pdr'[p].id \notin Wanted
      BY <1>1, <2>4, <2>7, IdFacts DEF MainInv, Wanted, ZeroPdr
    <3>4. \A q \in Rules(s)' : q \in main.created <=> pdr'[q].id \in Wanted
      BY <1>1, <2>5, <2>7, <3>3 DEF MainInv
    <3> QED BY <1>1, <1>2, <2>2, <2>5, <3>1, <3>2, <3>4 DEF MainInv
  <2>14. IdInv'
    <3>1. \A u \in Sessions : \A q \in Rules(u) :
             /\ pdr'[q].id \in PdrIds /\ pdr'[q].far = FarOf(pdr'[q].id)
      BY <2>7, <2>10 DEF IdInv
    <3>2. pdr'[p].id = "none"
      BY <2>7 DEF ZeroPdr
    <3>3. ASSUME NEW u \in Sessions PROVE
            /\ \A q, r \in Rules(u)' : pdr'[q].id = pdr'[r].id => q = r
            /\ \A q \in Rules(u)' :
               /\ Fresh(u, q)' => pdr'[q] = ZeroPdr
               /\ ~Fresh(u, q)' => pdr'[q].id \in PdrIds /\ pdr'[q].far = FarOf(pdr'[q].id)
      <4>1. CASE u = s
        BY <1>1, <2>5, <2>7, <2>10, <2>11, <3>1, <3>2, <4>1, IdFacts DEF IdInv
      <4>2. CASE u # s
        BY <2>6, <2>7, <2>10, <3>1, <4>2 DEF IdInv
      <4> QED BY <4>1, <4>2
    <3>4. ASSUME NEW u \in Sessions, s # u PROVE
            /\ pdr_list'[u] # <<>> => \A id \in SessionPdrs : HasId(u, id)'
            /\ HasId(u, "qdl")' <=> HasId(u, "qul")'
      <4>1. /\ pdr_list[u] # <<>> => \A id \in SessionPdrs : HasId(u, id)
            /\ HasId(u, "qdl") <=> HasId(u, "qul")
        BY <1>1, <3>4 DEF IdInv
      <4>2. SessionPdrs \subseteq PdrIds /\ "qdl" \in PdrIds /\ "qul" \in PdrIds
        BY DEF PdrIds, FlowPdrs
      <4> QED BY <2>6, <2>12, <3>4, <4>1, <4>2
    <3> QED BY <2>2, <3>3, <3>4 DEF IdInv
  <2>15. TeidInv'
    <3>1. pdr'[p].teid = NoSlot /\ pdr'[p].id = "none"
      BY <2>7 DEF ZeroPdr
    <3>2. ASSUME NEW u \in Sessions, NEW q \in Rules(u) PROVE
             IF u = s /\ q \in main.created THEN pdr'[q].teid = NoSlot
             ELSE TeidOf(u, q, pdr[q].teid)'
      BY <1>1, <2>5, <2>6, <2>7, <2>10, <3>1 DEF TeidInv, TeidOf
    <3> QED BY <1>1, <2>2, <2>5, <2>6, <2>7, <2>10, <2>11, <3>1, <3>2 DEF TeidInv
  <2>16. TeidTableMatchesRules'
    <3>1. object_teid_hash[p] = NoSess
      BY <2>3, <2>4 DEF TeidTableMatchesRules, Rules, RuleTypes
    <3>2. ASSUME NEW t \in Slots, object_teid_hash[t] # NoSess
          PROVE  t \in ToSet(pdr_list'[object_teid_hash[t]]) /\ pdr'[t].teid = t
      <4>1. object_teid_hash[t] \in Sessions /\ t # p
        BY <3>1, <3>2 DEF RuleTypes
      <4>2. t \in Rules(object_teid_hash[t]) /\ pdr[t].teid = t
        BY <3>2 DEF TeidTableMatchesRules, Rules
      <4>3. Rules(object_teid_hash[t]) \subseteq ToSet(pdr_list'[object_teid_hash[t]])
        BY <2>5, <2>6, <4>1 DEF Rules
      <4> QED BY <2>7, <4>1, <4>2, <4>3
    <3>3. ASSUME NEW u \in Sessions, NEW q \in Rules(u)', pdr'[q].teid # NoSlot
          PROVE  object_teid_hash[pdr'[q].teid] = u
      <4>1. q # p
        BY <2>7, <3>3 DEF ZeroPdr
      <4>2. q \in Rules(u)
        BY <2>5, <2>6, <3>3, <4>1
      <4> QED BY <2>7, <3>3, <4>2 DEF TeidTableMatchesRules, Rules
    <3> QED BY <1>2, <3>2, <3>3 DEF TeidTableMatchesRules, Rules
  <2>17. SortedInv'
    <3>1. ASSUME NEW u \in Sessions, NEW i \in 1 .. Len(pdr_list'[u]),
                 NEW j \in 1 .. Len(pdr_list'[u]), i < j, pdr'[pdr_list'[u][j]].id # "none"
          PROVE  Precedence(pdr'[pdr_list'[u][i]].id) <= Precedence(pdr'[pdr_list'[u][j]].id)
      <4>1. CASE u # s
        <5>1. pdr_list[u][i] \in Rules(u) /\ pdr_list[u][j] \in Rules(u)
          BY <2>6, <3>1, <4>1, ListFacts
        <5> QED BY <2>6, <2>7, <3>1, <4>1, <5>1 DEF SortedInv
      <4>2. CASE u = s
        <5>1. pdr_list[s] \in Seq(Slots)
          BY <1>1, ListFacts
        <5>2. j # Len(pdr_list[s]) + 1
          BY <2>5, <2>7, <3>1, <4>2, <5>1 DEF ZeroPdr
        <5>3. /\ i \in 1 .. Len(pdr_list[s]) /\ pdr_list'[s][i] = pdr_list[s][i]
              /\ j \in 1 .. Len(pdr_list[s]) /\ pdr_list'[s][j] = pdr_list[s][j]
          BY <2>5, <3>1, <4>2, <5>1, <5>2
        <5>4. pdr_list[s][i] \in Rules(s) /\ pdr_list[s][j] \in Rules(s)
          BY <1>1, <5>3, ListFacts
        <5> QED BY <1>1, <2>7, <3>1, <4>2, <5>3, <5>4 DEF SortedInv
      <4> QED BY <4>1, <4>2
    <3> QED BY <3>1 DEF SortedInv
  <2> QED BY <2>8, <2>9, <2>13, <2>14, <2>15, <2>16, <2>17
<1> QED BY <1>3, <1>4

(* Where ogs_list_insert_sorted puts a PDR: the list stays sorted. *)
LEMMA InsertSorted ==
  ASSUME NEW list \in Seq(Slots), IsInjective(list), NEW p \in Slots,
         p \notin ToSet(list), NEW rules,
         rules[p].id \in PdrIds, \A q \in ToSet(list) : rules[q].id \in PdrIds
  PROVE  /\ insert_sorted(list, p, rules) \in Seq(Slots)
         /\ ToSet(insert_sorted(list, p, rules)) = ToSet(list) \cup {p}
         /\ IsInjective(insert_sorted(list, p, rules))
         /\ (\A i, j \in 1 .. Len(list) : i < j =>
               Precedence(rules[list[i]].id) <= Precedence(rules[list[j]].id))
            => \A i, j \in 1 .. Len(insert_sorted(list, p, rules)) : i < j =>
                 Precedence(rules[insert_sorted(list, p, rules)[i]].id)
                   <= Precedence(rules[insert_sorted(list, p, rules)[j]].id)
<1> DEFINE I == {i \in 1 .. Len(list) :
                   Precedence(rules[list[i]].id) > Precedence(rules[p].id)}
           t == insert_sorted(list, p, rules)
           Q(x) == Precedence(rules[x].id)
<1>0. Len(list) \in Nat /\ Q(p) \in Nat /\ \A i \in 1 .. Len(list) : Q(list[i]) \in Nat
  BY IdFacts, ToSetType
<1>1. CASE I = {}
  <2>1. t = Append(list, p)
    BY <1>1 DEF insert_sorted, SelectInSeq
  <2>2. \A i \in 1 .. Len(list) : Q(list[i]) <= Q(p)
    BY <1>0, <1>1
  <2> HIDE DEF Q
  <2>3. /\ Len(Append(list, p)) = Len(list) + 1 /\ Append(list, p)[Len(list) + 1] = p
        /\ \A i \in 1 .. Len(list) : Append(list, p)[i] = list[i]
    OBVIOUS
  <2>4. (\A i, j \in 1 .. Len(list) : i < j => Q(list[i]) <= Q(list[j]))
          => \A i, j \in 1 .. Len(list) + 1 :
               i < j => Q(Append(list, p)[i]) <= Q(Append(list, p)[j])
    <3>1. SUFFICES ASSUME \A i, j \in 1 .. Len(list) : i < j => Q(list[i]) <= Q(list[j]),
                          NEW i \in 1 .. Len(list) + 1, NEW j \in 1 .. Len(list) + 1, i < j
                   PROVE  Q(Append(list, p)[i]) <= Q(Append(list, p)[j])
      OBVIOUS
    <3>2. i \in 1 .. Len(list) /\ (j = Len(list) + 1 \/ j \in 1 .. Len(list))
      BY <1>0, <3>1
    <3> QED BY <2>2, <2>3, <3>1, <3>2
  <2>5. /\ t \in Seq(Slots) /\ ToSet(t) = ToSet(list) \cup {p} /\ IsInjective(t)
    BY <2>1, AppendFacts
  <2> QED BY <2>1, <2>3, <2>4, <2>5 DEF Q
<1>2. CASE I # {}
  <2> DEFINE k == Min(I)
  <2>1. k \in 1 .. Len(list) /\ Q(list[k]) > Q(p)
        /\ \A i \in 1 .. Len(list) : Q(list[i]) > Q(p) => k <= i
    <3>1. I \subseteq Nat
      OBVIOUS
    <3>2. k \in I /\ \A i \in I : k <= i
      <4> HIDE DEF I
      <4> QED BY <1>2, <3>1, MinIn
    <3> QED BY <3>2
  <2>2. t = InsertAt(list, k, p)
    BY <1>2, <2>1 DEF insert_sorted, SelectInSeq
  <2> HIDE DEF k, I, Q
  <2>3. /\ t \in Seq(Slots) /\ ToSet(t) = ToSet(list) \cup {p} /\ IsInjective(t)
        /\ Len(t) = Len(list) + 1
        /\ \A i \in 1 .. Len(list) + 1 :
             t[i] = IF i < k THEN list[i] ELSE IF i = k THEN p ELSE list[i - 1]
    BY <2>1, <2>2, InsertFacts
  <2> HIDE DEF t
  <2>4. ASSUME \A i, j \in 1 .. Len(list) : i < j => Q(list[i]) <= Q(list[j]),
               NEW i \in 1 .. Len(list) + 1, NEW j \in 1 .. Len(list) + 1, i < j
        PROVE  Q(t[i]) <= Q(t[j])
    <3>1. \A m \in 1 .. Len(list) : m < k => Q(list[m]) <= Q(p)
      BY <1>0, <2>1
    <3>2. \A m \in 1 .. Len(list) : m >= k => Q(p) <= Q(list[m])
      <4>1. \A m \in 1 .. Len(list) : m > k => Q(list[k]) <= Q(list[m])
        BY <2>1, <2>4
      <4> QED BY <1>0, <2>1, <4>1
    <3>3. CASE j < k
      <4>1. /\ i \in 1 .. Len(list) /\ t[i] = list[i]
            /\ j \in 1 .. Len(list) /\ t[j] = list[j]
        BY <1>0, <2>1, <2>3, <2>4, <3>3
      <4> QED BY <2>4, <4>1
    <3>4. CASE j = k
      <4>1. t[j] = p /\ i \in 1 .. Len(list) /\ i < k /\ t[i] = list[i]
        BY <2>1, <2>3, <2>4, <3>4
      <4> QED BY <3>1, <4>1
    <3>5. CASE j > k
      <4>1. j - 1 \in 1 .. Len(list) /\ t[j] = list[j - 1] /\ j - 1 >= k
        BY <2>1, <2>3, <3>5
      <4>2. CASE i = k
        BY <2>3, <3>2, <4>1, <4>2
      <4>3. CASE i > k
        <5>1. i - 1 \in 1 .. Len(list) /\ t[i] = list[i - 1] /\ i - 1 < j - 1
          BY <2>1, <2>3, <2>4, <4>3
        <5> QED BY <2>4, <4>1, <5>1
      <4>4. CASE i < k
        <5>1. i \in 1 .. Len(list) /\ t[i] = list[i] /\ i < j - 1
          BY <2>1, <2>3, <4>1, <4>4
        <5> QED BY <2>4, <4>1, <5>1
      <4> QED BY <2>1, <4>2, <4>3, <4>4
    <3> QED BY <2>1, <3>3, <3>4, <3>5
  <2>5. (\A i, j \in 1 .. Len(list) : i < j => Q(list[i]) <= Q(list[j]))
          => \A i, j \in 1 .. Len(t) : i < j => Q(t[i]) <= Q(t[j])
    BY <2>3, <2>4
  <2> QED BY <2>3, <2>5 DEF Q, t
<1> QED BY <1>1, <1>2

LEMMA FillRule ==
  ASSUME RuleInv, handle_create_pdr
  PROVE  RuleInv'
<1> USE DEF RuleInv
<1>1. PICK s \in Sessions : main.pc = "fill" /\ s = main.sess /\ s \in sess_list
  BY DEF handle_create_pdr, MainInv, RuleTypes
<1>2. PICK id \in PdrIds : id = main.todo /\ id \in Wanted
  BY <1>1, IdFacts DEF MainInv, Wanted
<1>3. PICK p \in Slots : p = Last(pdr_list[s]) /\ p \in Rules(s)
  BY <1>1, FrontFacts DEF RuleTypes, OwnInv, MainInv, Rules
<1>4. /\ pdr' = [pdr EXCEPT ![p] = [ZeroPdr EXCEPT !.id = id, !.far = FarOf(id)]]
      /\ pdr_list' = [pdr_list EXCEPT ![s] = insert_sorted(Front(@), p, pdr')]
      /\ main' = [main EXCEPT !.todo = NextPdr(id), !.created = @ \cup {p},
                              !.pc = IF NextPdr(id) = "none" THEN "finish" ELSE "add"]
      /\ UNCHANGED <<transport_mode, pdr_pool, sess_list, object_teid_hash>>
  BY <1>1, <1>2, <1>3 DEF handle_create_pdr
<1>5. /\ main'.pc = (IF NextPdr(id) = "none" THEN "finish" ELSE "add")
      /\ main'.sess = s /\ main'.addr = main.addr
      /\ main'.todo = NextPdr(id) /\ main'.created = main.created \cup {p}
  BY <1>1, <1>4 DEF RuleTypes
<1>6. /\ pdr'[p].id = id /\ pdr'[p].far = FarOf(id) /\ pdr'[p].teid = NoSlot
      /\ \A q \in Slots \ {p} : pdr'[q] = pdr[q]
  BY <1>4 DEF RuleTypes, ZeroPdr
<1>7. /\ \A u \in Sessions : \A q \in Rules(u) : Fresh(u, q) <=> u = s /\ q = p
      /\ \A u \in Sessions : \A q \in Slots : ~Fresh(u, q)'
  <2>1. ASSUME NEW u \in Sessions, NEW q \in Rules(u) PROVE Fresh(u, q) <=> u = s /\ q = p
    BY <1>1, <1>3 DEF Fresh
  <2> QED BY <1>5, <2>1 DEF Fresh
<1>8. pdr[p] = ZeroPdr /\ pdr[p].id = "none" /\ pdr[p].teid = NoSlot
  BY <1>3, <1>7 DEF IdInv, ZeroPdr
<1>9. /\ Front(pdr_list[s]) \in Seq(Slots) /\ ToSet(Front(pdr_list[s])) = Rules(s) \ {p}
      /\ IsInjective(Front(pdr_list[s]))
      /\ Len(Front(pdr_list[s])) = Len(pdr_list[s]) - 1
      /\ \A i \in 1 .. Len(pdr_list[s]) - 1 : Front(pdr_list[s])[i] = pdr_list[s][i]
  BY <1>1, <1>3, FrontFacts DEF RuleTypes, OwnInv, MainInv, Rules
<1>10. \A q \in Rules(s) \ {p} : q \in Slots /\ pdr'[q] = pdr[q] /\ pdr[q].id \in PdrIds
  BY <1>6, <1>7, ListFacts DEF IdInv
<1>11. /\ pdr_list'[s] \in Seq(Slots) /\ ToSet(pdr_list'[s]) = Rules(s)
       /\ IsInjective(pdr_list'[s])
       /\ (\A i, j \in 1 .. Len(Front(pdr_list[s])) : i < j =>
             Precedence(pdr'[Front(pdr_list[s])[i]].id)
               <= Precedence(pdr'[Front(pdr_list[s])[j]].id))
          => \A i, j \in 1 .. Len(pdr_list'[s]) : i < j =>
               Precedence(pdr'[pdr_list'[s][i]].id) <= Precedence(pdr'[pdr_list'[s][j]].id)
  <2>1. pdr_list'[s] = insert_sorted(Front(pdr_list[s]), p, pdr')
    BY <1>4 DEF RuleTypes
  <2>2. p \notin ToSet(Front(pdr_list[s])) /\ pdr'[p].id \in PdrIds
        /\ \A q \in ToSet(Front(pdr_list[s])) : pdr'[q].id \in PdrIds
    BY <1>6, <1>9, <1>10
  <2>3. (Rules(s) \ {p}) \cup {p} = Rules(s)
    BY <1>3
  <2> DEFINE list == Front(pdr_list[s])
             rules == pdr'
             new == insert_sorted(list, p, rules)
  <2>4. /\ list \in Seq(Slots) /\ IsInjective(list) /\ p \notin ToSet(list)
        /\ rules[p].id \in PdrIds /\ \A q \in ToSet(list) : rules[q].id \in PdrIds
    BY <1>9, <2>2
  <2> HIDE DEF list, rules
  <2>5. /\ new \in Seq(Slots) /\ ToSet(new) = ToSet(list) \cup {p} /\ IsInjective(new)
        /\ (\A i, j \in 1 .. Len(list) : i < j =>
              Precedence(rules[list[i]].id) <= Precedence(rules[list[j]].id))
           => \A i, j \in 1 .. Len(new) : i < j =>
                Precedence(rules[new[i]].id) <= Precedence(rules[new[j]].id)
    BY <2>4, InsertSorted
  <2> HIDE DEF new
  <2>6. pdr_list'[s] = new
    BY <2>1 DEF new, list, rules
  <2> QED BY <1>9, <2>3, <2>5, <2>6 DEF list, rules
<1>12. /\ \A u \in Sessions \ {s} : pdr_list'[u] = pdr_list[u]
       /\ \A u \in Sessions : Rules(u)' = Rules(u)
  BY <1>4, <1>11 DEF RuleTypes, Rules
<1>13. \A u \in Sessions \ {s} : \A q \in Rules(u) : q \in Slots /\ q # p /\ pdr'[q] = pdr[q]
  BY <1>3, <1>6, ListFacts DEF OwnInv
<1>14. RuleTypes'
  <2>1. pdr' \in [Slots -> PdrRec]
    BY <1>4, IdFacts DEF RuleTypes, PdrRec, ZeroPdr, NoSlot
  <2>2. pdr_list' \in [Sessions -> Seq(Slots)]
    BY <1>4, <1>11 DEF RuleTypes
  <2>3. NextPdr(id) \in PdrIds \cup {"none"}
    BY DEF NextPdr, PdrIds, SessionPdrs, FlowPdrs
  <2> QED BY <1>4, <2>1, <2>2, <2>3 DEF RuleTypes
<1>15. OwnInv'
  <2>1. \A u \in Sessions : IsInjective(pdr_list'[u])
    BY <1>11, <1>12 DEF OwnInv
  <2>2. sess_list' = sess_list /\ ToSet(pdr_pool)' = ToSet(pdr_pool)
        /\ IsInjective(pdr_pool)' = IsInjective(pdr_pool)
    BY <1>4
  <2> QED BY <1>12, <2>1, <2>2 DEF OwnInv
<1>16. \A x \in PdrIds : HasId(s, x)' <=> HasId(s, x) \/ x = id
  <2>1. ASSUME NEW x \in PdrIds PROVE HasId(s, x)' <=> HasId(s, x) \/ x = id
    BY <1>3, <1>6, <1>8, <1>10, <1>12, IdFacts DEF HasId
  <2> QED BY <2>1
<1>17. \A u \in Sessions \ {s} : \A x \in PdrIds : HasId(u, x)' <=> HasId(u, x)
  BY <1>12, <1>13 DEF HasId
<1>18. /\ ~HasId(s, id) /\ Wanted' = Wanted /\ Done' = Done \cup {id}
       /\ NextPdr(id) # "none" => NextPdr(id) \in Wanted
  <2>1. HasId(s, id) <=> id \in Done
    BY <1>1 DEF MainInv
  <2>2. Wanted' = Wanted
    BY <1>5 DEF Wanted
  <2>3. CASE main.addr # NoAddr
    <3>1. id \in {"dl", "ul", "cp2up", "up2cp"} /\ Wanted = SessionPdrs
      BY <1>2, <2>3 DEF Wanted, SessionPdrs
    <3>2. Done' = CASE id = "dl" -> {"dl"} [] id = "ul" -> {"dl", "ul"}
                    [] id = "cp2up" -> {"dl", "ul", "cp2up"} [] OTHER -> SessionPdrs
      BY <1>5, <2>3, <3>1 DEF Done, NextPdr
    <3>3. Done = CASE id = "dl" -> {} [] id = "ul" -> {"dl"}
                   [] id = "cp2up" -> {"dl", "ul"} [] OTHER -> {"dl", "ul", "cp2up"}
      BY <1>2, <3>1 DEF Done
    <3> QED BY <2>1, <2>2, <3>1, <3>2, <3>3 DEF NextPdr, SessionPdrs
  <2>4. CASE main.addr = NoAddr
    <3>1. id \in {"qdl", "qul"} /\ Wanted = FlowPdrs
      BY <1>2, <2>4 DEF Wanted, FlowPdrs
    <3>2. Done' = IF id = "qdl" THEN SessionPdrs \cup {"qdl"} ELSE PdrIds
      BY <1>5, <2>4, <3>1 DEF Done, NextPdr
    <3>3. Done = IF id = "qdl" THEN SessionPdrs ELSE SessionPdrs \cup {"qdl"}
      BY <1>2, <3>1 DEF Done
    <3> QED BY <2>1, <2>2, <3>1, <3>2, <3>3 DEF NextPdr, SessionPdrs, FlowPdrs, PdrIds
  <2> QED BY <2>3, <2>4
<1>19. p \notin main.created
  BY <1>1, <1>3, <1>8, IdFacts DEF MainInv, Wanted
<1>20. MainInv'
  <2>1. \A x \in PdrIds : HasId(s, x)' <=> x \in Done'
    BY <1>1, <1>16, <1>18 DEF MainInv
  <2>2. main'.created \subseteq Rules(s)'
    BY <1>1, <1>3, <1>5, <1>12 DEF MainInv
  <2>3. \A q \in Rules(s) : q \in main'.created <=> pdr'[q].id \in Wanted'
    BY <1>1, <1>2, <1>5, <1>6, <1>10, <1>18 DEF MainInv
  <2> QED BY <1>1, <1>4, <1>5, <1>12, <1>18, <2>1, <2>2, <2>3 DEF MainInv
<1>21. IdInv'
  <2>1. \A q \in Rules(s) \ {p} : pdr[q].id # id
    BY <1>18 DEF HasId
  <2>2. \A q \in Rules(s) \ {p} : pdr[q].far = FarOf(pdr[q].id)
    BY <1>7 DEF IdInv
  <2>3. /\ \A q, r \in Rules(s) : pdr'[q].id = pdr'[r].id => q = r
        /\ \A q \in Rules(s) : pdr'[q].id \in PdrIds /\ pdr'[q].far = FarOf(pdr'[q].id)
    BY <1>6, <1>10, <2>1, <2>2 DEF IdInv
  <2>4. \A u \in Sessions \ {s} :
          /\ \A q, r \in Rules(u) : pdr'[q].id = pdr'[r].id => q = r
          /\ \A q \in Rules(u) : pdr'[q].id \in PdrIds /\ pdr'[q].far = FarOf(pdr'[q].id)
    BY <1>7, <1>13 DEF IdInv
  <2>5. ASSUME NEW u \in Sessions \ {s} PROVE
          /\ pdr_list'[u] # <<>> => \A x \in SessionPdrs : HasId(u, x)'
          /\ HasId(u, "qdl")' <=> HasId(u, "qul")'
    <3>1. SessionPdrs \subseteq PdrIds /\ "qdl" \in PdrIds /\ "qul" \in PdrIds
      BY DEF PdrIds, FlowPdrs
    <3>2. /\ pdr_list[u] # <<>> => \A x \in SessionPdrs : HasId(u, x)
          /\ HasId(u, "qdl") <=> HasId(u, "qul")
      BY <1>1 DEF IdInv
    <3> QED BY <1>12, <1>17, <3>1, <3>2
  <2>6. \A u \in Sessions : \A q \in Rules(u) : ~Fresh(u, q)'
    BY <1>7, ListFacts
  <2> QED BY <1>5, <1>12, <2>3, <2>4, <2>5, <2>6 DEF IdInv
<1>22. TeidInv'
  <2>1. ASSUME NEW q \in Rules(s) \ {p} PROVE
          IF q \in main.created THEN pdr'[q].teid = NoSlot
          ELSE TeidOf(s, q, pdr[q].teid)'
    <3>1. CASE q \in main.created
      BY <1>1, <1>10, <2>1, <3>1 DEF TeidInv
    <3>2. CASE q \notin main.created
      <4>1. TeidOf(s, q, pdr[q].teid)
        BY <1>1, <1>7, <2>1, <3>2 DEF TeidInv
      <4>2. SharesUl(pdr[q].id) => id # "ul"
        <5>1. SUFFICES ASSUME SharesUl(pdr[q].id), id = "ul" PROVE FALSE
          OBVIOUS
        <5>2. main.addr # NoAddr
          BY <1>2, <5>1 DEF Wanted, FlowPdrs
        <5>3. pdr[q].id \in Done /\ Done = {"dl"}
          BY <1>1, <1>2, <1>10, <2>1, <5>1 DEF MainInv, HasId, Done
        <5> QED BY <5>1, <5>3 DEF SharesUl
      <4>3. \A r \in Rules(s) : SharesUl(pdr[q].id) /\ pdr'[r].id = "ul" => pdr[r].id = "ul"
        BY <1>6, <1>10, <4>2
      <4>4. pdr'[q] = pdr[q] /\ Rules(s)' = Rules(s)
        BY <1>10, <1>12, <2>1
      <4>5. TeidOf(s, q, pdr[q].teid)'
        BY <4>1, <4>3, <4>4 DEF TeidOf
      <4> QED BY <3>2, <4>5
    <3> QED BY <3>1, <3>2
  <2>2. ASSUME NEW u \in Sessions \ {s}, NEW q \in Rules(u)
        PROVE  TeidOf(u, q, pdr[q].teid)'
    <3>1. TeidOf(u, q, pdr[q].teid)
      BY <1>1 DEF TeidInv
    <3> QED BY <1>12, <1>13, <2>2, <3>1 DEF TeidOf
  <2>3. \A u \in Sessions : \A q \in Rules(u) : ~Fresh(u, q)'
    BY <1>7, ListFacts
  <2> QED BY <1>5, <1>6, <1>12, <2>1, <2>2, <2>3 DEF TeidInv
<1>23. TeidTableMatchesRules'
  <2>1. \A q \in Slots : pdr'[q].teid = pdr[q].teid
    BY <1>6, <1>8
  <2>2. \A u \in Sessions : ToSet(pdr_list'[u]) = ToSet(pdr_list[u]) /\ Rules(u) \subseteq Slots
    BY <1>12, ListFacts DEF Rules
  <2>3. ASSUME NEW t \in Slots, object_teid_hash[t] # NoSess
        PROVE  t \in ToSet(pdr_list'[object_teid_hash[t]]) /\ pdr'[t].teid = t
    <3>1. object_teid_hash[t] \in Sessions
      BY <2>3 DEF RuleTypes
    <3> QED BY <2>1, <2>2, <2>3, <3>1 DEF TeidTableMatchesRules
  <2>4. ASSUME NEW u \in Sessions, NEW q \in ToSet(pdr_list'[u]), pdr'[q].teid # NoSlot
        PROVE  object_teid_hash[pdr'[q].teid] = u
    BY <2>1, <2>2, <2>4 DEF TeidTableMatchesRules, Rules
  <2> QED BY <1>4, <2>3, <2>4 DEF TeidTableMatchesRules
<1>24. SortedInv'
  <2>1. ASSUME NEW u \in Sessions \ {s}, NEW i \in 1 .. Len(pdr_list[u]),
               NEW j \in 1 .. Len(pdr_list[u]), i < j
        PROVE  Precedence(pdr'[pdr_list'[u][i]].id) <= Precedence(pdr'[pdr_list'[u][j]].id)
    <3>1. pdr_list[u][i] \in Rules(u) /\ pdr_list[u][j] \in Rules(u)
      BY <2>1, ListFacts
    <3>2. pdr[pdr_list[u][j]].id # "none"
      BY <1>7, <3>1, IdFacts DEF IdInv
    <3> QED BY <1>12, <1>13, <2>1, <3>1, <3>2 DEF SortedInv
  <2>2. ASSUME NEW i \in 1 .. Len(Front(pdr_list[s])),
               NEW j \in 1 .. Len(Front(pdr_list[s])), i < j
        PROVE  Precedence(pdr'[Front(pdr_list[s])[i]].id)
                 <= Precedence(pdr'[Front(pdr_list[s])[j]].id)
    <3> DEFINE f == Front(pdr_list[s])
    <3>1. f[i] \in Rules(s) \ {p} /\ f[j] \in Rules(s) \ {p}
      BY <1>9, ToSetType
    <3>2. /\ i \in 1 .. Len(pdr_list[s]) /\ f[i] = pdr_list[s][i]
          /\ j \in 1 .. Len(pdr_list[s]) /\ f[j] = pdr_list[s][j]
      BY <1>9, ListFacts
    <3>3. pdr[f[j]].id # "none"
      BY <1>10, <3>1, IdFacts
    <3> QED BY <1>10, <2>2, <3>1, <3>2, <3>3 DEF SortedInv
  <2>3. \A i, j \in 1 .. Len(pdr_list'[s]) : i < j =>
           Precedence(pdr'[pdr_list'[s][i]].id) <= Precedence(pdr'[pdr_list'[s][j]].id)
    BY <1>11, <2>2
  <2> QED BY <1>12, <2>1, <2>3 DEF SortedInv
<1> QED BY <1>14, <1>15, <1>20, <1>21, <1>22, <1>23, <1>24

(* The rest of a request that is accepted: the TEIDs. *)
LEMMA AcceptRule ==
  ASSUME RuleInv, session_accepted
  PROVE  RuleInv'
<1> USE DEF RuleInv
<1>1. PICK s \in Sessions : main.pc = "finish" /\ s = main.sess /\ s \in sess_list
  BY DEF session_accepted, MainInv, RuleTypes
<1>2. PICK created \in SUBSET Slots : created = main.created /\ created \subseteq Rules(s)
  BY <1>1 DEF MainInv, RuleTypes
<1> DEFINE teids == {chosen_teid(p, s) : p \in created} \ {NoSlot}
<1>3. /\ pdr' = [p \in Slots |-> IF p \in created
                                   THEN [pdr[p] EXCEPT !.teid = chosen_teid(p, s)]
                                   ELSE pdr[p]]
      /\ object_teid_hash' = [t \in Slots |-> IF t \in teids THEN s ELSE object_teid_hash[t]]
      /\ main' = IdleMain
      /\ UNCHANGED <<transport_mode, pdr_pool, sess_list, pdr_list>>
  BY <1>1, <1>2 DEF session_accepted
<1>4. \A u \in Sessions : Rules(u)' = Rules(u) /\ Rules(u) \subseteq Slots
  BY <1>3, ListFacts DEF Rules
<1>5. /\ main'.pc = "idle" /\ main'.sess = NoSess /\ NoSess \notin Sessions
      /\ \A u \in Sessions : \A p \in Rules(u) : ~Fresh(u, p) /\ ~Fresh(u, p)'
  BY <1>1, <1>3, ConstAssumption DEF Fresh, IdleMain
<1>6. PICK ulp \in Rules(s) : /\ pdr[ulp].id = "ul"
                              /\ \A q \in Rules(s) : pdr[q].id = "ul" => q = ulp
  <2>1. "ul" \in Done /\ "ul" \in PdrIds
    BY <1>1, IdFacts DEF MainInv, Done, PdrIds, SessionPdrs
  <2> QED BY <1>1, <2>1 DEF MainInv, HasId, IdInv
<1>7. \A p \in created :
        chosen_teid(p, s) = IF ~HasTeid(pdr[p].id) THEN NoSlot
                            ELSE IF SharesUl(pdr[p].id) THEN ulp ELSE p
  BY <1>6 DEF chosen_teid, Rules
<1>8. \A p \in created : chosen_teid(p, s) \in Slots \cup {NoSlot}
  BY <1>4, <1>6, <1>7
<1> HIDE DEF teids
<1>9. /\ \A p \in Slots : pdr'[p].id = pdr[p].id /\ pdr'[p].far = pdr[p].far
      /\ \A p \in created : pdr'[p].teid = chosen_teid(p, s)
      /\ \A p \in Slots \ created : pdr'[p] = pdr[p]
      /\ pdr' \in [Slots -> PdrRec]
  <2>1. \A p \in Slots : pdr[p] \in PdrRec
    BY DEF RuleTypes
  <2>2. \A p \in created : [pdr[p] EXCEPT !.teid = chosen_teid(p, s)] \in PdrRec
    BY <1>8, <2>1 DEF PdrRec
  <2>3. pdr' \in [Slots -> PdrRec]
    BY <1>3, <2>1, <2>2
  <2> QED BY <1>3, <2>1, <2>3 DEF PdrRec
<1>10. \A u \in Sessions : \A x : HasId(u, x)' <=> HasId(u, x)
  BY <1>4, <1>9 DEF HasId
<1>11. RuleTypes'
  <2>1. object_teid_hash' \in [Slots -> Sessions \cup {NoSess}]
    BY <1>3 DEF RuleTypes
  <2>2. main' \in [pc : {"idle", "add", "fill", "finish", "cleanup", "restore"},
               sess : Sessions \cup {NoSess}, addr : Addrs \cup {NoAddr},
               todo : PdrIds \cup {"none"}, created : SUBSET Slots]
    BY <1>3 DEF IdleMain
  <2> QED BY <1>3, <1>9, <2>1, <2>2 DEF RuleTypes
<1>12. OwnInv'
  <2>1. sess_list' = sess_list /\ ToSet(pdr_pool)' = ToSet(pdr_pool)
        /\ IsInjective(pdr_pool)' = IsInjective(pdr_pool)
        /\ \A u \in Sessions : IsInjective(pdr_list[u])' = IsInjective(pdr_list[u])
    BY <1>3
  <2> QED BY <1>4, <2>1 DEF OwnInv
<1>13. MainInv'
  BY <1>3, <1>5 DEF MainInv, IdleMain
<1>14. IdInv'
  <2>1. /\ \A x \in SessionPdrs : HasId(s, x)
        /\ HasId(s, "qdl") <=> HasId(s, "qul")
    <3>1. Done = IF main.addr # NoAddr THEN SessionPdrs ELSE PdrIds
      BY <1>1 DEF MainInv, Done
    <3>2. \A x \in PdrIds : HasId(s, x) <=> x \in Done
      BY <1>1 DEF MainInv
    <3>3. "qdl" \in PdrIds \ SessionPdrs /\ "qul" \in PdrIds \ SessionPdrs
      BY DEF PdrIds, FlowPdrs, SessionPdrs
    <3> QED BY <3>1, <3>2, <3>3, IdFacts
  <2>2. \A u \in Sessions :
          /\ pdr_list[u] # <<>> => \A x \in SessionPdrs : HasId(u, x)
          /\ HasId(u, "qdl") <=> HasId(u, "qul")
    BY <1>1, <2>1 DEF IdInv
  <2>3. \A u \in Sessions :
          /\ \A p, q \in Rules(u) : pdr'[p].id = pdr'[q].id => p = q
          /\ \A p \in Rules(u) : pdr'[p].id \in PdrIds /\ pdr'[p].far = FarOf(pdr'[p].id)
    BY <1>4, <1>5, <1>9 DEF IdInv
  <2> QED BY <1>3, <1>4, <1>5, <1>10, <2>2, <2>3 DEF IdInv
<1>15. \A u \in Sessions \ {s} : \A p \in Rules(u) : p \in Slots \ created /\ pdr'[p] = pdr[p]
  BY <1>2, <1>4, <1>9 DEF OwnInv
<1>16. ASSUME NEW u \in Sessions, NEW p \in Rules(u) PROVE TeidOf(u, p, pdr[p].teid)'
  <2>1. CASE u # s
    <3>1. TeidOf(u, p, pdr[p].teid)
      BY <1>1, <1>16, <2>1 DEF TeidInv
    <3> QED BY <1>4, <1>15, <1>16, <2>1, <3>1 DEF TeidOf
  <2>2. CASE u = s /\ p \in created
    <3>1. TeidOf(s, p, chosen_teid(p, s))
      BY <1>6, <1>7, <2>2 DEF TeidOf
    <3> QED BY <1>4, <1>9, <2>2, <3>1 DEF TeidOf
  <2>3. CASE u = s /\ p \notin created
    <3>1. TeidOf(s, p, pdr[p].teid)
      BY <1>1, <1>2, <1>5, <1>16, <2>3 DEF TeidInv
    <3>2. p \in Slots \ created
      BY <1>4, <1>16, <2>3
    <3> QED BY <1>4, <1>9, <2>3, <3>1, <3>2 DEF TeidOf
  <2> QED BY <2>1, <2>2, <2>3
<1>17. TeidInv'
  BY <1>4, <1>5, <1>16 DEF TeidInv
<1>18. TeidTableMatchesRules'
  <2>1. ASSUME NEW t \in teids PROVE t \in Rules(s) /\ pdr'[t].teid = t /\ t \in Slots
    <3>1. PICK p \in created : t = chosen_teid(p, s) /\ t # NoSlot
      BY <2>1 DEF teids
    <3>2. t = ulp \/ (t = p /\ HasTeid(pdr[p].id) /\ ~SharesUl(pdr[p].id))
      BY <1>7, <3>1
    <3>3. HasTeid(pdr[t].id) /\ ~SharesUl(pdr[t].id) /\ t \in Rules(s)
      BY <1>2, <1>6, <3>2 DEF HasTeid, SharesUl
    <3>4. TeidOf(s, t, pdr[t].teid)'
      BY <1>16, <3>3
    <3> QED BY <1>4, <1>9, <3>3, <3>4 DEF TeidOf
  <2>2. ASSUME NEW t \in Slots, object_teid_hash'[t] # NoSess
        PROVE  t \in ToSet(pdr_list'[object_teid_hash'[t]]) /\ pdr'[t].teid = t
    <3>1. CASE t \in teids
      BY <1>3, <2>1, <2>2, <3>1 DEF Rules
    <3>2. CASE t \notin teids
      <4>1. object_teid_hash'[t] = object_teid_hash[t] /\ object_teid_hash[t] \in Sessions
        BY <1>3, <2>2, <3>2 DEF RuleTypes
      <4>2. t \in Rules(object_teid_hash[t]) /\ pdr[t].teid = t /\ t # NoSlot
        BY <2>2, <4>1, IdFacts DEF TeidTableMatchesRules, Rules
      <4>3. t \notin created
        BY <1>1, <1>2, <1>5, <4>1, <4>2 DEF TeidInv, OwnInv
      <4> QED BY <1>3, <1>9, <2>2, <4>1, <4>2, <4>3 DEF Rules
    <3> QED BY <3>1, <3>2
  <2>3. ASSUME NEW u \in Sessions, NEW q \in Rules(u), pdr'[q].teid # NoSlot
        PROVE  object_teid_hash'[pdr'[q].teid] = u
    <3> DEFINE t == pdr'[q].teid
    <3>0. t \in Slots /\ q \in Slots
      BY <1>4, <1>9, <2>3 DEF PdrRec
    <3>1. CASE q \in created
      <4>1. t \in teids
        BY <1>9, <2>3, <3>1 DEF teids
      <4>2. u = s
        BY <1>2, <2>3, <3>1 DEF OwnInv
      <4> QED BY <1>3, <3>0, <4>1, <4>2
    <3>2. CASE q \notin created
      <4>1. object_teid_hash[t] = u
        BY <1>9, <2>3, <3>0, <3>2 DEF TeidTableMatchesRules, Rules
      <4>2. t \in Rules(u)
        BY <2>3, <3>0, <4>1, ConstAssumption DEF TeidTableMatchesRules, Rules
      <4>3. t \in teids => u = s
        BY <2>1, <2>3, <4>2 DEF OwnInv
      <4> QED BY <1>3, <3>0, <4>1, <4>3
    <3> QED BY <3>1, <3>2
  <2> QED BY <1>3, <1>4, <2>2, <2>3 DEF TeidTableMatchesRules, Rules
<1>19. SortedInv'
  <2>1. \A u \in Sessions : \A i \in 1 .. Len(pdr_list[u]) : pdr_list[u][i] \in Slots
    BY <1>4, ListFacts
  <2> QED BY <1>3, <1>9, <2>1 DEF SortedInv
<1> QED BY <1>11, <1>12, <1>13, <1>14, <1>17, <1>18, <1>19

-----------------------------------------------------------------------------
(* Removing PDRs. *)

(* ogs_pfcp_pdr_remove for the PDRs of "gone" keeps the invariant when the  *)
(* rest is nothing, or a sorted list with all a session needs in which no   *)
(* PDR has the TEID of one that goes.                                       *)
LEMMA RemoveRule ==
  ASSUME RuleInv, NEW s \in Sessions, NEW rest \in Seq(Slots), NEW gone \in Seq(Slots),
         IsInjective(rest), IsInjective(gone),
         ToSet(rest) \cup ToSet(gone) = Rules(s), ToSet(rest) \cap ToSet(gone) = {},
         pdr_remove(s, rest, gone),
         transport_mode' = transport_mode,
         sess_list' \subseteq Sessions, \A u \in sess_list : u # s => u \in sess_list',
         main.pc # "fill", main.sess \in {NoSess, s},
         main'.pc \in {"idle", "restore"}, main' = [IdleMain EXCEPT !.pc = main'.pc],
         \/ rest = <<>>
         \/ /\ main.sess = NoSess /\ s \in sess_list'
            /\ \A id \in SessionPdrs : \E q \in ToSet(rest) : pdr[q].id = id
            /\ (\E q \in ToSet(rest) : pdr[q].id = "qdl")
                 <=> (\E q \in ToSet(rest) : pdr[q].id = "qul")
            /\ \A p \in ToSet(gone), q \in ToSet(rest) : pdr[q].teid # p
            /\ \A i, j \in 1 .. Len(rest) : i < j =>
                 Precedence(pdr[rest[i]].id) <= Precedence(pdr[rest[j]].id)
  PROVE  RuleInv'
<1> USE DEF RuleInv
<1> DEFINE G == ToSet(gone)
           teids == {pdr[p].teid : p \in ToSet(gone)} \ {pdr[p].teid : p \in ToSet(rest)}
<1>1. /\ pdr_list' = [pdr_list EXCEPT ![s] = rest]
      /\ pdr_pool' = pdr_pool \o gone
      /\ pdr' = [p \in Slots |-> IF p \in G THEN ZeroPdr ELSE pdr[p]]
      /\ object_teid_hash' = [t \in Slots |-> IF t \in teids THEN NoSess
                                              ELSE object_teid_hash[t]]
  BY DEF pdr_remove
<1>2. G \subseteq Slots /\ G \subseteq Rules(s) /\ NoSess \notin Sessions
  BY ToSetType, ConstAssumption
<1>3. /\ main'.sess = NoSess
      /\ \A u \in Sessions : \A p : ~Fresh(u, p) /\ ~Fresh(u, p)'
  BY DEF Fresh, IdleMain
<1>4. /\ pdr_list'[s] = rest /\ Rules(s)' = ToSet(rest)
      /\ \A u \in Sessions \ {s} : pdr_list'[u] = pdr_list[u] /\ Rules(u)' = Rules(u)
      /\ \A u \in Sessions : Rules(u)' \subseteq Rules(u) /\ Rules(u) \subseteq Slots
  <2>1. /\ pdr_list'[s] = rest
        /\ \A u \in Sessions \ {s} : pdr_list'[u] = pdr_list[u]
    BY <1>1 DEF RuleTypes
  <2> QED BY <2>1, ListFacts DEF Rules
<1>5. /\ \A u \in Sessions : \A q \in Rules(u)' : q \in Slots /\ q \notin G /\ pdr'[q] = pdr[q]
      /\ \A q \in Slots \ G : pdr'[q] = pdr[q]
  <2>1. \A q \in Slots \ G : pdr'[q] = pdr[q]
    BY <1>1
  <2>2. ASSUME NEW u \in Sessions, NEW q \in Rules(u)' PROVE q \in Slots /\ q \notin G
    <3>1. CASE u = s
      BY <1>4, <2>2, <3>1
    <3>2. CASE u # s
      BY <1>2, <1>4, <2>2, <3>2 DEF OwnInv
    <3> QED BY <3>1, <3>2
  <2> QED BY <2>1, <2>2
<1>6. /\ pdr_pool' \in Seq(Slots) /\ ToSet(pdr_pool') = ToSet(pdr_pool) \cup G
      /\ IsInjective(pdr_pool')
  <2>1. pdr_pool \in Seq(Slots) /\ IsInjective(pdr_pool) /\ ToSet(pdr_pool) \cap G = {}
    BY <1>2 DEF RuleTypes, OwnInv
  <2> QED BY <1>1, <2>1, ConcatFacts
<1>7. RuleTypes'
  <2>1. pdr' \in [Slots -> PdrRec]
    BY <1>1 DEF RuleTypes, PdrRec, ZeroPdr
  <2>2. object_teid_hash' \in [Slots -> Sessions \cup {NoSess}]
    BY <1>1 DEF RuleTypes
  <2>3. pdr_list' \in [Sessions -> Seq(Slots)]
    BY <1>1 DEF RuleTypes
  <2>4. main' \in [pc : {"idle", "add", "fill", "finish", "cleanup", "restore"},
               sess : Sessions \cup {NoSess}, addr : Addrs \cup {NoAddr},
               todo : PdrIds \cup {"none"}, created : SUBSET Slots]
    BY DEF IdleMain
  <2> QED BY <1>6, <2>1, <2>2, <2>3, <2>4 DEF RuleTypes
<1>8. OwnInv'
  <2>1. ASSUME NEW u \in Sessions
        PROVE  /\ IsInjective(pdr_list'[u])
               /\ Rules(u)' # {} => u \in sess_list'
               /\ \A p \in Rules(u)' : p \notin ToSet(pdr_pool')
    <3>1. CASE u = s
      <4>1. IsInjective(rest) /\ (Rules(s)' # {} => s \in sess_list')
        BY <1>4, EmptyFacts
      <4>2. \A p \in ToSet(rest) : p \notin ToSet(pdr_pool) /\ p \notin G
        BY DEF OwnInv
      <4> QED BY <1>4, <1>6, <3>1, <4>1, <4>2
    <3>2. CASE u # s
      <4>1. \A p \in Rules(u) : p \notin ToSet(pdr_pool) /\ p \notin G
        BY <1>2, <3>2 DEF OwnInv
      <4> QED BY <1>4, <1>6, <3>2, <4>1 DEF OwnInv
    <3> QED BY <3>1, <3>2
  <2>2. \A u, v \in Sessions : \A p \in Rules(u)' : p \in Rules(v)' => v = u
    BY <1>4 DEF OwnInv
  <2>3. ASSUME NEW p \in Slots, p \notin ToSet(pdr_pool')
        PROVE  \E u \in Sessions : p \in Rules(u)'
    <3>1. PICK u \in Sessions : p \in Rules(u)
      BY <1>6, <2>3 DEF OwnInv
    <3> QED BY <1>4, <1>6, <2>3, <3>1
  <2> QED BY <1>6, <2>1, <2>2, <2>3 DEF OwnInv
<1>9. MainInv'
  BY DEF MainInv
<1>10. \A u \in Sessions : main.sess # u \/ Rules(u)' = {}
  BY <1>2, <1>4, EmptyFacts
<1>11. IdInv'
  <2>1. \A u \in Sessions :
          /\ \A p, q \in Rules(u)' : pdr'[p].id = pdr'[q].id => p = q
          /\ \A p \in Rules(u)' : pdr'[p].id \in PdrIds /\ pdr'[p].far = FarOf(pdr'[p].id)
    BY <1>3, <1>4, <1>5 DEF IdInv
  <2>2. ASSUME NEW u \in Sessions
        PROVE  /\ pdr_list'[u] # <<>> => \A id \in SessionPdrs : HasId(u, id)'
               /\ HasId(u, "qdl")' <=> HasId(u, "qul")'
    <3>1. CASE u # s
      <4>1. \A x : HasId(u, x)' <=> HasId(u, x)
        BY <1>4, <1>5, <3>1 DEF HasId
      <4>2. main.sess # u
        BY <1>2, <3>1
      <4>3. /\ pdr_list[u] # <<>> => \A id \in SessionPdrs : HasId(u, id)
            /\ HasId(u, "qdl") <=> HasId(u, "qul")
        BY <4>2 DEF IdInv
      <4> QED BY <1>4, <3>1, <4>1, <4>3
    <3>2. CASE u = s
      <4>1. \A x : HasId(s, x)' <=> \E q \in ToSet(rest) : pdr[q].id = x
        BY <1>4, <1>5 DEF HasId
      <4>2. CASE rest = <<>>
        BY <1>4, <3>2, <4>1, <4>2, EmptyFacts
      <4>3. CASE rest # <<>>
        BY <3>2, <4>1, <4>3
      <4> QED BY <4>2, <4>3
    <3> QED BY <3>1, <3>2
  <2> QED BY <1>3, <2>1, <2>2 DEF IdInv
<1>12. TeidInv'
  <2>1. ASSUME NEW u \in Sessions, NEW p \in Rules(u)' PROVE TeidOf(u, p, pdr[p].teid)'
    <3>1. TeidOf(u, p, pdr[p].teid)
      BY <1>4, <1>10, <2>1 DEF TeidInv
    <3> QED BY <1>4, <1>5, <2>1, <3>1 DEF TeidOf
  <2> QED BY <1>2, <1>3, <2>1 DEF TeidInv
<1>13. TeidTableMatchesRules'
  <2>1. ASSUME NEW t \in Slots, object_teid_hash'[t] # NoSess
        PROVE  t \in ToSet(pdr_list'[object_teid_hash'[t]]) /\ pdr'[t].teid = t
    <3>1. /\ t \notin teids /\ object_teid_hash'[t] = object_teid_hash[t]
          /\ object_teid_hash[t] \in Sessions
      BY <1>1, <2>1 DEF RuleTypes
    <3>2. t \in Rules(object_teid_hash[t]) /\ pdr[t].teid = t
      BY <2>1, <3>1 DEF TeidTableMatchesRules, Rules
    <3>3. t \notin G
      <4>1. SUFFICES ASSUME t \in G PROVE FALSE
        OBVIOUS
      <4>2. \E q \in ToSet(rest) : pdr[q].teid = t
        BY <3>1, <3>2, <4>1
      <4> QED BY <4>1, <4>2, EmptyFacts
    <3>4. t \in Rules(object_teid_hash[t])'
      <4>1. CASE object_teid_hash[t] = s
        BY <1>1, <3>1, <3>2, <3>3, <4>1 DEF Rules, RuleTypes
      <4>2. CASE object_teid_hash[t] # s
        BY <1>1, <3>1, <3>2, <4>2 DEF Rules, RuleTypes
      <4> QED BY <4>1, <4>2
    <3> QED BY <1>4, <1>5, <3>1, <3>2, <3>3, <3>4 DEF Rules
  <2>2. ASSUME NEW u \in Sessions, NEW q \in Rules(u)', pdr'[q].teid # NoSlot
        PROVE  object_teid_hash'[pdr'[q].teid] = u
    <3>0. q \in Rules(u) /\ pdr'[q].teid = pdr[q].teid
      BY <1>4, <1>5, <2>2
    <3>1. pdr[q].teid \in Slots
      BY <1>5, <2>2, <3>0 DEF RuleTypes, PdrRec
    <3>2. object_teid_hash[pdr[q].teid] = u
      BY <2>2, <3>0 DEF TeidTableMatchesRules, Rules
    <3>3. pdr[q].teid \notin teids
      <4>1. SUFFICES ASSUME NEW p \in G, pdr[p].teid = pdr[q].teid,
                            pdr[q].teid \notin {pdr[r].teid : r \in ToSet(rest)}
                     PROVE  FALSE
        OBVIOUS
      <4>2. object_teid_hash[pdr[p].teid] = s
        BY <1>2, <2>2, <3>0, <4>1 DEF TeidTableMatchesRules, Rules
      <4> QED BY <1>4, <2>2, <3>2, <4>1, <4>2
    <3> QED BY <1>1, <3>0, <3>1, <3>2, <3>3
  <2> QED BY <2>1, <2>2 DEF TeidTableMatchesRules, Rules
<1>14. SortedInv'
  <2>1. ASSUME NEW u \in Sessions, NEW i \in 1 .. Len(pdr_list'[u]),
               NEW j \in 1 .. Len(pdr_list'[u]), i < j
        PROVE  Precedence(pdr'[pdr_list'[u][i]].id) <= Precedence(pdr'[pdr_list'[u][j]].id)
    <3>0. pdr_list'[u] \in Seq(Slots)
      BY <1>7 DEF RuleTypes
    <3>1. pdr_list'[u][i] \in Rules(u)' /\ pdr_list'[u][j] \in Rules(u)'
      BY <2>1, <3>0, ToSetType DEF Rules
    <3>2. pdr'[pdr_list'[u][i]] = pdr[pdr_list'[u][i]] /\ pdr'[pdr_list'[u][j]] = pdr[pdr_list'[u][j]]
      BY <1>5, <3>1
    <3>3. CASE u = s
      <4>1. rest # <<>>
        BY <1>4, <2>1, <3>3
      <4> QED BY <1>4, <2>1, <3>2, <3>3, <4>1
    <3>4. CASE u # s
      <4>1. pdr[pdr_list[u][j]].id # "none"
        BY <1>3, <1>4, <3>1, <3>4, IdFacts DEF IdInv
      <4> QED BY <1>4, <2>1, <3>2, <3>4, <4>1 DEF SortedInv
    <3> QED BY <3>3, <3>4
  <2> QED BY <2>1 DEF SortedInv
<1> QED BY <1>7, <1>8, <1>9, <1>11, <1>12, <1>13, <1>14

LEMMA ClearRule ==
  ASSUME RuleInv, NEW s \in Sessions, sess_clear(s), transport_mode' = transport_mode,
         sess_list' \subseteq Sessions, \A u \in sess_list : u # s => u \in sess_list',
         main.pc # "fill", main.sess \in {NoSess, s},
         main'.pc \in {"idle", "restore"}, main' = [IdleMain EXCEPT !.pc = main'.pc]
  PROVE  RuleInv'
<1>1. pdr_remove(s, <<>>, pdr_list[s])
  BY DEF sess_clear
<1>2. pdr_list[s] \in Seq(Slots) /\ IsInjective(pdr_list[s])
  BY DEF RuleInv, RuleTypes, OwnInv
<1>3. ToSet(pdr_list[s]) = Rules(s)
  BY DEF Rules
<1> QED BY <1>1, <1>2, <1>3, EmptyFacts, RemoveRule

LEMMA RefuseRule ==
  ASSUME RuleInv, session_refused
  PROVE  RuleInv'
<1>1. main.pc = "cleanup" /\ main.sess \in Sessions
  BY DEF session_refused, RuleInv, MainInv, RuleTypes
<1>2. sess_clear(main.sess) /\ main' = IdleMain
      /\ UNCHANGED <<transport_mode, sess_list>>
  BY DEF session_refused
<1>3. sess_list \subseteq Sessions /\ main'.pc = "idle"
      /\ main' = [IdleMain EXCEPT !.pc = main'.pc]
  BY <1>2 DEF RuleInv, RuleTypes, IdleMain
<1> QED BY <1>1, <1>2, <1>3, ClearRule

LEMMA SessRemoveRule ==
  ASSUME RuleInv, NEW s \in Sessions, sess_remove(s), transport_mode' = transport_mode,
         main.pc \in {"idle", "restore"}, main' \in {main, IdleMain}
  PROVE  RuleInv'
<1>1. main = [IdleMain EXCEPT !.pc = main.pc] /\ sess_list \subseteq Sessions
  BY DEF RuleInv, MainInv, RuleTypes
<1>2. main.sess = NoSess /\ main'.pc \in {"idle", "restore"}
      /\ main' = [IdleMain EXCEPT !.pc = main'.pc]
  BY <1>1 DEF IdleMain
<1>3. sess_clear(s) /\ sess_list' = sess_list \ {s}
  BY DEF sess_remove
<1> QED BY <1>1, <1>2, <1>3, ClearRule

(* What ogs_pfcp_pdr_find returns for the PDRs of a flow. *)
LEMMA FlowFound ==
  ASSUME RuleInv, main.pc = "idle", NEW s \in Sessions, HasFlow(s)
  PROVE  /\ pdr_find(s, "qdl") \in Rules(s) /\ pdr[pdr_find(s, "qdl")].id = "qdl"
         /\ pdr_find(s, "qul") \in Rules(s) /\ pdr[pdr_find(s, "qul")].id = "qul"
         /\ pdr_list[s] # <<>>
<1>1. HasId(s, "qul") /\ main.sess # s
  BY ConstAssumption DEF RuleInv, MainInv, IdleMain, HasFlow, HasId, Rules
<1>2. HasId(s, "qdl")
  BY <1>1 DEF RuleInv, IdInv
<1>3. Rules(s) # {}
  BY <1>1 DEF HasId
<1> QED BY <1>1, <1>2, <1>3, ListFacts DEF RuleInv, HasId, Rules, pdr_find

LEMMA RemoveFlowRule ==
  ASSUME RuleInv, NEW s \in Sessions, remove_flow_request(s)
  PROVE  RuleInv'
<1> USE DEF RuleInv
<1>1. main.pc = "idle" /\ HasFlow(s) /\ s \in sess_list
      /\ UNCHANGED <<transport_mode, sess_list, main>>
  BY DEF remove_flow_request, MainIdle
<1>2. PICK qdl \in Rules(s) : qdl = pdr_find(s, "qdl") /\ pdr[qdl].id = "qdl"
  BY <1>1, FlowFound
<1>3. PICK qul \in Rules(s) : qul = pdr_find(s, "qul") /\ pdr[qul].id = "qul"
  BY <1>1, FlowFound
<1> DEFINE list == pdr_list[s]
           one == RemoveFirst(list, qdl)
           rest == RemoveFirst(one, qul)
           R == {e \in Slots \X Slots :
                   Precedence(pdr[e[1]].id) <= Precedence(pdr[e[2]].id)}
<1>4. pdr_remove(s, rest, <<qdl, qul>>)
  BY <1>2, <1>3 DEF remove_flow_request
<1>5. main = IdleMain /\ main.sess = NoSess /\ NoSess \notin Sessions
  BY <1>1, ConstAssumption DEF MainInv, IdleMain
<1>6. /\ qdl \in Slots /\ qul \in Slots /\ qdl # qul /\ list \in Seq(Slots)
      /\ IsInjective(list) /\ ToSet(list) = Rules(s) /\ list # <<>>
  BY <1>1, <1>2, <1>3, ListFacts, FlowFound DEF OwnInv, Rules
<1>7. \A p \in Rules(s) : p \in Slots /\ pdr[p].id \in PdrIds
  BY <1>1, ListFacts DEF IdInv, Fresh
<1>8. Ordered(list, R)
  <2>1. ASSUME NEW i \in 1 .. Len(list), NEW j \in 1 .. Len(list), i < j
        PROVE  <<list[i], list[j]>> \in R
    <3>1. list[i] \in Rules(s) /\ list[j] \in Rules(s)
      BY <2>1, ListFacts
    <3>2. pdr[list[j]].id # "none"
      BY <1>7, <3>1, IdFacts
    <3> QED BY <1>7, <2>1, <3>1, <3>2 DEF SortedInv
  <2> HIDE DEF R
  <2> QED BY <2>1 DEF Ordered
<1> HIDE DEF R, list
<1>9. /\ one \in Seq(Slots) /\ ToSet(one) = Rules(s) \ {qdl} /\ IsInjective(one)
      /\ Ordered(one, R)
  BY <1>2, <1>6, <1>8, RemoveFirstFacts
<1> HIDE DEF one
<1>10. /\ rest \in Seq(Slots) /\ ToSet(rest) = Rules(s) \ {qdl, qul} /\ IsInjective(rest)
       /\ Ordered(rest, R)
  <2>1. qul \in ToSet(one)
    BY <1>3, <1>6, <1>9
  <2>2. /\ rest \in Seq(Slots) /\ ToSet(rest) = ToSet(one) \ {qul} /\ IsInjective(rest)
        /\ Ordered(rest, R)
    BY <1>9, <2>1, RemoveFirstFacts
  <2> QED BY <1>9, <2>2
<1> HIDE DEF rest
<1>11. /\ <<qdl, qul>> \in Seq(Slots) /\ ToSet(<<qdl, qul>>) = {qdl, qul}
       /\ IsInjective(<<qdl, qul>>)
  <2>1. <<qdl, qul>> \in Seq(Slots) /\ DOMAIN <<qdl, qul>> = {1, 2}
    BY <1>6
  <2> QED BY <1>6, <2>1 DEF ToSet, IsInjective
<1>12. \A id \in SessionPdrs : \E q \in ToSet(rest) : pdr[q].id = id
  <2>1. \A id \in SessionPdrs : HasId(s, id)
    BY <1>5, <1>6 DEF IdInv, list
  <2>2. "qdl" \notin SessionPdrs /\ "qul" \notin SessionPdrs
    BY DEF SessionPdrs
  <2> QED BY <1>2, <1>3, <1>10, <2>1, <2>2 DEF HasId
<1>13. \A q \in ToSet(rest) : pdr[q].id # "qdl" /\ pdr[q].id # "qul"
  BY <1>2, <1>3, <1>10 DEF IdInv
<1>14. ASSUME NEW p \in {qdl, qul}, NEW q \in ToSet(rest) PROVE pdr[q].teid # p
  <2>1. q \in Rules(s) /\ p \in Rules(s) /\ q # p
    BY <1>2, <1>3, <1>10, <1>14
  <2>2. TeidOf(s, q, pdr[q].teid)
    BY <1>5, <2>1 DEF TeidInv
  <2>3. PICK r \in Rules(s) : pdr[r].id = "ul"
    BY <1>5, <1>6 DEF IdInv, list, SessionPdrs, HasId
  <2>4. pdr[q].teid \in {NoSlot, r, q}
    BY <2>2, <2>3 DEF TeidOf
  <2>5. r # p /\ p # NoSlot
    BY <1>2, <1>3, <1>6, <2>3, IdFacts
  <2> QED BY <2>1, <2>4, <2>5
<1>15. \A i, j \in 1 .. Len(rest) : i < j =>
          Precedence(pdr[rest[i]].id) <= Precedence(pdr[rest[j]].id)
  BY <1>10 DEF Ordered, R
<1>16. ToSet(rest) \cup {qdl, qul} = Rules(s) /\ ToSet(rest) \cap {qdl, qul} = {}
  BY <1>2, <1>3, <1>10
<1>17. /\ transport_mode' = transport_mode /\ sess_list' = sess_list /\ main' = main
       /\ sess_list \subseteq Sessions
       /\ main'.pc = "idle" /\ main' = [IdleMain EXCEPT !.pc = main'.pc]
  BY <1>1, <1>5 DEF RuleTypes, IdleMain
<1> DEFINE gone == <<qdl, qul>>
<1>18. gone \in Seq(Slots) /\ IsInjective(gone) /\ ToSet(gone) = {qdl, qul}
       /\ pdr_remove(s, rest, gone)
  BY <1>4, <1>11
<1> HIDE DEF gone
<1>19. /\ ToSet(rest) \cup ToSet(gone) = Rules(s) /\ ToSet(rest) \cap ToSet(gone) = {}
       /\ \A p \in ToSet(gone), q \in ToSet(rest) : pdr[q].teid # p
       /\ (\E q \in ToSet(rest) : pdr[q].id = "qdl")
            <=> (\E q \in ToSet(rest) : pdr[q].id = "qul")
  BY <1>13, <1>14, <1>16, <1>18
<1> QED BY <1>1, <1>5, <1>10, <1>12, <1>15, <1>17, <1>18, <1>19, RemoveRule

-----------------------------------------------------------------------------
LEMMA RuleNext == RuleInv /\ [Next]_vars => RuleInv'
<1> SUFFICES ASSUME RuleInv, [Next]_vars PROVE RuleInv'
  OBVIOUS
<1>1. CASE UNCHANGED vars
  BY <1>1, RuleFrame DEF vars, pdrVars, sessVars, ruleVars
<1>2. ASSUME NEW s \in Sessions, NEW a \in Addrs, session_establishment_request(s, a)
      PROVE  RuleInv'
  BY <1>2, EstablishRule
<1>3. ASSUME NEW s \in Sessions, create_flow_request(s) PROVE RuleInv'
  BY <1>3, CreateFlowRule
<1>4. ASSUME NEW s \in Sessions, remove_flow_request(s) PROVE RuleInv'
  BY <1>4, RemoveFlowRule
<1>5. ASSUME NEW s \in Sessions, session_deletion_request(s) PROVE RuleInv'
  <2>1. sess_remove(s) /\ transport_mode' = transport_mode /\ main.pc = "idle" /\ main' = main
    BY <1>5 DEF session_deletion_request, MainIdle
  <2> QED BY <2>1, SessRemoveRule
<1>6. ASSUME NEW s \in Sessions, deletion_lost(s) PROVE RuleInv'
  BY <1>6, RuleFrame DEF deletion_lost, pdrVars, sessVars, ruleVars
<1>7. ASSUME NEW s \in Sessions, NEW F \in SUBSET DlFars, NEW g \in Gnbs,
             activate_request(s, F, g)
      PROVE  RuleInv'
  BY <1>7, RuleFrame DEF activate_request, pdrVars, ruleVars
<1>8. ASSUME NEW s \in Sessions, deactivate_request(s) PROVE RuleInv'
  BY <1>8, RuleFrame DEF deactivate_request, pdrVars, ruleVars
<1>9. CASE pdr_add
  BY <1>9, AddRule
<1>10. CASE handle_create_pdr
  BY <1>10, FillRule
<1>11. CASE session_accepted
  BY <1>11, AcceptRule
<1>12. CASE session_refused
  BY <1>12, RefuseRule
<1>13. CASE pfcp_restoration
  BY <1>13, RestorationRule
<1>14. ASSUME NEW s \in Sessions, restoration_remove(s) PROVE RuleInv'
  <2>1. /\ sess_remove(s) /\ transport_mode' = transport_mode /\ main.pc = "restore"
        /\ main' \in {main, IdleMain}
    BY <1>14 DEF restoration_remove
  <2> QED BY <2>1, SessRemoveRule
<1>15. ASSUME NEW a \in Addrs, NEW class \in {"flow", "other"}, tun_recv(a, class)
       PROVE  RuleInv'
  BY <1>15, RuleFrame DEF tun_recv, pdrVars, ruleVars
<1>16. ASSUME NEW t \in Slots, NEW class \in Classes, gtpu_recv(t, class) PROVE RuleInv'
  BY <1>16, RuleFrame DEF gtpu_recv, pdrVars, ruleVars
<1>17. ASSUME NEW t \in Slots, uplink_find(t) PROVE RuleInv'
  BY <1>17, RuleFrame DEF uplink_find, ulVars, pdrVars, ruleVars
<1>18. ASSUME NEW class \in Classes, uplink_pick(class) PROVE RuleInv'
  BY <1>18, RuleFrame DEF uplink_pick, ulVars, pdrVars, ruleVars
<1>19. CASE uplink_use
  BY <1>19, RuleFrame DEF uplink_use, ulVars, pdrVars, ruleVars
<1> QED
  BY <1>1, <1>2, <1>3, <1>4, <1>5, <1>6, <1>7, <1>8, <1>9, <1>10, <1>11, <1>12,
     <1>13, <1>14, <1>15, <1>16, <1>17, <1>18, <1>19 DEF Next

LEMMA RuleAlways == Spec => []RuleInv
<1> QED BY RuleInit, RuleNext, PTL DEF Spec

-----------------------------------------------------------------------------
(* Creating, refusing and removing rules leaves no dangling TEID entry and  *)
(* loses none (ogs_pfcp_object_teid_hash_set, ogs_pfcp_pdr_remove).         *)
THEOREM TeidTable == Spec => []TeidTableMatchesRules
<1>1. RuleInv => TeidTableMatchesRules
  BY DEF RuleInv
<1> QED BY <1>1, RuleAlways, PTL

(* No PDR is lost or linked twice, whatever mix of requests is accepted,    *)
(* refused half-way or cut short by a restoration (ogs_pfcp_pdr_add,        *)
(* ogs_pfcp_pdr_remove, upf_sess_remove).                                   *)
THEOREM Ownership == Spec => []PdrOwnership
<1>1. ASSUME RuleInv PROVE PdrOwnership
  <2> USE <1>1 DEF RuleInv
  <2>1. IsInjective(pdr_pool)
    BY DEF OwnInv
  <2>2. \A s \in Sessions : IsInjective(pdr_list[s]) /\ (pdr_list[s] # <<>> => s \in sess_list)
    BY ListFacts DEF OwnInv
  <2>3. ASSUME NEW p \in Slots
        PROVE  Cardinality({s \in Sessions : p \in ToSet(pdr_list[s])})
                 = IF p \in ToSet(pdr_pool) THEN 0 ELSE 1
    <3>1. CASE p \in ToSet(pdr_pool)
      <4>1. {s \in Sessions : p \in ToSet(pdr_list[s])} = {}
        BY <3>1 DEF OwnInv, Rules
      <4> QED BY <3>1, <4>1, FS_EmptySet
    <3>2. CASE p \notin ToSet(pdr_pool)
      <4>1. PICK s \in Sessions : p \in Rules(s)
        BY <3>2 DEF OwnInv
      <4>2. {u \in Sessions : p \in ToSet(pdr_list[u])} = {s}
        BY <4>1 DEF OwnInv, Rules
      <4> QED BY <3>2, <4>2, FS_Singleton
    <3> QED BY <3>1, <3>2
  <2> QED BY <2>1, <2>2, <2>3 DEF PdrOwnership
<1> QED BY <1>1, RuleAlways, PTL
=============================================================================
