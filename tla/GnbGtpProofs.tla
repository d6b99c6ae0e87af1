---------------------------- MODULE GnbGtpProofs ----------------------------
(***************************************************************************)
(* What holds of GnbGtp for any number of UEs, sessions, TEIDs, rates and  *)
(* queued messages, with radio link failures at any time.                  *)
(*                                                                         *)
(* The argument is about who owns a TEID: the NGAP task hands each TEID    *)
(* out once, so a message, a table entry or a tree entry that carries one  *)
(* belongs to the session it was handed out for.                           *)
(***************************************************************************)
EXTENDS GnbGtp, SequenceFacts

(* TEIDs above the counter have not been handed out. *)
CounterInv ==
  \A t \in Teids : teidOwner[t] # Absent => t <= m_downlinkTeidCounter

(* A waiting SESSION_CREATE carries a TEID of its own session. *)
QueueInv ==
  \A i \in 1 .. Len(queue) : queue[i].type = "SESSION_CREATE" =>
    teidOwner[queue[i].resource.teid] = queue[i].session

(* So do the table, the tree and the last packet. *)
OwnerInv ==
  /\ \A s \in Sessions : m_pduSessions[s] # Absent =>
       teidOwner[m_pduSessions[s].teid] = s
  /\ \A t \in Teids : mapByDownTeid[t] # Absent => teidOwner[t] = mapByDownTeid[t]
  /\ PacketsStayInSession

(* PduSessionTree::insert never fills mapByUeId, so it stays empty. *)
EmptyInv == mapByUeId = [u \in UEs |-> {}]

(* The inductive invariant. *)
Inv == TypeOK /\ CounterInv /\ QueueInv /\ OwnerInv /\ TreeFindsSessions
       /\ UplinkLimits /\ EmptyInv

-----------------------------------------------------------------------------

(* onLoop's dispatch: a message of a type has the fields of that type. *)
LEMMA MsgKinds ==
  ASSUME NEW m \in Msg
  PROVE  /\ m.type = "UE_CONTEXT_UPDATE" => m.ue \in UEs /\ m.ambr \in Rates
         /\ m.type = "UE_CONTEXT_RELEASE" => m.ue \in UEs
         /\ m.type = "SESSION_CREATE" =>
              /\ m.session \in Sessions /\ m.resource \in Resource
              /\ m.resource.teid \in Teids /\ m.resource.sessionAmbr \in Rates
         /\ m.type = "SESSION_RELEASE" => m.session \in Sessions
  BY DEF Msg, Resource

(* Taking a message leaves the others. *)
LEMMA TakeQueue ==
  ASSUME NEW q \in Seq(Msg), q # <<>>
  PROVE  /\ Head(q) \in Msg /\ Head(q) = q[1] /\ 1 \in 1 .. Len(q)
         /\ Tail(q) \in Seq(Msg)
         /\ \A i \in 1 .. Len(Tail(q)) : i + 1 \in 1 .. Len(q) /\ Tail(q)[i] = q[i + 1]
  OBVIOUS

(* Pushing messages adds them behind the others. *)
LEMMA PushQueue ==
  ASSUME NEW q \in Seq(Msg), NEW r \in Seq(Msg)
  PROVE  /\ q \o r \in Seq(Msg)
         /\ \A i \in 1 .. Len(q \o r) :
              \/ i \in 1 .. Len(q) /\ (q \o r)[i] = q[i]
              \/ i - Len(q) \in 1 .. Len(r) /\ (q \o r)[i] = r[i - Len(q)]
  OBVIOUS

(* A UE id and a session id are the parts of a session. *)
LEMMA SessionParts ==
  ASSUME NEW s \in Sessions
  PROVE  s[1] \in UEs /\ s[2] \in Psis /\ s # Absent
  BY ConstAssumption DEF Sessions

(* A resource is not Absent. *)
LEMMA ResourceFields ==
  ASSUME NEW r \in Resource
  PROVE  r.teid \in Teids /\ r.sessionAmbr \in Rates /\ r # Absent
<1>1. \A x \in Rates : x \in Nat
  BY ConstAssumption DEF Rates
<1>2. \A t \in Teids : t \in Nat
  BY ConstAssumption DEF Teids
<1>3. r \in [teid : Nat, sessionAmbr : Nat]
  BY <1>1, <1>2 DEF Resource
<1> QED BY <1>3, ConstAssumption DEF Resource

LEMMA InitInv == Init => Inv
<1> SUFFICES ASSUME Init PROVE Inv
  OBVIOUS
<1>1. 0 \in Rates /\ 0 \in 0 .. MaxTeid
  BY ConstAssumption DEF Rates
<1>2. TypeOK
  BY <1>1 DEF Init, TypeOK
<1>3. CounterInv /\ QueueInv /\ OwnerInv /\ TreeFindsSessions /\ UplinkLimits /\ EmptyInv
  BY DEF Init, CounterInv, QueueInv, OwnerInv, PacketsStayInSession, TreeFindsSessions,
         UplinkLimits, EmptyInv
<1> QED BY <1>2, <1>3 DEF Inv

-----------------------------------------------------------------------------
(* The NGAP task's steps *)

(* A list of items is a sequence. *)
LEMMA ListsSeq ==
  ASSUME NEW psis \in Lists
  PROVE  psis \in Seq(Psis) /\ DOMAIN psis = 1 .. Len(psis) /\ Len(psis) \in Nat
<1>1. PICK n \in 0 .. MaxItems : psis \in [1 .. n -> Psis]
  BY DEF Lists
<1>2. n \in Nat
  BY <1>1, ConstAssumption
<1> QED BY <1>1, <1>2

(* The rates of signalled elements. *)
LEMMA IeRates ==
  ASSUME NEW r \in AmbrIe
  PROVE  /\ r # Absent => r \in Rates /\ r \div 8 \in Rates
         /\ 0 \in Rates
  BY ConstAssumption DEF AmbrIe, Rates

(* The SESSION_CREATE messages of a list carry the TEIDs after the counter. *)
LEMMA CreatesMsgs ==
  ASSUME TypeOK, NEW u \in UEs, NEW psis \in Lists, NEW sr \in AmbrIe,
         m_downlinkTeidCounter + Len(psis) <= MaxTeid
  PROVE  /\ creates(u, psis, sr) \in Seq(Msg)
         /\ Len(creates(u, psis, sr)) = Len(psis)
         /\ \A i \in 1 .. Len(psis) :
              /\ creates(u, psis, sr)[i].resource.teid = m_downlinkTeidCounter + i
              /\ creates(u, psis, sr)[i].session = <<u, psis[i]>>
              /\ m_downlinkTeidCounter + i \in Teids
              /\ <<u, psis[i]>> \in Sessions
<1> DEFINE ambr == IF sr = Absent THEN 0 ELSE sr \div 8
<1>1. psis \in Seq(Psis) /\ DOMAIN psis = 1 .. Len(psis) /\ Len(psis) \in Nat
  BY ListsSeq
<1>2. ambr \in Rates
  BY IeRates
<1>3. m_downlinkTeidCounter \in Nat
  BY DEF TypeOK
<1>4. ASSUME NEW i \in 1 .. Len(psis)
      PROVE  m_downlinkTeidCounter + i \in Teids /\ <<u, psis[i]>> \in Sessions
  <2>1. psis[i] \in Psis
    BY <1>1, <1>4
  <2> QED BY <1>1, <1>3, <1>4, <2>1, ConstAssumption DEF Teids, Sessions
<1>5. ASSUME NEW i \in 1 .. Len(psis)
      PROVE  [type |-> "SESSION_CREATE", session |-> <<u, psis[i]>>,
              resource |-> [teid |-> m_downlinkTeidCounter + i,
                            sessionAmbr |-> ambr]] \in Msg
  BY <1>2, <1>4, <1>5 DEF Msg, Resource
<1> QED BY <1>1, <1>4, <1>5 DEF creates

(* What every NGAP step does to the queue and the counter, whatever else it *)
(* changes: the GTP task's part of the invariant survives.                  *)
LEMMA NgapKeeps ==
  ASSUME Inv, UNCHANGED <<tableVars, limiterVars, out>>, TypeOK',
         \A t \in Teids : teidOwner[t] # Absent => teidOwner'[t] = teidOwner[t],
         CounterInv', QueueInv'
  PROVE  Inv'
<1> USE DEF Inv, tableVars, limiterVars
<1>1. OwnerInv'
  <2>1. \A s \in Sessions : m_pduSessions[s] # Absent =>
          m_pduSessions[s].teid \in Teids /\ s # Absent
    BY SessionParts, ResourceFields DEF TypeOK
  <2>2. PacketsStayInSession'
    <3>1. out # Absent => out.teid \in Teids /\ out.session \in Sessions
      BY DEF TypeOK
    <3> QED BY <3>1, SessionParts DEF PacketsStayInSession, OwnerInv
  <2> QED BY <2>1, <2>2 DEF OwnerInv
<1>2. TreeFindsSessions' /\ UplinkLimits' /\ EmptyInv'
  BY DEF TreeFindsSessions, UplinkLimits, EmptyInv
<1> QED BY <1>1, <1>2

(* A step that leaves the TEIDs alone and pushes no SESSION_CREATE. *)
LEMMA PlainPush ==
  ASSUME Inv, NEW msgs \in Seq(Msg), push(msgs),
         \A i \in 1 .. Len(msgs) : msgs[i].type # "SESSION_CREATE",
         UNCHANGED <<m_downlinkTeidCounter, teidOwner>>
  PROVE  queue' \in Seq(Msg) /\ CounterInv' /\ QueueInv'
<1>1. queue \in Seq(Msg)
  BY DEF Inv, TypeOK
<1> QED BY <1>1, PushQueue DEF push, Inv, CounterInv, QueueInv

(* A step that takes TEIDs for a list and pushes its messages behind others *)
(* that create no session.                                                  *)
LEMMA SetupPush ==
  ASSUME Inv, NEW u \in UEs, NEW psis \in Lists, NEW sr \in AmbrIe,
         NEW first \in Seq(Msg),
         \A i \in 1 .. Len(first) : first[i].type # "SESSION_CREATE",
         push(first \o creates(u, psis, sr)), takeTeids(u, psis)
  PROVE  /\ queue' \in Seq(Msg) /\ m_downlinkTeidCounter' \in 0 .. MaxTeid
         /\ teidOwner' \in [Teids -> Sessions \cup {Absent}]
         /\ \A t \in Teids : teidOwner[t] # Absent => teidOwner'[t] = teidOwner[t]
         /\ CounterInv' /\ QueueInv'
<1> DEFINE cs == creates(u, psis, sr)
           k == m_downlinkTeidCounter
<1>1. /\ psis \in Seq(Psis) /\ Len(psis) \in Nat /\ k \in Nat /\ k + Len(psis) <= MaxTeid
      /\ queue \in Seq(Msg) /\ m_downlinkTeidCounter' = k + Len(psis)
  BY ListsSeq DEF Inv, TypeOK, takeTeids
<1>2. /\ cs \in Seq(Msg) /\ Len(cs) = Len(psis)
      /\ \A i \in 1 .. Len(psis) :
           /\ cs[i].resource.teid = k + i
           /\ cs[i].session = <<u, psis[i]>>
           /\ k + i \in Teids /\ <<u, psis[i]>> \in Sessions
  BY <1>1, CreatesMsgs DEF Inv
<1> HIDE DEF cs, k
<1>3. \A t \in Teids :
        teidOwner'[t] = IF t > k /\ t - k <= Len(psis) THEN <<u, psis[t - k]>>
                                                       ELSE teidOwner[t]
  BY DEF takeTeids, k
<1>4. \A t \in Teids : teidOwner[t] # Absent => t <= k
  BY DEF Inv, CounterInv, k
<1>5. \A t \in Teids : t \in Nat
  BY ConstAssumption DEF Teids
<1>6. \A t \in Teids : teidOwner[t] # Absent => teidOwner'[t] = teidOwner[t]
  <2> TAKE t \in Teids
  <2> HAVE teidOwner[t] # Absent
  <2>1. t <= k /\ t \in Nat
    BY <1>4, <1>5
  <2>2. ~(t > k)
    BY <1>1, <2>1
  <2> QED BY <1>3, <2>2
<1>7. \A i \in 1 .. Len(psis) : teidOwner'[k + i] = <<u, psis[i]>>
  <2> TAKE i \in 1 .. Len(psis)
  <2>1. k + i \in Teids /\ k + i > k /\ (k + i) - k = i /\ i <= Len(psis)
    <3>1. i \in Nat /\ 1 <= i /\ i <= Len(psis)
      BY <1>1
    <3>2. k + i \in Teids
      BY <1>2
    <3>3. k + i > k /\ (k + i) - k = i
      BY <1>1, <3>1
    <3> QED BY <3>1, <3>2, <3>3
  <2> QED BY <1>3, <2>1
<1>8. teidOwner' \in [Teids -> Sessions \cup {Absent}]
  <2>1. \A t \in Teids : teidOwner'[t] \in Sessions \cup {Absent}
    <3> TAKE t \in Teids
    <3>1. CASE t > k /\ t - k <= Len(psis)
      <4>1. t - k \in 1 .. Len(psis)
        BY <1>1, <1>5, <3>1
      <4> QED BY <1>2, <1>3, <3>1, <4>1
    <3>2. CASE ~(t > k /\ t - k <= Len(psis))
      BY <1>3, <3>2 DEF Inv, TypeOK
    <3> QED BY <3>1, <3>2
  <2> QED BY <2>1 DEF takeTeids
<1>9. CounterInv'
  <2> SUFFICES ASSUME NEW t \in Teids, teidOwner'[t] # Absent
               PROVE  t <= k + Len(psis)
    BY <1>1 DEF CounterInv
  <2>1. CASE t > k /\ t - k <= Len(psis)
    BY <1>1, <1>5, <2>1
  <2>2. CASE ~(t > k /\ t - k <= Len(psis))
    <3>1. t <= k
      BY <1>3, <1>4, <2>2
    <3> QED BY <1>1, <1>5, <3>1
  <2> QED BY <2>1, <2>2
<1>10. first \o cs \in Seq(Msg) /\ queue' = queue \o (first \o cs)
  BY <1>2, PushQueue DEF push, cs
<1>11. queue' \in Seq(Msg)
  BY <1>1, <1>10, PushQueue
<1>12. QueueInv'
  <2> SUFFICES ASSUME NEW i \in 1 .. Len(queue'), queue'[i].type = "SESSION_CREATE"
               PROVE  teidOwner'[queue'[i].resource.teid] = queue'[i].session
    BY DEF QueueInv
  <2>1. CASE i \in 1 .. Len(queue) /\ queue'[i] = queue[i]
    <3>1. queue[i] \in Msg
      BY <1>1, <2>1
    <3>2. queue[i].resource.teid \in Teids /\ queue[i].session \in Sessions
      BY <2>1, <3>1, MsgKinds
    <3>3. teidOwner[queue[i].resource.teid] = queue[i].session
      BY <2>1 DEF Inv, QueueInv
    <3> QED BY <1>6, <2>1, <3>2, <3>3, SessionParts
  <2>2. ASSUME NEW j \in 1 .. Len(first \o cs), queue'[i] = (first \o cs)[j]
        PROVE  teidOwner'[queue'[i].resource.teid] = queue'[i].session
    <3>1. CASE j \in 1 .. Len(first) /\ (first \o cs)[j] = first[j]
      BY <2>2, <3>1
    <3>2. CASE j - Len(first) \in 1 .. Len(cs) /\ (first \o cs)[j] = cs[j - Len(first)]
      <4> DEFINE n == j - Len(first)
      <4>1. n \in 1 .. Len(psis) /\ queue'[i] = cs[n]
        BY <1>2, <2>2, <3>2
      <4> HIDE DEF n
      <4>2. queue'[i].resource.teid = k + n /\ queue'[i].session = <<u, psis[n]>>
        BY <1>2, <4>1
      <4> QED BY <1>7, <4>1, <4>2
    <3>3. first \in Seq(Msg) /\ cs \in Seq(Msg)
      BY <1>2
    <3>4. \/ j \in 1 .. Len(first) /\ (first \o cs)[j] = first[j]
          \/ j - Len(first) \in 1 .. Len(cs) /\ (first \o cs)[j] = cs[j - Len(first)]
      BY ONLY <2>2, <3>3, PushQueue
    <3> QED BY <3>1, <3>2, <3>4
  <2> DEFINE new == first \o cs
  <2>3. queue \in Seq(Msg) /\ new \in Seq(Msg) /\ queue' = queue \o new
    BY <1>1, <1>10
  <2>4. i \in 1 .. Len(queue \o new) /\ queue'[i] = (queue \o new)[i]
    BY <2>3
  <2> HIDE DEF new
  <2>5. \/ i \in 1 .. Len(queue) /\ (queue \o new)[i] = queue[i]
        \/ i - Len(queue) \in 1 .. Len(new) /\ (queue \o new)[i] = new[i - Len(queue)]
    BY ONLY <2>3, <2>4, PushQueue
  <2> QED BY <2>1, <2>2, <2>4, <2>5 DEF new
<1> QED BY <1>1, <1>6, <1>8, <1>9, <1>11, <1>12

(* The NGAP task's steps keep the invariant. *)
LEMMA NgapNext == Inv /\ NgapStep => Inv'
<1> SUFFICES ASSUME Inv, NEW u \in UEs,
                    \/ handleInitialNasTransport(u)
                    \/ \E r, sr \in AmbrIe, psis \in Lists :
                         receiveInitialContextSetup(u, r, psis, sr)
                    \/ \E sr \in AmbrIe, psis \in Lists :
                         receiveSessionResourceSetupRequest(u, psis, sr)
                    \/ \E psis \in Lists : receiveSessionResourceReleaseCommand(u, psis)
                    \/ \E r \in AmbrIe : receiveContextModification(u, r)
                    \/ receiveContextRelease(u)
                    \/ handleRadioLinkFailure(u)
             PROVE  Inv'
  BY DEF NgapStep
<1>1. TypeOK
  BY DEF Inv
<1>2. CASE handleInitialNasTransport(u)
  <2>1. TypeOK'
    <3>1. 0 \in Rates
      BY DEF Rates
    <3> QED BY <1>1, <1>2, <3>1 DEF handleInitialNasTransport, TypeOK, tableVars, limiterVars
  <2>2. CounterInv' /\ QueueInv'
    BY <1>2 DEF handleInitialNasTransport, Inv, CounterInv, QueueInv
  <2> QED BY <1>2, <2>1, <2>2, NgapKeeps DEF handleInitialNasTransport
<1>3. ASSUME NEW r \in AmbrIe, NEW sr \in AmbrIe, NEW psis \in Lists,
             receiveInitialContextSetup(u, r, psis, sr)
      PROVE  Inv'
  <2> DEFINE first == <<[type |-> "UE_CONTEXT_UPDATE", ue |-> u, ambr |-> ueAmbr[u]]>>
  <2>1. first \in Seq(Msg) /\ \A i \in 1 .. Len(first) : first[i].type # "SESSION_CREATE"
    BY <1>1 DEF TypeOK, Msg
  <2>2. push(first \o creates(u, psis, sr)) /\ takeTeids(u, psis)
    BY <1>3 DEF receiveInitialContextSetup, setupPduSessionResource
  <2> HIDE DEF first
  <2>3. /\ queue' \in Seq(Msg) /\ m_downlinkTeidCounter' \in 0 .. MaxTeid
        /\ teidOwner' \in [Teids -> Sessions \cup {Absent}]
        /\ \A t \in Teids : teidOwner[t] # Absent => teidOwner'[t] = teidOwner[t]
        /\ CounterInv' /\ QueueInv'
    BY <2>1, <2>2, SetupPush
  <2>4. ueAmbr' \in [UEs -> Rates]
    BY <1>1, <1>3, IeRates DEF receiveInitialContextSetup, TypeOK
  <2>5. m_ueCtx' \subseteq UEs /\ setUp' \subseteq m_ueCtx' /\ radioFailed' \subseteq setUp'
    BY <1>1, <1>3 DEF receiveInitialContextSetup, TypeOK
  <2>6. pduSessionsOfUe' \subseteq m_ueCtx' \X Psis
    <3>1. \A i \in DOMAIN psis : psis[i] \in Psis
      BY ListsSeq
    <3> QED BY <1>1, <1>3, <3>1
            DEF receiveInitialContextSetup, setupPduSessionResource, TypeOK
  <2>7. UNCHANGED <<radioFailed, tableVars, limiterVars, out>>
    BY <1>3 DEF receiveInitialContextSetup
  <2>8. TypeOK'
    BY <1>1, <2>3, <2>4, <2>5, <2>6, <2>7 DEF TypeOK, tableVars, limiterVars
  <2> QED BY <2>3, <2>7, <2>8, NgapKeeps
<1>4. ASSUME NEW sr \in AmbrIe, NEW psis \in Lists,
             receiveSessionResourceSetupRequest(u, psis, sr)
      PROVE  Inv'
  <2>1. push(<<>> \o creates(u, psis, sr)) /\ takeTeids(u, psis)
    <3>1. takeTeids(u, psis) /\ push(creates(u, psis, sr))
      BY <1>4 DEF receiveSessionResourceSetupRequest, setupPduSessionResource
    <3>2. creates(u, psis, sr) \in Seq(Msg)
      BY <1>1, <3>1, CreatesMsgs DEF takeTeids
    <3>3. <<>> \o creates(u, psis, sr) = creates(u, psis, sr)
      BY <3>2
    <3> QED BY <3>1, <3>3
  <2>2. <<>> \in Seq(Msg) /\ \A i \in 1 .. Len(<<>>) : <<>>[i].type # "SESSION_CREATE"
    OBVIOUS
  <2>3. /\ queue' \in Seq(Msg) /\ m_downlinkTeidCounter' \in 0 .. MaxTeid
        /\ teidOwner' \in [Teids -> Sessions \cup {Absent}]
        /\ \A t \in Teids : teidOwner[t] # Absent => teidOwner'[t] = teidOwner[t]
        /\ CounterInv' /\ QueueInv'
    BY <2>1, <2>2, SetupPush
  <2>4. pduSessionsOfUe' \subseteq m_ueCtx' \X Psis
    <3>1. \A i \in DOMAIN psis : psis[i] \in Psis
      BY ListsSeq
    <3> QED BY <1>1, <1>4, <3>1
            DEF receiveSessionResourceSetupRequest, setupPduSessionResource, TypeOK
  <2>5. UNCHANGED <<m_ueCtx, ueAmbr, setUp, radioFailed, tableVars, limiterVars, out>>
    BY <1>4 DEF receiveSessionResourceSetupRequest
  <2>6. TypeOK'
    BY <1>1, <2>3, <2>4, <2>5 DEF TypeOK, tableVars, limiterVars
  <2> QED BY <2>3, <2>5, <2>6, NgapKeeps
<1>5. ASSUME NEW psis \in Lists, receiveSessionResourceReleaseCommand(u, psis)
      PROVE  Inv'
  <2> DEFINE msgs == [i \in DOMAIN psis |->
                        [type |-> "SESSION_RELEASE", session |-> <<u, psis[i]>>]]
  <2>1. DOMAIN psis = 1 .. Len(psis) /\ Len(psis) \in Nat /\ \A i \in DOMAIN psis : psis[i] \in Psis
    BY ListsSeq
  <2>2. msgs \in Seq(Msg) /\ \A i \in 1 .. Len(msgs) : msgs[i].type # "SESSION_CREATE"
    BY <2>1 DEF Msg, Sessions
  <2>3. push(msgs) /\ UNCHANGED <<m_downlinkTeidCounter, teidOwner>>
    BY <1>5 DEF receiveSessionResourceReleaseCommand
  <2> HIDE DEF msgs
  <2>4. queue' \in Seq(Msg) /\ CounterInv' /\ QueueInv'
    BY <2>2, <2>3, PlainPush
  <2>5. TypeOK'
    BY <1>1, <1>5, <2>4 DEF receiveSessionResourceReleaseCommand, TypeOK, tableVars, limiterVars
  <2> QED BY <1>5, <2>4, <2>5, NgapKeeps DEF receiveSessionResourceReleaseCommand
<1>6. ASSUME NEW r \in AmbrIe, receiveContextModification(u, r) PROVE Inv'
  <2>1. ueAmbr' \in [UEs -> Rates]
    BY <1>1, <1>6, IeRates DEF receiveContextModification, TypeOK
  <2> DEFINE msgs == <<[type |-> "UE_CONTEXT_UPDATE", ue |-> u, ambr |-> ueAmbr'[u]]>>
  <2>2. msgs \in Seq(Msg) /\ \A i \in 1 .. Len(msgs) : msgs[i].type # "SESSION_CREATE"
    BY <2>1 DEF Msg
  <2>3. push(msgs) /\ UNCHANGED <<m_downlinkTeidCounter, teidOwner>>
    BY <1>6 DEF receiveContextModification
  <2> HIDE DEF msgs
  <2>4. queue' \in Seq(Msg) /\ CounterInv' /\ QueueInv'
    BY <2>2, <2>3, PlainPush
  <2>5. TypeOK'
    BY <1>1, <1>6, <2>1, <2>4 DEF receiveContextModification, TypeOK, tableVars, limiterVars
  <2> QED BY <1>6, <2>4, <2>5, NgapKeeps DEF receiveContextModification
<1>7. ASSUME \/ receiveContextRelease(u) \/ handleRadioLinkFailure(u) PROVE Inv'
  <2> DEFINE msgs == <<[type |-> "UE_CONTEXT_RELEASE", ue |-> u]>>
  <2>1. msgs \in Seq(Msg) /\ \A i \in 1 .. Len(msgs) : msgs[i].type # "SESSION_CREATE"
    BY DEF Msg
  <2>2. push(msgs) /\ UNCHANGED <<m_downlinkTeidCounter, teidOwner>>
    BY <1>7 DEF receiveContextRelease, handleRadioLinkFailure, ngapVars
  <2> HIDE DEF msgs
  <2>3. queue' \in Seq(Msg) /\ CounterInv' /\ QueueInv'
    BY <2>1, <2>2, PlainPush
  <2>4. TypeOK'
    <3>1. CASE receiveContextRelease(u)
      BY <1>1, <2>3, <3>1 DEF receiveContextRelease, TypeOK, tableVars, limiterVars
    <3>2. CASE handleRadioLinkFailure(u)
      BY <1>1, <2>3, <3>2 DEF handleRadioLinkFailure, TypeOK, tableVars, limiterVars, ngapVars
    <3> QED BY <1>7, <3>1, <3>2
  <2> QED BY <1>7, <2>2, <2>3, <2>4, NgapKeeps DEF receiveContextRelease, handleRadioLinkFailure
<1> QED BY <1>2, <1>3, <1>4, <1>5, <1>6, <1>7

-----------------------------------------------------------------------------
(* The GTP task's steps *)

(* What taking a message gives and leaves. *)
LEMMA Taken ==
  ASSUME Inv, NEW type, take(type), UNCHANGED ngapVars
  PROVE  /\ Head(queue) \in Msg /\ Head(queue).type = type
         /\ type = "SESSION_CREATE" =>
              teidOwner[Head(queue).resource.teid] = Head(queue).session
         /\ queue' \in Seq(Msg) /\ CounterInv' /\ QueueInv'
<1>1. queue \in Seq(Msg) /\ queue # <<>> /\ queue' = Tail(queue)
  BY DEF Inv, TypeOK, take
<1>2. Head(queue) \in Msg /\ Head(queue) = queue[1] /\ 1 \in 1 .. Len(queue)
  BY <1>1, TakeQueue
<1>3. queue' \in Seq(Msg) /\ \A i \in 1 .. Len(queue') :
                               i + 1 \in 1 .. Len(queue) /\ queue'[i] = queue[i + 1]
  BY <1>1, TakeQueue
<1>4. CounterInv' /\ QueueInv'
  BY <1>3 DEF Inv, CounterInv, QueueInv, ngapVars
<1> QED BY <1>2, <1>3, <1>4 DEF take, Inv, QueueInv

(* A UE context is created or changed. *)
LEMMA UpdateNext == Inv /\ handleUeContextUpdate => Inv'
<1> SUFFICES ASSUME Inv, handleUeContextUpdate PROVE Inv'
  OBVIOUS
<1> DEFINE u == Head(queue).ue
           a == Head(queue).ambr
<1>1. queue' \in Seq(Msg) /\ CounterInv' /\ QueueInv' /\ u \in UEs /\ a \in Rates
  BY Taken, MsgKinds DEF handleUeContextUpdate
<1>2. /\ m_ueContexts' = [m_ueContexts EXCEPT ![u] = a]
      /\ uplinkByUe' = [uplinkByUe EXCEPT ![u] = a]
      /\ downlinkByUe' = [downlinkByUe EXCEPT ![u] = a]
      /\ UNCHANGED <<ngapVars, m_pduSessions, mapByDownTeid, mapByUeId,
                     uplinkBySession, downlinkBySession, out>>
  BY DEF handleUeContextUpdate, updateAmbrForUe, updateLimit
<1> HIDE DEF u, a
<1>3. TypeOK'
  BY <1>1, <1>2 DEF Inv, TypeOK, ngapVars
<1>4. OwnerInv' /\ TreeFindsSessions' /\ EmptyInv'
  BY <1>2 DEF Inv, OwnerInv, PacketsStayInSession, TreeFindsSessions, EmptyInv, ngapVars
<1>5. UplinkLimits'
  <2>1. a # Absent
    BY <1>1, ConstAssumption DEF Rates
  <2> QED BY <1>1, <1>2, <2>1 DEF Inv, TypeOK, UplinkLimits
<1> QED BY <1>1, <1>3, <1>4, <1>5 DEF Inv

(* A session is created or replaced, or the resource is dropped. *)
LEMMA CreateNext == Inv /\ handleSessionCreate => Inv'
<1> SUFFICES ASSUME Inv, handleSessionCreate PROVE Inv'
  OBVIOUS
<1> DEFINE s == Head(queue).session
           r == Head(queue).resource
<1>1. UNCHANGED ngapVars /\ take("SESSION_CREATE")
  BY DEF handleSessionCreate
<1>2. /\ queue' \in Seq(Msg) /\ CounterInv' /\ QueueInv'
      /\ s \in Sessions /\ r \in Resource /\ teidOwner[r.teid] = s
  BY <1>1, Taken, MsgKinds
<1>3. /\ r.teid \in Teids /\ r.sessionAmbr \in Rates /\ r # Absent
      /\ s[1] \in UEs /\ s # Absent
  BY <1>2, ResourceFields, SessionParts
<1>4. CASE m_ueContexts[s[1]] = Absent
  <2>1. UNCHANGED <<tableVars, limiterVars, out>>
    BY <1>4 DEF handleSessionCreate, tableVars
  <2> QED BY <1>1, <1>2, <2>1
          DEF Inv, TypeOK, OwnerInv, PacketsStayInSession, TreeFindsSessions, UplinkLimits,
              EmptyInv, ngapVars, tableVars, limiterVars
<1>5. CASE m_ueContexts[s[1]] # Absent
  <2>1. /\ m_pduSessions' = [m_pduSessions EXCEPT ![s] = r]
        /\ mapByDownTeid' = [mapByDownTeid EXCEPT ![r.teid] = s]
        /\ uplinkByUe' = [uplinkByUe EXCEPT ![s[1]] = m_ueContexts[s[1]]]
        /\ downlinkByUe' = [downlinkByUe EXCEPT ![s[1]] = m_ueContexts[s[1]]]
        /\ uplinkBySession' = [uplinkBySession EXCEPT ![s] = r.sessionAmbr]
        /\ downlinkBySession' = [downlinkBySession EXCEPT ![s] = r.sessionAmbr]
        /\ UNCHANGED <<m_ueContexts, mapByUeId, out>>
    BY <1>5 DEF handleSessionCreate, insert, updateAmbrForUe, updateAmbrForSession, updateLimit
  <2> HIDE DEF s, r
  <2>2. m_ueContexts[s[1]] \in Rates
    BY <1>3, <1>5 DEF Inv, TypeOK
  <2>3. TypeOK'
    BY <1>1, <1>2, <1>3, <2>1, <2>2 DEF Inv, TypeOK, ngapVars
  <2>4. OwnerInv' /\ EmptyInv'
    BY <1>1, <1>2, <1>3, <2>1
       DEF Inv, TypeOK, OwnerInv, PacketsStayInSession, EmptyInv, ngapVars
  <2>5. TreeFindsSessions'
    <3> SUFFICES ASSUME NEW x \in Sessions, m_pduSessions'[x] # Absent
                 PROVE  mapByDownTeid'[m_pduSessions'[x].teid] = x
      BY DEF TreeFindsSessions
    <3>1. CASE x = s
      BY <1>2, <1>3, <2>1, <3>1 DEF Inv, TypeOK
    <3>2. CASE x # s
      <4>1. m_pduSessions'[x] = m_pduSessions[x] /\ m_pduSessions[x].teid \in Teids
        BY <2>1, <3>2, ResourceFields DEF Inv, TypeOK
      <4>2. teidOwner[m_pduSessions[x].teid] = x /\ mapByDownTeid[m_pduSessions[x].teid] = x
        BY <4>1 DEF Inv, OwnerInv, TreeFindsSessions
      <4>3. m_pduSessions[x].teid # r.teid
        BY <1>2, <3>2, <4>2
      <4> QED BY <2>1, <4>1, <4>2, <4>3 DEF Inv, TypeOK
    <3> QED BY <3>1, <3>2
  <2>6. UplinkLimits'
    <3>1. \A v \in UEs :
            uplinkByUe'[v] = IF m_ueContexts'[v] = Absent THEN 0 ELSE m_ueContexts'[v]
      BY <1>3, <1>5, <2>1 DEF Inv, TypeOK, UplinkLimits
    <3>2. \A x \in Sessions :
            uplinkBySession'[x] =
              IF m_pduSessions'[x] = Absent THEN 0 ELSE m_pduSessions'[x].sessionAmbr
      BY <1>2, <1>3, <2>1 DEF Inv, TypeOK, UplinkLimits
    <3> QED BY <3>1, <3>2 DEF UplinkLimits
  <2> QED BY <1>2, <2>3, <2>4, <2>5, <2>6 DEF Inv
<1> QED BY <1>4, <1>5

(* A session leaves the table and the tree. *)
LEMMA ReleaseNext == Inv /\ handleSessionRelease => Inv'
<1> SUFFICES ASSUME Inv, handleSessionRelease PROVE Inv'
  OBVIOUS
<1> DEFINE s == Head(queue).session
<1>1. UNCHANGED <<ngapVars, m_ueContexts, out>> /\ take("SESSION_RELEASE")
  BY DEF handleSessionRelease
<1>2. queue' \in Seq(Msg) /\ CounterInv' /\ QueueInv' /\ s \in Sessions
  BY <1>1, Taken, MsgKinds
<1>3. s[1] \in UEs
  BY <1>2, SessionParts
<1>4. CASE m_ueContexts[s[1]] = Absent
  <2>1. UNCHANGED <<tableVars, limiterVars, out>>
    BY <1>4 DEF handleSessionRelease, tableVars
  <2> QED BY <1>1, <1>2, <2>1
          DEF Inv, TypeOK, OwnerInv, PacketsStayInSession, TreeFindsSessions, UplinkLimits,
              EmptyInv, ngapVars, tableVars, limiterVars
<1>5. CASE m_ueContexts[s[1]] # Absent
  <2> DEFINE gone == {x \in {s} : m_pduSessions[x] # Absent}
  <2>1. /\ uplinkBySession' = [uplinkBySession EXCEPT ![s] = 0]
        /\ downlinkByUe' = [downlinkByUe EXCEPT ![s[1]] = 0]
        /\ m_pduSessions' = [m_pduSessions EXCEPT ![s] = Absent]
        /\ remove(gone)
        /\ UNCHANGED <<uplinkByUe, downlinkBySession>>
    BY <1>5 DEF handleSessionRelease, updateLimit
  <2> HIDE DEF s
  <2>2. /\ mapByDownTeid' \in [Teids -> Sessions \cup {Absent}]
        /\ \A t \in Teids : \/ mapByDownTeid'[t] = mapByDownTeid[t]
                            \/ mapByDownTeid'[t] = Absent /\ m_pduSessions[s] # Absent
                                 /\ m_pduSessions[s].teid = t
    BY <2>1 DEF remove, Inv, TypeOK
  <2>3. EmptyInv'
    BY <2>1 DEF remove, Inv, EmptyInv
  <2>4. TypeOK'
    <3>1. 0 \in Rates
      BY DEF Rates
    <3>2. mapByUeId' \in [UEs -> SUBSET Psis]
      BY <2>3 DEF EmptyInv
    <3> QED BY <1>1, <1>2, <1>3, <2>1, <2>2, <3>1, <3>2 DEF Inv, TypeOK, ngapVars
  <2>5. OwnerInv'
    BY <1>1, <1>2, <2>1, <2>2
       DEF Inv, TypeOK, OwnerInv, PacketsStayInSession, ngapVars
  <2>6. TreeFindsSessions'
    <3> SUFFICES ASSUME NEW x \in Sessions, m_pduSessions'[x] # Absent
                 PROVE  mapByDownTeid'[m_pduSessions'[x].teid] = x
      BY DEF TreeFindsSessions
    <3>1. x # s /\ m_pduSessions'[x] = m_pduSessions[x] /\ m_pduSessions[x].teid \in Teids
      BY <1>2, <2>1, ResourceFields DEF Inv, TypeOK
    <3>2. teidOwner[m_pduSessions[x].teid] = x /\ mapByDownTeid[m_pduSessions[x].teid] = x
      BY <3>1 DEF Inv, OwnerInv, TreeFindsSessions
    <3>3. m_pduSessions[s] # Absent => m_pduSessions[s].teid # m_pduSessions[x].teid
      BY <1>2, <3>1, <3>2 DEF Inv, OwnerInv
    <3> QED BY <2>2, <3>1, <3>2, <3>3
  <2>7. UplinkLimits'
    BY <1>1, <1>2, <2>1 DEF Inv, TypeOK, UplinkLimits
  <2> QED BY <1>2, <2>3, <2>4, <2>5, <2>6, <2>7 DEF Inv
<1> QED BY <1>4, <1>5

(* A UE context is deleted: the tree enumerates none of its sessions. *)
LEMMA DeleteNext == Inv /\ handleUeContextDelete => Inv'
<1> SUFFICES ASSUME Inv, handleUeContextDelete PROVE Inv'
  OBVIOUS
<1> DEFINE u == Head(queue).ue
<1>1. UNCHANGED <<ngapVars, downlinkBySession, out>> /\ take("UE_CONTEXT_RELEASE")
  BY DEF handleUeContextDelete
<1>2. queue' \in Seq(Msg) /\ CounterInv' /\ QueueInv' /\ u \in UEs
  BY <1>1, Taken, MsgKinds
<1>3. enumerateByUe(u) = {}
  BY <1>2 DEF enumerateByUe, Inv, EmptyInv
<1>4. /\ uplinkBySession' = uplinkBySession /\ m_pduSessions' = m_pduSessions
      /\ mapByDownTeid' = mapByDownTeid /\ EmptyInv'
      /\ uplinkByUe' = [uplinkByUe EXCEPT ![u] = 0]
      /\ downlinkByUe' = [downlinkByUe EXCEPT ![u] = 0]
      /\ m_ueContexts' = [m_ueContexts EXCEPT ![u] = Absent]
  BY <1>3 DEF handleUeContextDelete, remove, updateLimit, Inv, TypeOK, EmptyInv
<1> HIDE DEF u
<1>5. TypeOK'
  <2>1. 0 \in Rates
    BY DEF Rates
  <2>2. mapByUeId' \in [UEs -> SUBSET Psis]
    BY <1>4 DEF EmptyInv
  <2> QED BY <1>1, <1>2, <1>4, <2>1, <2>2 DEF Inv, TypeOK, ngapVars
<1>6. OwnerInv' /\ TreeFindsSessions'
  BY <1>1, <1>4 DEF Inv, OwnerInv, PacketsStayInSession, TreeFindsSessions, ngapVars
<1>7. UplinkLimits'
  BY <1>2, <1>4 DEF Inv, TypeOK, UplinkLimits
<1> QED BY <1>2, <1>4, <1>5, <1>6, <1>7 DEF Inv

(* A packet is let through. *)
LEMMA DataNext == Inv /\ DataStep => Inv'
<1> SUFFICES ASSUME Inv, DataStep PROVE Inv'
  OBVIOUS
<1>1. UNCHANGED <<ngapVars, queue, tableVars, limiterVars>>
  BY DEF DataStep, handleUplinkData, handleQuicReceive, handleUdpReceive, deliverDownlink
<1>2. PICK t \in Teids, s \in Sessions :
        out' = [teid |-> t, session |-> s] /\ teidOwner[t] = s
  <2>1. ASSUME NEW s \in Sessions, handleUplinkData(s)
        PROVE  \E t \in Teids : out' = [teid |-> t, session |-> s] /\ teidOwner[t] = s
    <3>1. m_pduSessions[s] \in Resource
      BY <2>1 DEF handleUplinkData, Inv, TypeOK
    <3> QED BY <2>1, <3>1, ResourceFields DEF handleUplinkData, Inv, OwnerInv
  <2>2. ASSUME NEW t \in Teids, deliverDownlink(t)
        PROVE  \E s \in Sessions : out' = [teid |-> t, session |-> s] /\ teidOwner[t] = s
    BY <2>2 DEF deliverDownlink, Inv, TypeOK, OwnerInv
  <2> QED BY <2>1, <2>2 DEF DataStep, handleQuicReceive, handleUdpReceive
<1>3. TypeOK' /\ PacketsStayInSession'
  BY <1>1, <1>2 DEF Inv, TypeOK, PacketsStayInSession, ngapVars, tableVars, limiterVars
<1> QED BY <1>1, <1>3
        DEF Inv, CounterInv, QueueInv, OwnerInv, TreeFindsSessions, UplinkLimits, EmptyInv,
            ngapVars, tableVars, limiterVars

-----------------------------------------------------------------------------

LEMMA InvHolds == Spec => []Inv
<1>1. Inv /\ [Next]_vars => Inv'
  <2>1. Inv /\ UNCHANGED vars => Inv'
    BY DEF Inv, TypeOK, CounterInv, QueueInv, OwnerInv, PacketsStayInSession,
           TreeFindsSessions, UplinkLimits, EmptyInv, vars, ngapVars, tableVars, limiterVars
  <2> QED BY <2>1, NgapNext, UpdateNext, CreateNext, ReleaseNext, DeleteNext, DataNext
          DEF Next, GtpStep
<1> QED BY InitInv, <1>1, PTL DEF Spec

(* Every variable of the two tasks keeps its type: in particular the GTP    *)
(* task only gets messages it can handle.                                   *)
THEOREM TypeCorrect == Spec => []TypeOK
<1>1. Inv => TypeOK
  BY DEF Inv
<1> QED BY InvHolds, <1>1, PTL

(* No packet ever leaves its session (handleUplinkData, handleQuicReceive,  *)
(* handleUdpReceive), with stale sessions and stale TEIDs in the tables.    *)
THEOREM PacketsStayInSessionHolds == Spec => []PacketsStayInSession
<1>1. Inv => PacketsStayInSession
  BY DEF Inv, OwnerInv
<1> QED BY InvHolds, <1>1, PTL

(* The tree finds every session in the table (PduSessionTree). *)
THEOREM TreeFindsSessionsHolds == Spec => []TreeFindsSessions
<1>1. Inv => TreeFindsSessions
  BY DEF Inv
<1> QED BY InvHolds, <1>1, PTL

(* The uplink limits always agree with the contexts and sessions            *)
(* (RateLimiter).                                                           *)
THEOREM UplinkLimitsHolds == Spec => []UplinkLimits
<1>1. Inv => UplinkLimits
  BY DEF Inv
<1> QED BY InvHolds, <1>1, PTL

-----------------------------------------------------------------------------
(* The two tasks agree on the sessions. The argument looks ahead: what the  *)
(* GTP task will find when it has taken the first n messages of q, given    *)
(* its contexts ctx and its table tab.                                      *)

(* What a message is about: a UE context that comes, one that goes, a       *)
(* session.                                                                 *)
IsUpdate(m, u)  == m.type = "UE_CONTEXT_UPDATE" /\ m.ue = u
IsRelease(m, u) == m.type = "UE_CONTEXT_RELEASE" /\ m.ue = u
IsAbout(m, s)   == m.type \in {"SESSION_CREATE", "SESSION_RELEASE"} /\ m.session = s

(* There is a context for u after the first n messages: an update follows   *)
(* every release, and comes at all if there is no context.                  *)
Present(q, ctx, u, n) ==
  /\ ctx[u] = Absent => \E k \in 1 .. n : IsUpdate(q[k], u)
  /\ \A j \in 1 .. n : IsRelease(q[j], u) =>
       \E k \in j + 1 .. n : IsUpdate(q[k], u)

(* The session's resource is in the table, and no message is about the      *)
(* session.                                                                 *)
Stored(q, tab, s, t) ==
  /\ tab[s] # Absent /\ tab[s].teid = t
  /\ \A j \in 1 .. Len(q) : ~IsAbout(q[j], s)

(* Message i brings the resource and will find the UE context; no later     *)
(* message is about the session.                                            *)
Brings(q, ctx, s, t, i) ==
  /\ q[i].type = "SESSION_CREATE" /\ q[i].session = s /\ q[i].resource.teid = t
  /\ Present(q, ctx, s[1], i - 1)
  /\ \A j \in i + 1 .. Len(q) : ~IsAbout(q[j], s)

Waiting(q, ctx, s, t) == \E i \in 1 .. Len(q) : Brings(q, ctx, s, t, i)

(* t is the TEID of s's last setup. *)
IsLast(s, t) == teidOwner[t] = s /\ \A v \in Teids : teidOwner[v] = s => v <= t

(* The inductive invariant behind SessionsAgree: of the UEs whose radio     *)
(* link has not failed.                                                     *)
AgreeInv ==
  /\ \A s \in pduSessionsOfUe : s[1] \in setUp
  /\ \A u \in setUp \ radioFailed : Present(queue, m_ueContexts, u, Len(queue))
  /\ \A s \in pduSessionsOfUe : s[1] \notin radioFailed => \E t \in Teids :
       /\ IsLast(s, t)
       /\ Stored(queue, m_pduSessions, s, t) \/ Waiting(queue, m_ueContexts, s, t)

(* Where the messages of two sequences are in their concatenation. *)
LEMMA ConcatAt ==
  ASSUME NEW q \in Seq(Msg), NEW r \in Seq(Msg)
  PROVE  /\ q \o r \in Seq(Msg) /\ Len(q \o r) = Len(q) + Len(r)
         /\ Len(q) \in Nat /\ Len(r) \in Nat
         /\ \A i \in 1 .. Len(q) : (q \o r)[i] = q[i]
         /\ \A i \in 1 .. Len(r) : (q \o r)[Len(q) + i] = r[i]
<1>1. ASSUME NEW i \in 1 .. Len(r) PROVE (q \o r)[Len(q) + i] = r[i]
  <2>1. /\ Len(q) + i \in 1 .. Len(q) + Len(r) /\ Len(q) + i > Len(q)
        /\ (Len(q) + i) - Len(q) = i
    BY <1>1
  <2> QED BY <2>1
<1> QED BY <1>1

(* Pushed messages that release no context of u take none away. *)
LEMMA PresentPush ==
  ASSUME NEW q \in Seq(Msg), NEW r \in Seq(Msg), NEW ctx, NEW u, NEW n \in Nat,
         n <= Len(q \o r), NEW l \in Nat, l <= Len(q), l <= n,
         Present(q, ctx, u, l),
         \A i \in l + 1 .. n : ~IsRelease((q \o r)[i], u)
  PROVE  Present(q \o r, ctx, u, n)
<1>1. \A k \in 1 .. l : (q \o r)[k] = q[k] /\ k \in 1 .. n
  OBVIOUS
<1>2. ctx[u] = Absent => \E k \in 1 .. n : IsUpdate((q \o r)[k], u)
  BY <1>1 DEF Present
<1>3. ASSUME NEW j \in 1 .. n, IsRelease((q \o r)[j], u)
      PROVE  \E k \in j + 1 .. n : IsUpdate((q \o r)[k], u)
  <2>1. j \in 1 .. l
    BY <1>3
  <2>2. PICK k \in j + 1 .. l : IsUpdate(q[k], u)
    BY <1>1, <1>3, <2>1 DEF Present
  <2>3. k \in 1 .. l /\ k \in j + 1 .. n
    BY <2>1, <2>2
  <2> QED BY <1>1, <2>2, <2>3
<1> QED BY <1>2, <1>3 DEF Present

(* After an update of u that no release follows there is a context. *)
LEMMA PresentUpdate ==
  ASSUME NEW q, NEW ctx, NEW u, NEW n \in Nat, NEW l \in 1 .. n,
         IsUpdate(q[l], u), \A i \in l .. n : ~IsRelease(q[i], u)
  PROVE  Present(q, ctx, u, n)
<1>1. ASSUME NEW j \in 1 .. n, IsRelease(q[j], u)
      PROVE  \E k \in j + 1 .. n : IsUpdate(q[k], u)
  <2>1. j < l
    BY <1>1
  <2> QED BY <2>1
<1> QED BY <1>1 DEF Present

(* Pushed messages that are not about s leave what will become of it. *)
LEMMA HeldPush ==
  ASSUME NEW q \in Seq(Msg), NEW r \in Seq(Msg), NEW ctx, NEW tab, NEW s, NEW t,
         \A i \in 1 .. Len(r) : ~IsAbout(r[i], s),
         Stored(q, tab, s, t) \/ Waiting(q, ctx, s, t)
  PROVE  Stored(q \o r, tab, s, t) \/ Waiting(q \o r, ctx, s, t)
<1>1. \A k \in 1 .. Len(q) : (q \o r)[k] = q[k] /\ k \in 1 .. Len(q \o r)
  OBVIOUS
<1>2. ASSUME NEW k \in 1 .. Len(q \o r), k > Len(q) PROVE ~IsAbout((q \o r)[k], s)
  <2>1. k - Len(q) \in 1 .. Len(r) /\ (q \o r)[k] = r[k - Len(q)]
    BY <1>2
  <2> QED BY <2>1
<1>3. CASE Stored(q, tab, s, t)
  <2>1. \A j \in 1 .. Len(q \o r) : ~IsAbout((q \o r)[j], s)
    BY <1>1, <1>2, <1>3 DEF Stored
  <2> QED BY <1>3, <2>1 DEF Stored
<1>4. CASE Waiting(q, ctx, s, t)
  <2>1. PICK i \in 1 .. Len(q) : Brings(q, ctx, s, t, i)
    BY <1>4 DEF Waiting
  <2>2. i - 1 \in Nat /\ i - 1 <= Len(q) /\ i - 1 <= Len(q \o r)
    BY <2>1
  <2>3. PICK n \in Nat : n = i - 1 /\ n <= Len(q) /\ n <= Len(q \o r)
    BY <2>2
  <2>4. Present(q, ctx, s[1], n) /\ \A x \in n + 1 .. n : ~IsRelease((q \o r)[x], s[1])
    BY <2>1, <2>3 DEF Brings
  <2>5. Present(q \o r, ctx, s[1], i - 1)
    BY <2>3, <2>4, PresentPush
  <2>6. ASSUME NEW j \in i + 1 .. Len(q \o r) PROVE ~IsAbout((q \o r)[j], s)
    <3>1. CASE j \in 1 .. Len(q)
      <4>1. j \in i + 1 .. Len(q)
        BY <2>6, <3>1
      <4> QED BY <1>1, <2>1, <3>1, <4>1 DEF Brings
    <3>2. CASE j \notin 1 .. Len(q)
      BY <1>2, <2>6, <3>2
    <3> QED BY <3>1, <3>2
  <2>7. Brings(q \o r, ctx, s, t, i)
    BY <1>1, <2>1, <2>5, <2>6 DEF Brings
  <2> QED BY <1>1, <2>7 DEF Waiting
<1> QED BY <1>3, <1>4

(* Taking a message: what was to come comes one message earlier. *)
LEMMA PresentTake ==
  ASSUME NEW q \in Seq(Msg), q # <<>>, NEW ctx, NEW ctx2, NEW u, NEW n \in 1 .. Len(q),
         IsUpdate(Head(q), u) => ctx2[u] # Absent,
         ~IsUpdate(Head(q), u) /\ ~IsRelease(Head(q), u) => ctx2[u] = ctx[u],
         Present(q, ctx, u, n)
  PROVE  Present(Tail(q), ctx2, u, n - 1)
<1>1. Head(q) = q[1] /\ Len(Tail(q)) = Len(q) - 1 /\ n - 1 \in Nat
  OBVIOUS
<1>2. \A k \in 2 .. n : k - 1 \in 1 .. n - 1 /\ Tail(q)[k - 1] = q[k]
  OBVIOUS
<1>3. ASSUME ctx2[u] = Absent PROVE \E k \in 1 .. n - 1 : IsUpdate(Tail(q)[k], u)
  <2>1. PICK k \in 1 .. n : IsUpdate(q[k], u) /\ k # 1
    <3>1. CASE IsRelease(q[1], u)
      <4>1. 1 \in 1 .. n /\ \A k \in 1 + 1 .. n : k # 1 /\ k \in 1 .. n
        OBVIOUS
      <4> QED BY <3>1, <4>1 DEF Present
    <3>2. CASE ~IsRelease(q[1], u)
      <4>1. ~IsUpdate(q[1], u) /\ ctx[u] = Absent
        BY <1>1, <1>3, <3>2
      <4> QED BY <4>1 DEF Present
    <3> QED BY <3>1, <3>2
  <2>2. k \in 2 .. n
    BY <2>1
  <2> QED BY <1>2, <2>1, <2>2
<1>4. ASSUME NEW j \in 1 .. n - 1, IsRelease(Tail(q)[j], u)
      PROVE  \E k \in j + 1 .. n - 1 : IsUpdate(Tail(q)[k], u)
  <2>1. j + 1 \in 2 .. n /\ j + 1 \in 1 .. n /\ (j + 1) - 1 = j
    BY <1>4
  <2>2. IsRelease(q[j + 1], u)
    BY <1>2, <1>4, <2>1
  <2>3. PICK k \in (j + 1) + 1 .. n : IsUpdate(q[k], u)
    BY <2>1, <2>2 DEF Present
  <2>4. k \in 2 .. n /\ k - 1 \in j + 1 .. n - 1
    BY <2>1, <2>3
  <2> QED BY <1>2, <2>3, <2>4
<1> QED BY <1>3, <1>4 DEF Present

(* A resource in the table stays there; one that waits comes nearer, or     *)
(* into the table.                                                          *)
LEMMA HeldTake ==
  ASSUME NEW q \in Seq(Msg), q # <<>>, NEW ctx, NEW ctx2, NEW tab, NEW tab2,
         NEW s, NEW t,
         IsUpdate(Head(q), s[1]) => ctx2[s[1]] # Absent,
         ~IsUpdate(Head(q), s[1]) /\ ~IsRelease(Head(q), s[1]) => ctx2[s[1]] = ctx[s[1]],
         ~IsAbout(Head(q), s) => tab2[s] = tab[s],
         Head(q).type = "SESSION_CREATE" /\ Head(q).session = s /\ ctx[s[1]] # Absent
           => tab2[s] # Absent /\ tab2[s].teid = Head(q).resource.teid,
         Stored(q, tab, s, t) \/ Waiting(q, ctx, s, t)
  PROVE  Stored(Tail(q), tab2, s, t) \/ Waiting(Tail(q), ctx2, s, t)
<1>1. Head(q) = q[1] /\ Len(Tail(q)) = Len(q) - 1 /\ 1 \in 1 .. Len(q)
  OBVIOUS
<1>2. \A k \in 1 .. Len(Tail(q)) : k + 1 \in 1 .. Len(q) /\ Tail(q)[k] = q[k + 1]
  OBVIOUS
<1>3. CASE Stored(q, tab, s, t)
  <2>1. ~IsAbout(Head(q), s)
    BY <1>1, <1>3 DEF Stored
  <2>2. \A j \in 1 .. Len(Tail(q)) : ~IsAbout(Tail(q)[j], s)
    BY <1>2, <1>3 DEF Stored
  <2> QED BY <1>3, <2>1, <2>2 DEF Stored
<1>4. ASSUME NEW i \in 1 .. Len(q), Brings(q, ctx, s, t, i)
      PROVE  Stored(Tail(q), tab2, s, t) \/ Waiting(Tail(q), ctx2, s, t)
  <2>1. ASSUME NEW j \in 1 .. Len(Tail(q)), j >= i PROVE ~IsAbout(Tail(q)[j], s)
    <3>1. j + 1 \in i + 1 .. Len(q) /\ Tail(q)[j] = q[j + 1]
      BY <1>1, <1>2, <1>4, <2>1
    <3> QED BY <1>4, <3>1 DEF Brings
  <2>2. CASE i = 1
    <3>1. Present(q, ctx, s[1], 0)
      BY <1>4, <2>2 DEF Brings
    <3>2. ctx[s[1]] # Absent
      BY <3>1 DEF Present
    <3>3. tab2[s] # Absent /\ tab2[s].teid = t
      BY <1>1, <1>4, <2>2, <3>2 DEF Brings
    <3> QED BY <2>1, <2>2, <3>3 DEF Stored
  <2>3. CASE i # 1
    <3>1. i - 1 \in 1 .. Len(q) /\ i - 1 \in 1 .. Len(Tail(q)) /\ Tail(q)[i - 1] = q[i]
      BY <1>1, <1>4, <2>3
    <3>2. Present(q, ctx, s[1], i - 1)
      BY <1>4 DEF Brings
    <3>3. Present(Tail(q), ctx2, s[1], (i - 1) - 1)
      BY <3>1, <3>2, PresentTake
    <3>4. ASSUME NEW j \in (i - 1) + 1 .. Len(Tail(q)) PROVE ~IsAbout(Tail(q)[j], s)
      <4>1. j \in 1 .. Len(Tail(q)) /\ j >= i
        BY <1>1, <1>4, <3>4
      <4> QED BY <2>1, <4>1
    <3>5. Brings(Tail(q), ctx2, s, t, i - 1)
      BY <1>4, <3>1, <3>3, <3>4 DEF Brings
    <3> QED BY <3>1, <3>5 DEF Waiting
  <2> QED BY <2>2, <2>3
<1> QED BY <1>3, <1>4 DEF Waiting

-----------------------------------------------------------------------------
(* Steps that push messages keep the agreement *)

(* A step that hands out no TEID and drops the sessions its messages are    *)
(* about; a context they release goes, or its radio link has failed.        *)
LEMMA PlainAgree ==
  ASSUME Inv, AgreeInv, NEW msgs \in Seq(Msg), queue' = queue \o msgs,
         UNCHANGED <<teidOwner, m_ueContexts, m_pduSessions>>,
         setUp' \ radioFailed' \subseteq setUp \ radioFailed,
         pduSessionsOfUe' \subseteq pduSessionsOfUe,
         \A s \in pduSessionsOfUe' : s[1] \in setUp',
         \A u \in setUp' \ radioFailed' : \A i \in 1 .. Len(msgs) : ~IsRelease(msgs[i], u),
         \A s \in pduSessionsOfUe' : \A i \in 1 .. Len(msgs) : ~IsAbout(msgs[i], s)
  PROVE  AgreeInv'
<1>1. queue \in Seq(Msg) /\ Len(queue) \in Nat /\ Len(queue') \in Nat
      /\ Len(queue) <= Len(queue')
  BY DEF Inv, TypeOK
<1>2. ASSUME NEW u \in setUp' \ radioFailed'
      PROVE  Present(queue', m_ueContexts, u, Len(queue'))
  <2>1. ASSUME NEW i \in Len(queue) + 1 .. Len(queue') PROVE ~IsRelease(queue'[i], u)
    <3>1. i - Len(queue) \in 1 .. Len(msgs) /\ queue'[i] = msgs[i - Len(queue)]
      BY <1>1, <2>1
    <3> QED BY <1>2, <3>1
  <2>2. Present(queue, m_ueContexts, u, Len(queue))
    BY <1>2 DEF AgreeInv
  <2>3. PICK l \in Nat, n \in Nat : l = Len(queue) /\ n = Len(queue')
    BY <1>1
  <2>4. n <= Len(queue \o msgs) /\ l <= Len(queue) /\ l <= n
    BY <1>1, <2>3
  <2>5. \A i \in l + 1 .. n : ~IsRelease((queue \o msgs)[i], u)
    BY <2>1, <2>3
  <2>6. Present(queue, m_ueContexts, u, l)
    BY <2>2, <2>3
  <2>7. Present(queue \o msgs, m_ueContexts, u, n)
    BY <1>1, <2>3, <2>4, <2>5, <2>6, PresentPush
  <2> QED BY <2>3, <2>7
<1>3. ASSUME NEW s \in pduSessionsOfUe', s[1] \notin radioFailed'
      PROVE  \E t \in Teids : /\ IsLast(s, t)
                              /\ \/ Stored(queue', m_pduSessions, s, t)
                                 \/ Waiting(queue', m_ueContexts, s, t)
  <2>1. PICK t \in Teids : IsLast(s, t) /\ (\/ Stored(queue, m_pduSessions, s, t)
                                            \/ Waiting(queue, m_ueContexts, s, t))
    <3>1. s \in pduSessionsOfUe /\ s[1] \notin radioFailed
      BY <1>3
    <3> QED BY <3>1 DEF AgreeInv
  <2> QED BY <1>1, <1>3, <2>1, HeldPush
<1> QED BY <1>2, <1>3 DEF AgreeInv, IsLast

(* A setup: every session of the list gets a TEID no earlier setup had, and *)
(* a message that will find the UE context.                                 *)
LEMMA SetupAgree ==
  ASSUME Inv, AgreeInv, NEW u \in UEs, NEW psis \in Lists, NEW sr \in AmbrIe,
         NEW first \in Seq(Msg),
         \A i \in 1 .. Len(first) : IsUpdate(first[i], u),
         u \in setUp \/ Len(first) >= 1,
         push(first \o creates(u, psis, sr)), setupPduSessionResource(u, psis),
         setUp' = setUp \cup {u}, UNCHANGED <<radioFailed, m_ueContexts, m_pduSessions>>
  PROVE  AgreeInv'
<1> DEFINE cs == creates(u, psis, sr)
           k == m_downlinkTeidCounter
           r == first \o cs
<1>1. /\ psis \in Seq(Psis) /\ Len(psis) \in Nat /\ DOMAIN psis = 1 .. Len(psis)
      /\ k \in Nat /\ k + Len(psis) <= MaxTeid /\ queue \in Seq(Msg)
      /\ pduSessionsOfUe' = pduSessionsOfUe \cup {<<u, psis[i]>> : i \in 1 .. Len(psis)}
  BY ListsSeq DEF Inv, TypeOK, takeTeids, setupPduSessionResource
<1>2. /\ cs \in Seq(Msg) /\ Len(cs) = Len(psis)
      /\ \A i \in 1 .. Len(psis) :
           /\ cs[i].resource.teid = k + i
           /\ cs[i].session = <<u, psis[i]>>
           /\ k + i \in Teids
  BY <1>1, CreatesMsgs DEF Inv
<1>3. \A i \in 1 .. Len(psis) : cs[i].type = "SESSION_CREATE"
  BY <1>1 DEF creates
<1>4. \A t \in Teids :
        teidOwner'[t] = IF t > k /\ t - k <= Len(psis) THEN <<u, psis[t - k]>>
                                                       ELSE teidOwner[t]
  BY DEF takeTeids, setupPduSessionResource
<1>5. \A t \in Teids : t \in Nat /\ (teidOwner[t] # Absent => t <= k)
  BY ConstAssumption DEF Inv, CounterInv, Teids
<1>6. queue' = queue \o r
  BY DEF push
<1> HIDE DEF cs, k
<1>7. /\ r \in Seq(Msg) /\ Len(r) = Len(first) + Len(psis) /\ Len(first) \in Nat
      /\ \A i \in 1 .. Len(first) : r[i] = first[i]
      /\ \A i \in 1 .. Len(psis) : r[Len(first) + i] = cs[i]
  <2>1. /\ first \o cs \in Seq(Msg) /\ Len(first \o cs) = Len(first) + Len(cs)
        /\ Len(first) \in Nat
        /\ \A i \in 1 .. Len(first) : (first \o cs)[i] = first[i]
        /\ \A i \in 1 .. Len(cs) : (first \o cs)[Len(first) + i] = cs[i]
    BY <1>2, ConcatAt
  <2> QED BY <1>2, <2>1
<1>8. \A i \in 1 .. Len(r) : \/ i \in 1 .. Len(first)
                             \/ i - Len(first) \in 1 .. Len(psis)
                                /\ i = Len(first) + (i - Len(first))
  BY <1>1, <1>7
<1>9. \A i \in 1 .. Len(r) : \A v : ~IsRelease(r[i], v)
  BY <1>3, <1>7, <1>8 DEF IsRelease, IsUpdate
<1>10. \A i \in 1 .. Len(r) : \A s : IsAbout(r[i], s) =>
         \E j \in 1 .. Len(psis) : i = Len(first) + j /\ s = <<u, psis[j]>>
  <2> TAKE i \in 1 .. Len(r)
  <2> TAKE s
  <2> HAVE IsAbout(r[i], s)
  <2>1. i \notin 1 .. Len(first)
    BY <1>7 DEF IsAbout, IsUpdate
  <2>2. PICK j \in 1 .. Len(psis) : i = Len(first) + j
    BY <1>8, <2>1
  <2>3. r[i] = cs[j]
    BY <1>7, <2>2
  <2> QED BY <1>2, <2>2, <2>3 DEF IsAbout
<1> HIDE DEF r
<1>11. /\ queue' \in Seq(Msg) /\ Len(queue') = Len(queue) + Len(r) /\ Len(queue) \in Nat
       /\ \A i \in 1 .. Len(r) : queue'[Len(queue) + i] = r[i]
  BY <1>1, <1>6, <1>7, ConcatAt
<1>12. ASSUME NEW i \in Len(queue) + 1 .. Len(queue'), NEW v PROVE ~IsRelease(queue'[i], v)
  <2>1. i - Len(queue) \in 1 .. Len(r) /\ queue'[i] = r[i - Len(queue)]
    BY <1>1, <1>6, <1>7, <1>11, <1>12
  <2> QED BY <1>9, <2>1
<1>13. ASSUME NEW v \in setUp \ radioFailed, NEW n \in Len(queue) .. Len(queue')
       PROVE  Present(queue', m_ueContexts, v, n)
  <2>1. n \in Nat /\ Len(queue) <= n /\ n <= Len(queue \o r)
    BY <1>6, <1>11, <1>13
  <2>2. \A i \in Len(queue) + 1 .. n : ~IsRelease((queue \o r)[i], v)
    <3>1. \A i \in Len(queue) + 1 .. n : i \in Len(queue) + 1 .. Len(queue')
      BY <1>7, <1>11, <1>13
    <3> QED BY <1>6, <1>12, <3>1
  <2>3. Present(queue, m_ueContexts, v, Len(queue))
    BY <1>13 DEF AgreeInv
  <2>4. PICK l \in Nat : l = Len(queue)
    BY <1>11
  <2>5. /\ n <= Len(queue \o r) /\ l <= Len(queue) /\ l <= n
        /\ Present(queue, m_ueContexts, v, l)
        /\ \A i \in l + 1 .. n : ~IsRelease((queue \o r)[i], v)
    BY <1>1, <1>11, <2>1, <2>2, <2>3, <2>4
  <2>6. Present(queue \o r, m_ueContexts, v, n)
    BY <1>1, <1>7, <2>1, <2>4, <2>5, PresentPush
  <2> QED BY <1>6, <2>6
<1>14. ASSUME u \notin radioFailed, NEW n \in Len(queue) + Len(first) .. Len(queue')
       PROVE  Present(queue', m_ueContexts, u, n)
  <2>1. CASE u \in setUp
    <3>1. n \in Len(queue) .. Len(queue')
      BY <1>7, <1>11, <1>14
    <3> QED BY <1>13, <1>14, <2>1, <3>1
  <2>2. CASE Len(first) >= 1
    <3>1. 1 \in 1 .. Len(first) /\ 1 \in 1 .. Len(r)
      BY <1>1, <1>7, <2>2
    <3>2. IsUpdate(queue'[Len(queue) + 1], u)
      BY <1>7, <1>11, <3>1
    <3>3. n \in Nat /\ Len(queue) + 1 \in 1 .. n /\ n <= Len(queue')
      BY <1>7, <1>11, <1>14, <2>2
    <3>4. \A i \in Len(queue) + 1 .. n : ~IsRelease(queue'[i], u)
      <4>1. \A i \in Len(queue) + 1 .. n : i \in Len(queue) + 1 .. Len(queue')
        BY <1>7, <1>11, <3>3
      <4> QED BY <1>12, <4>1
    <3> QED BY <3>2, <3>3, <3>4, PresentUpdate
  <2> QED BY <2>1, <2>2
<1>15. ASSUME NEW v \in setUp' \ radioFailed' PROVE Present(queue', m_ueContexts, v, Len(queue'))
  <2>1. Len(queue') \in Len(queue) .. Len(queue')
        /\ Len(queue') \in Len(queue) + Len(first) .. Len(queue')
    BY <1>1, <1>7, <1>11
  <2> QED BY <1>13, <1>14, <1>15, <2>1
<1> DEFINE Good(s) ==
      \E t \in Teids :
        /\ teidOwner'[t] = s /\ \A v \in Teids : teidOwner'[v] = s => v <= t
        /\ Stored(queue', m_pduSessions, s, t) \/ Waiting(queue', m_ueContexts, s, t)
<1>16. ASSUME NEW s \in pduSessionsOfUe, s[1] \notin radioFailed, \A i \in 1 .. Len(psis) : s # <<u, psis[i]>>
       PROVE  Good(s)
  <2>1. PICK t \in Teids : IsLast(s, t) /\ (\/ Stored(queue, m_pduSessions, s, t)
                                            \/ Waiting(queue, m_ueContexts, s, t))
    BY <1>16 DEF AgreeInv
  <2>2. \A i \in 1 .. Len(r) : ~IsAbout(r[i], s)
    BY <1>10, <1>16
  <2>3. Stored(queue', m_pduSessions, s, t) \/ Waiting(queue', m_ueContexts, s, t)
    BY <1>1, <1>6, <1>7, <2>1, <2>2, HeldPush
  <2>4. s # Absent
    <3>1. s \in Sessions
      BY <1>16 DEF Inv, TypeOK, Sessions
    <3> QED BY <3>1, SessionParts
  <2>5. ASSUME NEW v \in Teids PROVE teidOwner'[v] = s <=> teidOwner[v] = s
    <3>1. CASE v > k /\ v - k <= Len(psis)
      <4>1. v - k \in 1 .. Len(psis)
        BY <1>1, <1>5, <2>5, <3>1
      <4>2. teidOwner'[v] # s
        BY <1>4, <1>16, <2>5, <3>1, <4>1
      <4>3. teidOwner[v] = Absent
        BY <1>1, <1>5, <2>5, <3>1
      <4> QED BY <2>4, <4>2, <4>3
    <3>2. CASE ~(v > k /\ v - k <= Len(psis))
      BY <1>4, <2>5, <3>2
    <3> QED BY <3>1, <3>2
  <2> QED BY <2>1, <2>3, <2>5 DEF IsLast
<1>17. ASSUME u \notin radioFailed, NEW p \in 1 .. Len(psis) PROVE Good(<<u, psis[p]>>)
  <2> DEFINE s == <<u, psis[p]>>
             T == {i \in 1 .. Len(psis) : psis[i] = psis[p]}
  <2>1. T \subseteq 1 .. Len(psis) /\ T # {}
    BY <1>17
  <2>2. PICK m \in T : \A i \in T : i <= m
    BY <1>1, <2>1, MaxIn
  <2>3. m \in 1 .. Len(psis) /\ psis[m] = psis[p] /\ k + m \in Teids
    BY <1>2, <2>2
  <2>4. teidOwner'[k + m] = s
    <3>1. k + m > k /\ (k + m) - k = m /\ m <= Len(psis)
      BY <1>1, <2>3
    <3> QED BY <1>4, <2>3, <3>1
  <2>5. ASSUME NEW v \in Teids, teidOwner'[v] = s PROVE v <= k + m
    <3>1. CASE v > k /\ v - k <= Len(psis)
      <4>1. v - k \in 1 .. Len(psis)
        BY <1>1, <1>5, <2>5, <3>1
      <4>2. psis[v - k] = psis[p]
        <5>1. <<u, psis[v - k]>> = <<u, psis[p]>>
          BY <1>4, <2>5, <3>1
        <5> QED BY <5>1
      <4>3. v - k <= m
        BY <2>2, <4>1, <4>2
      <4> QED BY <1>1, <1>5, <2>3, <2>5, <4>3
    <3>2. CASE ~(v > k /\ v - k <= Len(psis))
      <4>1. teidOwner[v] = s
        BY <1>4, <2>5, <3>2
      <4>2. s # Absent
        <5>1. psis[p] \in Psis
          BY <1>1, <1>17
        <5>2. s \in Sessions
          BY <5>1 DEF Sessions
        <5> QED BY <5>2, SessionParts
      <4>3. v <= k /\ v \in Nat
        BY <1>5, <2>5, <4>1, <4>2
      <4> QED BY <1>1, <2>3, <4>3
    <3> QED BY <3>1, <3>2
  <2> DEFINE i == Len(queue) + (Len(first) + m)
  <2>6. /\ Len(first) + m \in 1 .. Len(r) /\ i \in 1 .. Len(queue')
        /\ i - 1 \in Len(queue) + Len(first) .. Len(queue')
    <3>1. PICK a \in Nat, b \in Nat, c \in Nat, d \in Nat :
            a = Len(queue) /\ b = Len(first) /\ c = Len(psis) /\ d = Len(queue')
      <4>1. Len(queue') \in Nat
        BY <1>11
      <4> QED BY <1>1, <1>7, <1>11, <4>1
    <3>2. Len(r) = b + c /\ d = a + (b + c) /\ m \in 1 .. c
      BY <1>7, <1>11, <2>3, <3>1
    <3>3. b + m \in 1 .. b + c /\ a + (b + m) \in 1 .. d /\ (a + (b + m)) - 1 \in a + b .. d
      BY <3>2
    <3> QED BY <3>1, <3>2, <3>3
  <2>7. queue'[i] = cs[m]
    BY <1>7, <1>11, <2>3, <2>6
  <2>8. ASSUME NEW j \in i + 1 .. Len(queue') PROVE ~IsAbout(queue'[j], s)
    <3>1. j - Len(queue) \in 1 .. Len(r) /\ queue'[j] = r[j - Len(queue)]
          /\ j - Len(queue) > Len(first) + m
      <4>1. j - Len(queue) \in 1 .. Len(r) /\ j - Len(queue) > Len(first) + m
            /\ j = Len(queue) + (j - Len(queue))
        <5>1. PICK a \in Nat, b \in Nat, c \in Nat :
                a = Len(queue) /\ b = Len(first) /\ c = Len(r)
          BY <1>1, <1>7, <1>11
        <5>2. m \in Nat /\ j \in (a + (b + m)) + 1 .. a + c
          BY <1>11, <2>3, <2>8, <5>1
        <5>3. j - a \in 1 .. c /\ j - a > b + m /\ j = a + (j - a)
          BY <5>2
        <5> QED BY <5>1, <5>3
      <4> QED BY <1>11, <4>1
    <3>2. SUFFICES ASSUME IsAbout(r[j - Len(queue)], s) PROVE FALSE
      BY <3>1
    <3>3. PICK x \in 1 .. Len(psis) : j - Len(queue) = Len(first) + x /\ s = <<u, psis[x]>>
      BY <1>10, <3>1, <3>2
    <3>4. x \in T
      BY <3>3
    <3>5. x <= m
      BY <2>2, <3>4
    <3> QED BY <1>1, <1>7, <2>3, <3>1, <3>3, <3>5
  <2> HIDE DEF i
  <2>9. Present(queue', m_ueContexts, u, i - 1)
    BY <1>14, <1>17, <2>6
  <2>10. Brings(queue', m_ueContexts, s, k + m, i)
    <3>1. queue'[i].type = "SESSION_CREATE" /\ queue'[i].session = s
          /\ queue'[i].resource.teid = k + m
      BY <1>2, <1>3, <2>3, <2>7
    <3>2. s[1] = u
      OBVIOUS
    <3> HIDE DEF s
    <3> QED BY <2>8, <2>9, <3>1, <3>2 DEF Brings
  <2>11. Waiting(queue', m_ueContexts, s, k + m)
    BY <2>6, <2>10 DEF Waiting
  <2> QED BY <2>3, <2>4, <2>5, <2>11
<1>18. ASSUME NEW s \in pduSessionsOfUe', s[1] \notin radioFailed' PROVE Good(s)
  <2> HIDE DEF Good
  <2>1. CASE \E i \in 1 .. Len(psis) : s = <<u, psis[i]>>
    BY <1>17, <1>18, <2>1
  <2>2. CASE \A i \in 1 .. Len(psis) : s # <<u, psis[i]>>
    BY <1>1, <1>16, <1>18, <2>2
  <2> QED BY <2>1, <2>2
<1>19. \A s \in pduSessionsOfUe' : s[1] \in setUp'
  BY <1>1 DEF AgreeInv
<1> QED BY <1>15, <1>18, <1>19 DEF AgreeInv, IsLast


(* The NGAP task's steps keep the agreement. *)
LEMMA NgapAgree ==
  ASSUME Inv, AgreeInv, NgapStep
  PROVE  AgreeInv'
<1> PICK u \in UEs :
      \/ handleInitialNasTransport(u)
      \/ \E r, sr \in AmbrIe, psis \in Lists : receiveInitialContextSetup(u, r, psis, sr)
      \/ \E sr \in AmbrIe, psis \in Lists : receiveSessionResourceSetupRequest(u, psis, sr)
      \/ \E psis \in Lists : receiveSessionResourceReleaseCommand(u, psis)
      \/ \E r \in AmbrIe : receiveContextModification(u, r)
      \/ receiveContextRelease(u)
      \/ handleRadioLinkFailure(u)
  BY DEF NgapStep
<1>1. \A s \in pduSessionsOfUe : s[1] \in setUp
  BY DEF AgreeInv
<1>2. CASE handleInitialNasTransport(u)
  <2>1. UNCHANGED <<pduSessionsOfUe, setUp, teidOwner, radioFailed, queue, m_ueContexts,
                    m_pduSessions>>
    BY <1>2 DEF handleInitialNasTransport, tableVars
  <2> QED BY <2>1 DEF AgreeInv, IsLast
<1>3. ASSUME NEW r \in AmbrIe, NEW sr \in AmbrIe, NEW psis \in Lists,
             receiveInitialContextSetup(u, r, psis, sr)
      PROVE  AgreeInv'
  <2> DEFINE first == <<[type |-> "UE_CONTEXT_UPDATE", ue |-> u, ambr |-> ueAmbr[u]]>>
  <2>1. /\ first \in Seq(Msg) /\ Len(first) >= 1
        /\ \A i \in 1 .. Len(first) : IsUpdate(first[i], u)
    BY DEF Inv, TypeOK, Msg, IsUpdate
  <2>2. /\ push(first \o creates(u, psis, sr)) /\ setupPduSessionResource(u, psis)
        /\ setUp' = setUp \cup {u} /\ UNCHANGED <<radioFailed, m_ueContexts, m_pduSessions>>
    BY <1>3 DEF receiveInitialContextSetup, tableVars
  <2> HIDE DEF first
  <2> QED BY <2>1, <2>2, SetupAgree
<1>4. ASSUME NEW sr \in AmbrIe, NEW psis \in Lists,
             receiveSessionResourceSetupRequest(u, psis, sr)
      PROVE  AgreeInv'
  <2> DEFINE first == <<>>
  <2>1. /\ u \in setUp /\ push(creates(u, psis, sr)) /\ setupPduSessionResource(u, psis)
        /\ setUp' = setUp \cup {u} /\ UNCHANGED <<radioFailed, m_ueContexts, m_pduSessions>>
    BY <1>4 DEF receiveSessionResourceSetupRequest, tableVars
  <2>2. creates(u, psis, sr) \in Seq(Msg)
    BY <2>1, CreatesMsgs DEF setupPduSessionResource, takeTeids, Inv
  <2>3. push(first \o creates(u, psis, sr))
    <3>1. first \o creates(u, psis, sr) = creates(u, psis, sr)
      BY <2>2
    <3> QED BY <2>1, <3>1
  <2>4. first \in Seq(Msg) /\ \A i \in 1 .. Len(first) : IsUpdate(first[i], u)
    OBVIOUS
  <2> HIDE DEF first
  <2> QED BY <2>1, <2>3, <2>4, SetupAgree
<1>5. ASSUME NEW psis \in Lists, receiveSessionResourceReleaseCommand(u, psis)
      PROVE  AgreeInv'
  <2> DEFINE msgs == [i \in DOMAIN psis |->
                        [type |-> "SESSION_RELEASE", session |-> <<u, psis[i]>>]]
  <2>1. DOMAIN psis = 1 .. Len(psis) /\ Len(psis) \in Nat /\ \A i \in DOMAIN psis : psis[i] \in Psis
    BY ListsSeq
  <2>2. msgs \in Seq(Msg) /\ DOMAIN msgs = DOMAIN psis /\ Len(msgs) = Len(psis)
    BY <2>1 DEF Msg, Sessions
  <2>3. \A i \in 1 .. Len(msgs) :
          /\ \A v : ~IsRelease(msgs[i], v)
          /\ \A s : IsAbout(msgs[i], s) => s = <<u, psis[i]>>
    BY <2>1, <2>2 DEF IsRelease, IsAbout
  <2>4. /\ queue' = queue \o msgs
        /\ UNCHANGED <<setUp, teidOwner, radioFailed, m_ueContexts, m_pduSessions>>
        /\ pduSessionsOfUe' = pduSessionsOfUe \ {<<u, psis[i]>> : i \in DOMAIN psis}
    BY <1>5 DEF receiveSessionResourceReleaseCommand, push, tableVars
  <2> HIDE DEF msgs
  <2>5. \A s \in pduSessionsOfUe' : \A i \in 1 .. Len(msgs) : ~IsAbout(msgs[i], s)
    BY <2>1, <2>2, <2>3, <2>4
  <2> QED BY <1>1, <2>2, <2>3, <2>4, <2>5, PlainAgree
<1>6. ASSUME NEW r \in AmbrIe, receiveContextModification(u, r) PROVE AgreeInv'
  <2> DEFINE msgs == <<[type |-> "UE_CONTEXT_UPDATE", ue |-> u, ambr |-> ueAmbr'[u]]>>
  <2>1. ueAmbr' \in [UEs -> Rates]
    BY <1>6, IeRates DEF receiveContextModification, Inv, TypeOK
  <2>2. /\ msgs \in Seq(Msg)
        /\ \A i \in 1 .. Len(msgs) : /\ \A v : ~IsRelease(msgs[i], v)
                                     /\ \A s : ~IsAbout(msgs[i], s)
    BY <2>1 DEF Msg, IsRelease, IsAbout
  <2>3. /\ queue' = queue \o msgs
        /\ UNCHANGED <<pduSessionsOfUe, setUp, teidOwner, radioFailed, m_ueContexts,
                       m_pduSessions>>
    BY <1>6 DEF receiveContextModification, push, tableVars
  <2> HIDE DEF msgs
  <2> QED BY <1>1, <2>2, <2>3, PlainAgree
<1>7. CASE receiveContextRelease(u)
  <2> DEFINE msgs == <<[type |-> "UE_CONTEXT_RELEASE", ue |-> u]>>
  <2>1. /\ msgs \in Seq(Msg)
        /\ \A i \in 1 .. Len(msgs) : /\ \A v : IsRelease(msgs[i], v) => v = u
                                     /\ \A s : ~IsAbout(msgs[i], s)
    BY DEF Msg, IsRelease, IsAbout
  <2>2. /\ queue' = queue \o msgs
        /\ setUp' = setUp \ {u} /\ radioFailed' = radioFailed \ {u}
        /\ pduSessionsOfUe' = {s \in pduSessionsOfUe : s[1] # u}
        /\ UNCHANGED <<teidOwner, m_ueContexts, m_pduSessions>>
    BY <1>7 DEF receiveContextRelease, push, tableVars
  <2> HIDE DEF msgs
  <2>3. \A v \in setUp' \ radioFailed' : \A i \in 1 .. Len(msgs) : ~IsRelease(msgs[i], v)
    BY <2>1, <2>2
  <2>4. \A s \in pduSessionsOfUe' : s[1] \in setUp'
    BY <1>1, <2>2
  <2>5. /\ setUp' \ radioFailed' \subseteq setUp \ radioFailed
        /\ pduSessionsOfUe' \subseteq pduSessionsOfUe
    BY <2>2
  <2> QED BY <2>1, <2>2, <2>3, <2>4, <2>5, PlainAgree
<1>8. CASE handleRadioLinkFailure(u)
  <2> DEFINE msgs == <<[type |-> "UE_CONTEXT_RELEASE", ue |-> u]>>
  <2>1. /\ msgs \in Seq(Msg)
        /\ \A i \in 1 .. Len(msgs) : /\ \A v : IsRelease(msgs[i], v) => v = u
                                     /\ \A s : ~IsAbout(msgs[i], s)
    BY DEF Msg, IsRelease, IsAbout
  <2>2. /\ queue' = queue \o msgs
        /\ radioFailed' = radioFailed \cup (setUp \cap {u})
        /\ UNCHANGED <<pduSessionsOfUe, setUp, teidOwner, m_ueContexts, m_pduSessions>>
    BY <1>8 DEF handleRadioLinkFailure, push, tableVars
  <2> HIDE DEF msgs
  <2>3. \A v \in setUp' \ radioFailed' : \A i \in 1 .. Len(msgs) : ~IsRelease(msgs[i], v)
    BY <2>1, <2>2
  <2>4. /\ setUp' \ radioFailed' \subseteq setUp \ radioFailed
        /\ pduSessionsOfUe' \subseteq pduSessionsOfUe
        /\ \A s \in pduSessionsOfUe' : s[1] \in setUp'
    BY <1>1, <2>2
  <2> QED BY <2>1, <2>2, <2>3, <2>4, PlainAgree
<1> QED BY <1>2, <1>3, <1>4, <1>5, <1>6, <1>7, <1>8

-----------------------------------------------------------------------------
(* Steps that take a message keep the agreement *)

LEMMA TakeAgree ==
  ASSUME Inv, AgreeInv, queue # <<>>, queue' = Tail(queue), UNCHANGED ngapVars,
         \A u \in UEs :
           /\ IsUpdate(Head(queue), u) => m_ueContexts'[u] # Absent
           /\ ~IsUpdate(Head(queue), u) /\ ~IsRelease(Head(queue), u) =>
                m_ueContexts'[u] = m_ueContexts[u],
         \A s \in Sessions :
           /\ ~IsAbout(Head(queue), s) => m_pduSessions'[s] = m_pduSessions[s]
           /\ (/\ Head(queue).type = "SESSION_CREATE" /\ Head(queue).session = s
               /\ m_ueContexts[s[1]] # Absent) =>
                /\ m_pduSessions'[s] # Absent
                /\ m_pduSessions'[s].teid = Head(queue).resource.teid
  PROVE  AgreeInv'
<1>1. /\ queue \in Seq(Msg) /\ Len(queue) \in 1 .. Len(queue)
      /\ Len(queue') = Len(queue) - 1 /\ setUp \subseteq UEs
      /\ \A s \in pduSessionsOfUe : s \in Sessions /\ s[1] \in UEs
  BY DEF Inv, TypeOK, Sessions
<1>2. UNCHANGED <<pduSessionsOfUe, setUp, teidOwner, radioFailed>>
  BY DEF ngapVars
<1>3. ASSUME NEW u \in setUp \ radioFailed PROVE Present(queue', m_ueContexts', u, Len(queue'))
  <2>1. PICK n \in 1 .. Len(queue) : n = Len(queue)
    BY <1>1
  <2>2. Present(queue, m_ueContexts, u, n)
    BY <1>3, <2>1 DEF AgreeInv
  <2>3. Present(Tail(queue), m_ueContexts', u, n - 1)
    BY <1>1, <1>3, <2>2, PresentTake
  <2> QED BY <1>1, <2>1, <2>3
<1>4. ASSUME NEW s \in pduSessionsOfUe, s[1] \notin radioFailed
      PROVE  \E t \in Teids : /\ IsLast(s, t)
                              /\ \/ Stored(queue', m_pduSessions', s, t)
                                 \/ Waiting(queue', m_ueContexts', s, t)
  <2>1. PICK t \in Teids : IsLast(s, t) /\ (\/ Stored(queue, m_pduSessions, s, t)
                                            \/ Waiting(queue, m_ueContexts, s, t))
    BY <1>4 DEF AgreeInv
  <2>2. s \in Sessions /\ s[1] \in UEs
    BY <1>1, <1>4
  <2>3. \/ Stored(Tail(queue), m_pduSessions', s, t)
        \/ Waiting(Tail(queue), m_ueContexts', s, t)
    BY <1>1, <2>1, <2>2, HeldTake
  <2> QED BY <2>1, <2>3
<1> QED BY <1>2, <1>3, <1>4 DEF AgreeInv, IsLast

LEMMA GtpAgree ==
  ASSUME Inv, AgreeInv, GtpStep
  PROVE  AgreeInv'
<1>1. TypeOK
  BY DEF Inv
<1>2. CASE handleUeContextUpdate
  <2> DEFINE u == Head(queue).ue
             a == Head(queue).ambr
  <2>1. /\ take("UE_CONTEXT_UPDATE") /\ UNCHANGED <<ngapVars, m_pduSessions>>
        /\ m_ueContexts' = [m_ueContexts EXCEPT ![u] = a]
    BY <1>2 DEF handleUeContextUpdate
  <2>2. u \in UEs /\ a \in Rates
    BY <2>1, Taken, MsgKinds
  <2>3. a # Absent
    <3>1. \A x \in Rates : x \in Nat
      BY ConstAssumption DEF Rates
    <3> QED BY <2>2, <3>1, ConstAssumption
  <2>4. \A v \in UEs : IF v = u THEN m_ueContexts'[v] # Absent
                                ELSE m_ueContexts'[v] = m_ueContexts[v]
    BY <1>1, <2>1, <2>2, <2>3 DEF TypeOK
  <2>5. queue # <<>> /\ queue' = Tail(queue) /\ Head(queue).type = "UE_CONTEXT_UPDATE"
    BY <2>1 DEF take
  <2>6. \A v \in UEs : IsUpdate(Head(queue), v) <=> v = u
    BY <2>5 DEF IsUpdate
  <2> HIDE DEF u, a
  <2> QED BY <2>1, <2>4, <2>5, <2>6, TakeAgree
<1>3. CASE handleUeContextDelete
  <2> DEFINE u == Head(queue).ue
  <2>1. take("UE_CONTEXT_RELEASE") /\ UNCHANGED ngapVars
        /\ m_ueContexts' = [m_ueContexts EXCEPT ![u] = Absent]
    BY <1>3 DEF handleUeContextDelete
  <2>2. u \in UEs
    BY <2>1, Taken, MsgKinds
  <2>3. enumerateByUe(u) = {}
    BY <2>2 DEF enumerateByUe, Inv, EmptyInv
  <2>4. m_pduSessions' = m_pduSessions
    BY <1>1, <1>3, <2>3 DEF handleUeContextDelete, TypeOK
  <2>5. queue # <<>> /\ queue' = Tail(queue) /\ Head(queue).type = "UE_CONTEXT_RELEASE"
    BY <2>1 DEF take
  <2>6. \A v \in UEs : ~IsUpdate(Head(queue), v) /\ (IsRelease(Head(queue), v) <=> v = u)
    BY <2>5 DEF IsUpdate, IsRelease
  <2>7. \A v \in UEs : v # u => m_ueContexts'[v] = m_ueContexts[v]
    BY <1>1, <2>1 DEF TypeOK
  <2> HIDE DEF u
  <2> QED BY <2>1, <2>4, <2>5, <2>6, <2>7, TakeAgree
<1>4. CASE handleSessionCreate
  <2> DEFINE s == Head(queue).session
             r == Head(queue).resource
  <2>1. take("SESSION_CREATE") /\ UNCHANGED <<ngapVars, m_ueContexts>>
    BY <1>4 DEF handleSessionCreate
  <2>2. s \in Sessions /\ r \in Resource
    BY <2>1, Taken, MsgKinds
  <2>3. r # Absent
    BY <2>2, ResourceFields
  <2>4. queue # <<>> /\ queue' = Tail(queue) /\ Head(queue).type = "SESSION_CREATE"
    BY <2>1 DEF take
  <2>5. \A x \in Sessions : x # s => m_pduSessions'[x] = m_pduSessions[x]
    BY <1>1, <1>4 DEF handleSessionCreate, TypeOK
  <2>6. m_ueContexts[s[1]] # Absent => m_pduSessions'[s] = r
    BY <1>1, <1>4, <2>2 DEF handleSessionCreate, TypeOK
  <2>7. \A x : IsAbout(Head(queue), x) <=> x = s
    BY <2>4 DEF IsAbout
  <2>8. \A v \in UEs : ~IsUpdate(Head(queue), v) /\ ~IsRelease(Head(queue), v)
    BY <2>4 DEF IsUpdate, IsRelease
  <2>9. ASSUME NEW x \in Sessions
        PROVE  /\ ~IsAbout(Head(queue), x) => m_pduSessions'[x] = m_pduSessions[x]
               /\ Head(queue).session = x /\ m_ueContexts[x[1]] # Absent =>
                    m_pduSessions'[x] # Absent /\ m_pduSessions'[x].teid = r.teid
    BY <2>3, <2>5, <2>6, <2>7, <2>9
  <2>10. \A v \in UEs : m_ueContexts'[v] = m_ueContexts[v]
    BY <2>1
  <2> QED BY <2>1, <2>4, <2>8, <2>9, <2>10, TakeAgree
<1>5. CASE handleSessionRelease
  <2> DEFINE s == Head(queue).session
  <2>1. take("SESSION_RELEASE") /\ UNCHANGED <<ngapVars, m_ueContexts>>
    BY <1>5 DEF handleSessionRelease
  <2>2. queue # <<>> /\ queue' = Tail(queue) /\ Head(queue).type = "SESSION_RELEASE"
    BY <2>1 DEF take
  <2>3. \A x \in Sessions : x # s => m_pduSessions'[x] = m_pduSessions[x]
    BY <1>1, <1>5 DEF handleSessionRelease, TypeOK
  <2>4. \A x : IsAbout(Head(queue), x) <=> x = s
    BY <2>2 DEF IsAbout
  <2>5. \A v \in UEs : /\ ~IsUpdate(Head(queue), v) /\ ~IsRelease(Head(queue), v)
                       /\ m_ueContexts'[v] = m_ueContexts[v]
    BY <2>1, <2>2 DEF IsUpdate, IsRelease
  <2>6. \A x \in Sessions : /\ ~IsAbout(Head(queue), x) => m_pduSessions'[x] = m_pduSessions[x]
                            /\ Head(queue).type # "SESSION_CREATE"
    BY <2>2, <2>3, <2>4
  <2> QED BY <2>1, <2>2, <2>5, <2>6, TakeAgree
<1> QED BY <1>2, <1>3, <1>4, <1>5 DEF GtpStep

-----------------------------------------------------------------------------

(* Whenever the GTP task has caught up (onLoop) the two tasks agree on the  *)
(* sessions of every UE whose radio link has not failed: the drop of a      *)
(* setup without a UE context never meets a session the NGAP task keeps. A  *)
(* radio link failure deletes the GTP task's context under the NGAP task's  *)
(* sessions, of that UE alone and until the AMF releases the context.       *)
THEOREM SessionsAgreeHolds == Spec => []SessionsAgree
<1>1. Init => AgreeInv
  <2> SUFFICES ASSUME Init PROVE AgreeInv
    OBVIOUS
  <2> QED BY DEF Init, AgreeInv
<1>2. Inv /\ AgreeInv /\ [Next]_vars => AgreeInv'
  <2> SUFFICES ASSUME Inv, AgreeInv, [Next]_vars PROVE AgreeInv'
    OBVIOUS
  <2>1. CASE DataStep \/ UNCHANGED vars
    <3>1. UNCHANGED <<pduSessionsOfUe, setUp, teidOwner, radioFailed, queue, m_ueContexts,
                      m_pduSessions>>
      BY <2>1 DEF DataStep, handleUplinkData, handleQuicReceive, handleUdpReceive,
                  deliverDownlink, vars, ngapVars, tableVars
    <3> QED BY <3>1 DEF AgreeInv, IsLast
  <2> QED BY <2>1, NgapAgree, GtpAgree DEF Next
<1>3. Inv /\ AgreeInv => SessionsAgree
  <2> SUFFICES ASSUME Inv, AgreeInv, queue = <<>>, NEW s \in pduSessionsOfUe,
                      s[1] \notin radioFailed
               PROVE  m_pduSessions[s] # Absent /\ m_pduSessions[s].teid = LastTeid(s)
    BY DEF SessionsAgree
  <2>1. PICK t \in Teids : IsLast(s, t) /\ (\/ Stored(queue, m_pduSessions, s, t)
                                            \/ Waiting(queue, m_ueContexts, s, t))
    BY DEF AgreeInv
  <2>2. Stored(queue, m_pduSessions, s, t)
    BY <2>1 DEF Waiting
  <2>3. \A v \in Teids : IsLast(s, v) => v = t
    <3>1. \A v \in Teids : v \in Nat
      BY ConstAssumption DEF Teids
    <3>2. ASSUME NEW v \in Teids, IsLast(s, v) PROVE v = t
      <4>1. v <= t /\ t <= v
        BY <2>1, <3>2 DEF IsLast
      <4> QED BY <2>1, <3>1, <4>1
    <3> QED BY <3>2
  <2>4. LastTeid(s) \in Teids /\ IsLast(s, LastTeid(s))
    BY <2>1 DEF LastTeid, IsLast
  <2>5. LastTeid(s) = t
    BY <2>3, <2>4
  <2> QED BY <2>2, <2>5 DEF Stored
<1> QED BY InvHolds, <1>1, <1>2, <1>3, PTL DEF Spec
=============================================================================
