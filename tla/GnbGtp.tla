------------------------------- MODULE GnbGtp -------------------------------
(***************************************************************************)
(* PDU sessions in the gNB: the NGAP task's session and context procedures *)
(* (UERANSIM/src/gnb/ngap), the queue of NmGnbNgapToGtp messages, and the  *)
(* GTP task with its session tables and rate limiter (gnb/gtp).            *)
(*                                                                         *)
(* The two tasks are threads that share nothing but the queue: a handler   *)
(* of either one is a single step.                                         *)
(***************************************************************************)
EXTENDS Naturals, Sequences, FiniteSets

CONSTANTS
  UEs,              \* UE ids
  Psis,             \* PDU session ids
  Signalled,        \* bit rates the AMF signals
  MaxTeid,          \* bound: downlink TEIDs handed out
  MaxItems,         \* bound: items in one NGAP list
  MaxQueue,         \* bound: messages waiting for the GTP task
  Absent,           \* "not in the map"
  TransportMode     \* config->transportMode

ASSUME ConstAssumption ==
  /\ Signalled \subseteq Nat
  /\ MaxTeid \in Nat /\ MaxItems \in Nat /\ MaxQueue \in Nat
  /\ Absent \notin Nat /\ Absent \notin UEs \X Psis
  /\ Absent \notin [teid : Nat, sessionAmbr : Nat]
  /\ TransportMode \in {"QUIC", "GTPU"}

VARIABLES
  m_ueCtx,           \* NGAP: the UEs with a context
  ueAmbr,            \* NGAP: the AMBR of each context
  pduSessionsOfUe,   \* NGAP: ue->pduSessions, as pairs <<ue, psi>>
  m_downlinkTeidCounter,
  setUp,             \* the UEs whose initial context setup the AMF has sent
  teidOwner,         \* history: the session each TEID was handed out for
  radioFailed,       \* history: those of setUp whose radio link has failed since
  queue,             \* the GTP task's messages from the NGAP task
  m_ueContexts,      \* GTP: UE -> its AMBR
  m_pduSessions,     \* GTP: session -> its resource
  mapByDownTeid,     \* GTP: PduSessionTree
  mapByUeId,
  uplinkByUe,        \* GTP: the rate limiter's buckets, by their limit; the
  downlinkByUe,      \*   code keeps none for limit 0
  uplinkBySession,
  downlinkBySession,
  out                \* the last packet the GTP task let through

ngapVars    == <<m_ueCtx, ueAmbr, pduSessionsOfUe, m_downlinkTeidCounter, setUp,
                 teidOwner, radioFailed>>
tableVars   == <<m_ueContexts, m_pduSessions, mapByDownTeid, mapByUeId>>
limiterVars == <<uplinkByUe, downlinkByUe, uplinkBySession, downlinkBySession>>
vars == <<ngapVars, queue, tableVars, limiterVars, out>>

Sessions == UEs \X Psis    \* MakeSessionResInd, GetUeId, GetPsi
Teids    == 1 .. MaxTeid
Lists    == UNION {[1 .. n -> Psis] : n \in 0 .. MaxItems}

(* AMBRs are kept in bytes per second after an initial context setup and in *)
(* a session, as signalled after a context modification; they start as 0.   *)
Rates == {0} \cup Signalled \cup {r \div 8 : r \in Signalled}

(* The AMBR element of an NGAP message is optional. *)
AmbrIe == Signalled \cup {Absent}

Resource == [teid : Teids, sessionAmbr : Rates]
Msg == [type : {"UE_CONTEXT_UPDATE"}, ue : UEs, ambr : Rates]
       \cup [type : {"UE_CONTEXT_RELEASE"}, ue : UEs]
       \cup [type : {"SESSION_CREATE"}, session : Sessions, resource : Resource]
       \cup [type : {"SESSION_RELEASE"}, session : Sessions]

TypeOK ==
  /\ m_ueCtx \subseteq UEs
  /\ ueAmbr \in [UEs -> Rates]
  /\ pduSessionsOfUe \subseteq m_ueCtx \X Psis
  /\ m_downlinkTeidCounter \in 0 .. MaxTeid
  /\ setUp \subseteq m_ueCtx
  /\ teidOwner \in [Teids -> Sessions \cup {Absent}]
  /\ radioFailed \subseteq setUp
  /\ queue \in Seq(Msg)
  /\ m_ueContexts \in [UEs -> Rates \cup {Absent}]
  /\ m_pduSessions \in [Sessions -> Resource \cup {Absent}]
  /\ mapByDownTeid \in [Teids -> Sessions \cup {Absent}]
  /\ mapByUeId \in [UEs -> SUBSET Psis]
  /\ uplinkByUe \in [UEs -> Rates] /\ downlinkByUe \in [UEs -> Rates]
  /\ uplinkBySession \in [Sessions -> Rates]
  /\ downlinkBySession \in [Sessions -> Rates]
  /\ out \in [teid : Teids, session : Sessions] \cup {Absent}

Init ==
  /\ m_ueCtx = {} /\ ueAmbr = [u \in UEs |-> 0] /\ pduSessionsOfUe = {}
  /\ m_downlinkTeidCounter = 0 /\ setUp = {}
  /\ teidOwner = [t \in Teids |-> Absent] /\ radioFailed = {}
  /\ queue = <<>>
  /\ m_ueContexts = [u \in UEs |-> Absent]
  /\ m_pduSessions = [s \in Sessions |-> Absent]
  /\ mapByDownTeid = [t \in Teids |-> Absent]
  /\ mapByUeId = [u \in UEs |-> {}]
  /\ uplinkByUe = [u \in UEs |-> 0] /\ downlinkByUe = [u \in UEs |-> 0]
  /\ uplinkBySession = [s \in Sessions |-> 0]
  /\ downlinkBySession = [s \in Sessions |-> 0]
  /\ out = Absent

-----------------------------------------------------------------------------
(* The NGAP task *)

push(msgs) ==
  /\ Len(queue) + Len(msgs) <= MaxQueue
  /\ queue' = queue \o msgs

(* A mutant: the TEID counter stands still. *)
takeTeidsStuck(u, psis) ==
  /\ m_downlinkTeidCounter + Len(psis) <= MaxTeid
  /\ UNCHANGED m_downlinkTeidCounter
  /\ teidOwner' = [t \in Teids |->
       LET i == t - m_downlinkTeidCounter IN
       IF t > m_downlinkTeidCounter /\ i <= Len(psis) THEN <<u, psis[i]>>
                                                      ELSE teidOwner[t]]

(* Each item gets the next TEID. *)
takeTeids(u, psis) ==
  /\ m_downlinkTeidCounter + Len(psis) <= MaxTeid
  /\ m_downlinkTeidCounter' = m_downlinkTeidCounter + Len(psis)
  /\ teidOwner' = [t \in Teids |->
       LET i == t - m_downlinkTeidCounter IN
       IF t > m_downlinkTeidCounter /\ i <= Len(psis) THEN <<u, psis[i]>>
                                                      ELSE teidOwner[t]]

(* setupPduSessionResource for the items of a list. An item that is not     *)
(* IPv4, or lacks its tunnel or its QoS flows, is answered as failed and    *)
(* changes nothing: psis are the others.                                    *)
setupPduSessionResource(u, psis) ==
  /\ takeTeids(u, psis)
  /\ pduSessionsOfUe' = pduSessionsOfUe \cup {<<u, psis[i]>> : i \in DOMAIN psis}

(* The messages for them; sr is the session AMBR signalled. *)
creates(u, psis, sr) ==
  [i \in DOMAIN psis |->
     [type |-> "SESSION_CREATE", session |-> <<u, psis[i]>>,
      resource |-> [teid |-> m_downlinkTeidCounter + i,
                    sessionAmbr |-> IF sr = Absent THEN 0 ELSE sr \div 8]]]

(* The first NAS message of a UE creates its context; another one is refused. *)
handleInitialNasTransport(u) ==
  /\ u \notin m_ueCtx
  /\ m_ueCtx' = m_ueCtx \cup {u}
  /\ ueAmbr' = [ueAmbr EXCEPT ![u] = 0]
  /\ UNCHANGED <<pduSessionsOfUe, m_downlinkTeidCounter, setUp, teidOwner,
                 radioFailed, queue, tableVars, limiterVars, out>>

(* A mutant: the sessions are announced before the UE context. *)
receiveInitialContextSetupSwapped(u, r, psis, sr) ==
  /\ u \in m_ueCtx
  /\ push(creates(u, psis, sr)
          \o <<[type |-> "UE_CONTEXT_UPDATE", ue |-> u, ambr |-> ueAmbr[u]]>>)
  /\ ueAmbr' = [ueAmbr EXCEPT ![u] = IF r = Absent THEN @ ELSE r \div 8]
  /\ setupPduSessionResource(u, psis)
  /\ setUp' = setUp \cup {u}
  /\ UNCHANGED <<m_ueCtx, radioFailed, tableVars, limiterVars, out>>

(* The GTP task is told the AMBR the context had before the message. *)
receiveInitialContextSetup(u, r, psis, sr) ==
  /\ u \in m_ueCtx
  /\ push(<<[type |-> "UE_CONTEXT_UPDATE", ue |-> u, ambr |-> ueAmbr[u]]>>
          \o creates(u, psis, sr))
  /\ ueAmbr' = [ueAmbr EXCEPT ![u] = IF r = Absent THEN @ ELSE r \div 8]
  /\ setupPduSessionResource(u, psis)
  /\ setUp' = setUp \cup {u}
  /\ UNCHANGED <<m_ueCtx, radioFailed, tableVars, limiterVars, out>>

(* The AMF sets up sessions only in a context it has set up. *)
receiveSessionResourceSetupRequest(u, psis, sr) ==
  /\ u \in setUp
  /\ push(creates(u, psis, sr))
  /\ setupPduSessionResource(u, psis)
  /\ UNCHANGED <<m_ueCtx, ueAmbr, setUp, radioFailed, tableVars, limiterVars, out>>

(* Sessions are released, each once, whether or not the context knows them. *)
receiveSessionResourceReleaseCommand(u, psis) ==
  /\ u \in setUp
  /\ \A i, j \in DOMAIN psis : psis[i] = psis[j] => i = j
  /\ push([i \in DOMAIN psis |->
             [type |-> "SESSION_RELEASE", session |-> <<u, psis[i]>>]])
  /\ pduSessionsOfUe' = pduSessionsOfUe \ {<<u, psis[i]>> : i \in DOMAIN psis}
  /\ UNCHANGED <<m_ueCtx, ueAmbr, m_downlinkTeidCounter, setUp, teidOwner,
                 radioFailed, tableVars, limiterVars, out>>

(* The AMBR of a modification is taken as signalled. *)
receiveContextModification(u, r) ==
  /\ u \in setUp
  /\ ueAmbr' = [ueAmbr EXCEPT ![u] = IF r = Absent THEN @ ELSE r]
  /\ push(<<[type |-> "UE_CONTEXT_UPDATE", ue |-> u, ambr |-> ueAmbr'[u]]>>)
  /\ UNCHANGED <<m_ueCtx, pduSessionsOfUe, m_downlinkTeidCounter, setUp, teidOwner,
                 radioFailed, tableVars, limiterVars, out>>

(* The GTP task is told and the context is deleted. *)
receiveContextRelease(u) ==
  /\ u \in m_ueCtx
  /\ push(<<[type |-> "UE_CONTEXT_RELEASE", ue |-> u]>>)
  /\ m_ueCtx' = m_ueCtx \ {u}
  /\ setUp' = setUp \ {u} /\ radioFailed' = radioFailed \ {u}
  /\ pduSessionsOfUe' = {s \in pduSessionsOfUe : s[1] # u}
  /\ UNCHANGED <<ueAmbr, m_downlinkTeidCounter, teidOwner, tableVars, limiterVars,
                 out>>

(* The GTP task is told at once; the AMF is asked to release the context,   *)
(* which stays until it does.                                               *)
handleRadioLinkFailure(u) ==
  /\ push(<<[type |-> "UE_CONTEXT_RELEASE", ue |-> u]>>)
  /\ radioFailed' = radioFailed \cup (setUp \cap {u})
  /\ UNCHANGED <<m_ueCtx, ueAmbr, pduSessionsOfUe, m_downlinkTeidCounter, setUp,
                 teidOwner, tableVars, limiterVars, out>>

-----------------------------------------------------------------------------
(* The GTP task *)

(* onLoop takes the next message, which is of this type. *)
take(type) ==
  /\ queue # <<>> /\ Head(queue).type = type
  /\ queue' = Tail(queue)

(* RateLimiter::update*Limit: 0 erases the bucket, another limit makes one  *)
(* or changes its capacity.                                                 *)
updateLimit(buckets, k, limit) == [buckets EXCEPT ![k] = limit]

(* m_rateLimiter->updateUe*Limit with the context's AMBR *)
updateAmbrForUe(u, ambr) ==
  /\ uplinkByUe' = updateLimit(uplinkByUe, u, ambr)
  /\ downlinkByUe' = updateLimit(downlinkByUe, u, ambr)

updateAmbrForSession(s, resource) ==
  /\ uplinkBySession' = updateLimit(uplinkBySession, s, resource.sessionAmbr)
  /\ downlinkBySession' = updateLimit(downlinkBySession, s, resource.sessionAmbr)

(* PduSessionTree::insert fills one of the tree's two maps. *)
insert(s, teid) ==
  /\ mapByDownTeid' = [mapByDownTeid EXCEPT ![teid] = s]
  /\ UNCHANGED mapByUeId

(* PduSessionTree::remove for every session of ss *)
remove(ss) ==
  /\ mapByDownTeid' = [t \in Teids |->
       IF \E s \in ss : m_pduSessions[s].teid = t THEN Absent ELSE mapByDownTeid[t]]
  /\ mapByUeId' = [u \in UEs |-> mapByUeId[u] \ {s[2] : s \in {x \in ss : x[1] = u}}]

enumerateByUe(u) == {<<u, p>> : p \in mapByUeId[u]}

handleUeContextUpdate ==
  /\ take("UE_CONTEXT_UPDATE")
  /\ LET m == Head(queue) IN
       /\ m_ueContexts' = [m_ueContexts EXCEPT ![m.ue] = m.ambr]
       /\ updateAmbrForUe(m.ue, m.ambr)
  /\ UNCHANGED <<ngapVars, m_pduSessions, mapByDownTeid, mapByUeId,
                 uplinkBySession, downlinkBySession, out>>

(* A mutant: no test for the UE context. *)
handleSessionCreateUnchecked ==
  /\ take("SESSION_CREATE")
  /\ LET s == Head(queue).session
         resource == Head(queue).resource IN
       /\ m_pduSessions' = [m_pduSessions EXCEPT ![s] = resource]
       /\ insert(s, resource.teid)
       /\ updateAmbrForUe(s[1], m_ueContexts[s[1]])
       /\ updateAmbrForSession(s, resource)
  /\ UNCHANGED <<ngapVars, m_ueContexts, out>>

(* A mutant: a session that exists is left as it is. *)
handleSessionCreateKeeps ==
  /\ take("SESSION_CREATE")
  /\ LET s == Head(queue).session
         resource == Head(queue).resource IN
       \/ /\ m_ueContexts[s[1]] = Absent \/ m_pduSessions[s] # Absent
          /\ UNCHANGED <<m_pduSessions, mapByDownTeid, mapByUeId, limiterVars>>
       \/ /\ m_ueContexts[s[1]] # Absent /\ m_pduSessions[s] = Absent
          /\ m_pduSessions' = [m_pduSessions EXCEPT ![s] = resource]
          /\ insert(s, resource.teid)
          /\ updateAmbrForUe(s[1], m_ueContexts[s[1]])
          /\ updateAmbrForSession(s, resource)
  /\ UNCHANGED <<ngapVars, m_ueContexts, out>>

(* A session is created, or replaced, in a UE context that exists; without  *)
(* one the resource is dropped, and the NGAP task is not told.              *)
handleSessionCreate ==
  /\ take("SESSION_CREATE")
  /\ LET s == Head(queue).session
         resource == Head(queue).resource IN
       \/ /\ m_ueContexts[s[1]] = Absent
          /\ UNCHANGED <<m_pduSessions, mapByDownTeid, mapByUeId, limiterVars>>
       \/ /\ m_ueContexts[s[1]] # Absent
          /\ m_pduSessions' = [m_pduSessions EXCEPT ![s] = resource]
          /\ insert(s, resource.teid)
          /\ updateAmbrForUe(s[1], m_ueContexts[s[1]])
          /\ updateAmbrForSession(s, resource)
  /\ UNCHANGED <<ngapVars, m_ueContexts, out>>

(* The downlink limit taken away is the UE's, not the session's. *)
handleSessionRelease ==
  /\ take("SESSION_RELEASE")
  /\ LET s == Head(queue).session IN
       \/ /\ m_ueContexts[s[1]] = Absent
          /\ UNCHANGED <<m_pduSessions, mapByDownTeid, mapByUeId, limiterVars>>
       \/ /\ m_ueContexts[s[1]] # Absent
          /\ uplinkBySession' = updateLimit(uplinkBySession, s, 0)
          /\ downlinkByUe' = updateLimit(downlinkByUe, s[1], 0)
          /\ m_pduSessions' = [m_pduSessions EXCEPT ![s] = Absent]
          /\ remove({x \in {s} : m_pduSessions[x] # Absent})
          /\ UNCHANGED <<uplinkByUe, downlinkBySession>>
  /\ UNCHANGED <<ngapVars, m_ueContexts, out>>

(* A mutant: the UE's uplink limit stays. *)
handleUeContextDeleteKeepsLimit ==
  /\ take("UE_CONTEXT_RELEASE")
  /\ LET u == Head(queue).ue IN
       /\ downlinkByUe' = updateLimit(downlinkByUe, u, 0)
       /\ m_ueContexts' = [m_ueContexts EXCEPT ![u] = Absent]
  /\ UNCHANGED <<ngapVars, m_pduSessions, mapByDownTeid, mapByUeId, uplinkByUe,
                 uplinkBySession, downlinkBySession, out>>

(* The sessions the tree enumerates for the UE, its limits and its context  *)
(* are removed.                                                             *)
handleUeContextDelete ==
  /\ take("UE_CONTEXT_RELEASE")
  /\ LET u == Head(queue).ue
         ss == enumerateByUe(u) IN
       /\ uplinkBySession' = [s \in Sessions |-> IF s \in ss THEN 0 ELSE uplinkBySession[s]]
       /\ m_pduSessions' = [s \in Sessions |-> IF s \in ss THEN Absent ELSE m_pduSessions[s]]
       /\ remove(ss)
       /\ uplinkByUe' = updateLimit(uplinkByUe, u, 0)
       /\ downlinkByUe' = updateLimit(downlinkByUe, u, 0)
       /\ m_ueContexts' = [m_ueContexts EXCEPT ![u] = Absent]
  /\ UNCHANGED <<ngapVars, downlinkBySession, out>>

(* A packet the limiter lets through goes into the session's uplink tunnel, *)
(* which the resource's TEID stands for. A packet that is not IPv4, is for  *)
(* an unknown session or is over the limit is dropped.                      *)
handleUplinkData(s) ==
  /\ m_pduSessions[s] # Absent
  /\ out' = [teid |-> m_pduSessions[s].teid, session |-> s]
  /\ UNCHANGED <<ngapVars, queue, tableVars, limiterVars>>

(* A packet the limiter lets through is delivered to the UE and session the *)
(* tree finds for its TEID; one with an unknown TEID is dropped.            *)
deliverDownlink(teid) ==
  /\ mapByDownTeid[teid] # Absent
  /\ out' = [teid |-> teid, session |-> mapByDownTeid[teid]]
  /\ UNCHANGED <<ngapVars, queue, tableVars, limiterVars>>

handleQuicReceive(teid) == TransportMode = "QUIC" /\ deliverDownlink(teid)

handleUdpReceive(teid) == TransportMode = "GTPU" /\ deliverDownlink(teid)

-----------------------------------------------------------------------------

NgapStep ==
  \E u \in UEs :
    \/ handleInitialNasTransport(u)
    \/ \E r, sr \in AmbrIe, psis \in Lists : receiveInitialContextSetup(u, r, psis, sr)
    \/ \E sr \in AmbrIe, psis \in Lists : receiveSessionResourceSetupRequest(u, psis, sr)
    \/ \E psis \in Lists : receiveSessionResourceReleaseCommand(u, psis)
    \/ \E r \in AmbrIe : receiveContextModification(u, r)
    \/ receiveContextRelease(u)
    \/ handleRadioLinkFailure(u)

GtpStep ==
  \/ handleUeContextUpdate \/ handleSessionCreate
  \/ handleSessionRelease \/ handleUeContextDelete

DataStep ==
  \/ \E s \in Sessions : handleUplinkData(s)
  \/ \E t \in Teids : handleQuicReceive(t) \/ handleUdpReceive(t)

Next == NgapStep \/ GtpStep \/ DataStep

Spec == Init /\ [][Next]_vars

(* The GTP task's thread is scheduled and takes its messages. *)
FairSpec == Spec /\ WF_vars(GtpStep)

-----------------------------------------------------------------------------
(* Properties *)

(* A packet never leaves its session: an uplink packet goes into a tunnel   *)
(* of the session it came from (handleUplinkData), a downlink packet to the *)
(* UE and session its TEID was handed out for (handleQuicReceive,           *)
(* handleUdpReceive), however releases, setups and packets interleave.      *)
PacketsStayInSession ==
  out # Absent => teidOwner[out.teid] = out.session

(* The tree finds every session in the table by its TEID: a downlink packet *)
(* for a live session is not dropped (PduSessionTree).                      *)
TreeFindsSessions ==
  \A s \in Sessions : m_pduSessions[s] # Absent =>
    mapByDownTeid[m_pduSessions[s].teid] = s

(* Uplink rate limits are the AMBRs of the UE contexts and of the sessions  *)
(* in the table, and there are no others (RateLimiter). The same does not   *)
(* hold downlink, see handleSessionRelease.                                 *)
UplinkLimits ==
  /\ \A u \in UEs :
       uplinkByUe[u] = IF m_ueContexts[u] = Absent THEN 0 ELSE m_ueContexts[u]
  /\ \A s \in Sessions :
       uplinkBySession[s] =
         IF m_pduSessions[s] = Absent THEN 0 ELSE m_pduSessions[s].sessionAmbr

(* The TEID of a session's last setup *)
LastTeid(s) == CHOOSE t \in Teids :
  teidOwner[t] = s /\ \A v \in Teids : teidOwner[v] = s => v <= t

(* Once the GTP task has caught up (onLoop), a session the NGAP task has    *)
(* reported as set up is in m_pduSessions with the resource of its last     *)
(* setup, although the GTP task drops a setup without a UE context: only a  *)
(* radio link failure, which deletes the GTP task's context and leaves the  *)
(* NGAP task's, can come between, and it concerns that UE alone, until the  *)
(* AMF releases its context.                                                *)
SessionsAgree ==
  queue = <<>> => \A s \in pduSessionsOfUe :
    s[1] \notin radioFailed =>
      m_pduSessions[s] # Absent /\ m_pduSessions[s].teid = LastTeid(s)

(* A UE whose context has been deleted has no session in the table. *)
DeletedUeHasNoSessions ==
  \A u \in UEs : m_ueContexts[u] = Absent =>
    \A p \in Psis : m_pduSessions[<<u, p>>] = Absent

(* A session the NGAP task has set up gets into the table with that         *)
(* resource or a later one, unless it is released or the UE's radio link    *)
(* fails.                                                                   *)
SetupReachesTable ==
  \A s \in Sessions, t \in Teids :
    (teidOwner[t] = s /\ s \in pduSessionsOfUe)
      ~> (\/ m_pduSessions[s] # Absent /\ m_pduSessions[s].teid >= t
          \/ s \notin pduSessionsOfUe \/ s[1] \in radioFailed)
=============================================================================
