--------------------------- MODULE N3TunnelProofs ---------------------------
(***************************************************************************)
(* N3Tunnel implements N3Channel, for any number of gNBs, UPFs, packets    *)
(* and connections, any addresses, and any races in the UPFs.              *)
(***************************************************************************)
EXTENDS N3Tunnel, TLAPS

(* A connection is opened by one gNB to one UPF. *)
ConnInv ==
  \A c \in Conns : /\ owner[c] = NoEnd <=> peer[c] = NoEnd
                   /\ owner[c] = NoEnd <=> upfEnd[c] = "none"

(* A gNB that is CONNECTED has a connection, its own; one that is DISCONNECTED
   has none; and only one that is CONNECTING has packets in its queue
   (QuicTask::send, QuicTask::connectionCallback). *)
GnbEndConsistent ==
  \A g \in Gnbs :
    /\ m_quicState[g] = "CONNECTED" => m_connection[g] # NoConn
    /\ m_quicState[g] = "DISCONNECTED" => m_connection[g] = NoConn
    /\ m_quicState[g] # "CONNECTING" => m_pendingContexts[g] = {}
    /\ m_connection[g] # NoConn => owner[m_connection[g]] = g

(* What a UPF has put under an address is a connection to it, from there. *)
TableInv ==
  \A u \in Upfs, a \in Addrs :
    quic_client_hash[u][a] # NoConn =>
      /\ peer[quic_client_hash[u][a]] = u
      /\ AddrOf(owner[quic_client_hash[u][a]]) = a

(* A queued packet is for the UPF of the gNB's connection, if it has one; one
   a UPF is about to send is for the address of the connection found; and a
   datagram is for an end of its connection: all but the stray ones. *)
QueuedInv ==
  \A g \in Gnbs : \A p \in m_pendingContexts[g] :
    /\ dest[p] \in Upfs
    /\ m_connection[g] # NoConn => p \in stray \/ dest[p] = peer[m_connection[g]]

HeldInv ==
  \A c \in Conns, p \in Packets : <<c, p>> \in dl =>
    /\ owner[c] # NoEnd /\ dest[p] \in Addrs
    /\ p \in stray \/ dest[p] = AddrOf(owner[c])

DatagramInv ==
  \A c \in Conns, p \in Packets : <<c, p>> \in net =>
    /\ owner[c] # NoEnd /\ dest[p] \in Ends
    /\ p \in stray \/ dest[p] = peer[c] \/ dest[p] = AddrOf(owner[c])

(* A packet is in one queue, in one UPF's hands or in one datagram. *)
OncePerPacket ==
  /\ \A c, d \in Conns, p \in Packets :
       <<c, p>> \in dl \cup net /\ <<d, p>> \in dl \cup net => c = d
  /\ \A c \in Conns, p \in Packets : ~(<<c, p>> \in dl /\ <<c, p>> \in net)
  /\ \A g \in Gnbs, c \in Conns : \A p \in m_pendingContexts[g] : <<c, p>> \notin dl \cup net
  /\ \A g, h \in Gnbs : \A p \in m_pendingContexts[g] : p \in m_pendingContexts[h] => g = h

(* The inductive invariants: of the two ends, and of the packets. *)
EndInv == TypeOK /\ ConnInv /\ GnbEndConsistent /\ TableInv
IInv   == EndInv /\ QueuedInv /\ HeldInv /\ DatagramInv /\ OncePerPacket

-----------------------------------------------------------------------------
LEMMA EndInit == Init => EndInv
BY ConstAssumption DEF Init, EndInv, TypeOK, ConnInv, GnbEndConsistent,
   TableInv, Ends, UpfEnds

LEMMA AddrsFact == \A g \in Gnbs : AddrOf(g) \in Addrs
BY DEF Addrs

(* What the look-up finds is a connection to the UPF, and without a race one
   from the address asked for. *)
LEMMA FoundFact ==
  ASSUME EndInv, NEW u \in Upfs, NEW a \in Addrs, NEW c \in Found(u, a), c # NoConn
  PROVE  /\ c \in Conns /\ peer[c] = u /\ owner[c] \in Gnbs
         /\ u \notin raced => AddrOf(owner[c]) = a
<1>1. c \in Conns
  BY DEF Found, EndInv, TypeOK
<1>2. peer[c] = u /\ (u \notin raced => AddrOf(owner[c]) = a)
  BY DEF Found, EndInv, TableInv
<1>3. owner[c] \in Gnbs
  BY <1>1, <1>2, ConstAssumption DEF EndInv, TypeOK, ConnInv, Ends
<1> QED BY <1>1, <1>2, <1>3

(* A connection a UPF is working on has both ends. *)
LEMMA OpenFact ==
  ASSUME EndInv, NEW c \in Conns, upfEnd[c] # "none"
  PROVE  peer[c] \in Upfs /\ owner[c] \in Gnbs /\ AddrOf(owner[c]) \in Addrs
BY AddrsFact DEF EndInv, TypeOK, ConnInv

LEMMA SendTyped ==
  ASSUME TypeOK, NEW c \in Conns, NEW P \in SUBSET Packets, DatagramSend(c, P)
  PROVE  net' \subseteq Conns \X Packets
BY DEF TypeOK, DatagramSend

LEMMA TypeStep == EndInv /\ [Next]_vars => TypeOK'
<1> SUFFICES ASSUME EndInv, [Next]_vars PROVE TypeOK'
  OBVIOUS
<1>t. TypeOK
  BY DEF EndInv
<1> USE DEF TypeOK, UpfEnds
<1>e. \A u \in Upfs : u \in Ends
  BY DEF Ends
<1>f. \A a \in Addrs : a \in Ends
  BY DEF Ends
<1>1. ASSUME NEW g \in Gnbs, NEW p \in Packets, NEW u \in Upfs, NEW c \in Conns,
             sendConnect(g, p, u, c)
      PROVE  TypeOK'
  BY <1>1, <1>t, <1>e DEF sendConnect
<1>2. ASSUME NEW g \in Gnbs, NEW p \in Packets, NEW u \in Upfs,
             sendConnectFails(g, p, u)
      PROVE  TypeOK'
  BY <1>2, <1>t, <1>e DEF sendConnectFails, upfVars
<1>3. ASSUME NEW g \in Gnbs, NEW p \in Packets, NEW u \in Upfs, sendQueue(g, p, u)
      PROVE  TypeOK'
  <2>1. stray' \subseteq Packets
    BY <1>3, <1>t DEF sendQueue, MarkStray
  <2> QED BY <1>3, <1>t, <1>e, <2>1 DEF sendQueue, upfVars
<1>4. ASSUME NEW g \in Gnbs, NEW p \in Packets, NEW u \in Upfs, sendNow(g, p, u)
      PROVE  TypeOK'
  <2>1. m_connection[g] \in Conns
    BY <1>4, <1>t DEF sendNow, EndInv, GnbEndConsistent
  <2>2. net' \subseteq Conns \X Packets
    BY <1>4, <1>t, <2>1, SendTyped DEF sendNow
  <2>3. stray' \subseteq Packets
    BY <1>4, <1>t DEF sendNow, MarkStray
  <2>4. dest' \in [Packets -> Ends \cup {NoEnd}]
    BY <1>4, <1>t, <1>e DEF sendNow
  <2> QED BY <1>4, <1>t, <2>2, <2>3, <2>4 DEF sendNow, gnbVars, upfVars
<1>5. ASSUME NEW g \in Gnbs, callbackConnected(g)
      PROVE  TypeOK'
  <2>1. m_connection[g] \in Conns
    BY <1>5, <1>t DEF callbackConnected
  <2>2. net' \subseteq Conns \X Packets
    BY <1>5, <1>t, <2>1, SendTyped DEF callbackConnected
  <2> QED BY <1>5, <1>t, <2>2 DEF callbackConnected, upfVars
<1>6. ASSUME NEW g \in Gnbs, callbackShutdown(g)
      PROVE  TypeOK'
  BY <1>6, <1>t DEF callbackShutdown, upfVars
<1>7. ASSUME NEW g \in Gnbs, NEW p \in Packets, callbackReceived(g, p)
      PROVE  TypeOK'
  <2>1. AddrOf(g) \in Ends
    BY <1>f, AddrsFact
  <2> QED BY <1>7, <1>t, <2>1 DEF callbackReceived, gnbVars, upfVars
<1>8. ASSUME NEW c \in Conns, serverAlloc(c) \/ serverNode(c)
      PROVE  TypeOK'
  <2>1. peer[c] \in Upfs
    BY <1>8, OpenFact DEF serverAlloc, serverNode
  <2>2. raced' \subseteq Upfs
    BY <1>8, <1>t, <2>1 DEF serverAlloc, serverNode
  <2> QED BY <1>8, <1>t, <2>2 DEF serverAlloc, serverNode, gnbVars
<1>9. ASSUME NEW c \in Conns, serverRegister(c)
      PROVE  TypeOK'
  <2>1. peer[c] \in Upfs /\ AddrOf(owner[c]) \in Addrs
    BY <1>9, OpenFact DEF serverRegister
  <2>2. quic_client_hash' \in [Upfs -> [Addrs -> Conns \cup {NoConn}]]
    BY <1>9, <1>t, <2>1 DEF serverRegister
  <2> QED BY <1>9, <1>t, <2>2 DEF serverRegister, gnbVars
<1>10. ASSUME NEW c \in Conns, serverShutdown(c)
       PROVE  TypeOK'
  <2>1. peer[c] \in Upfs /\ AddrOf(owner[c]) \in Addrs
    BY <1>10, OpenFact DEF serverShutdown
  <2>2. quic_client_hash' \in [Upfs -> [Addrs -> Conns \cup {NoConn}]]
    <3>1. CASE quic_client_hash' = [quic_client_hash EXCEPT ![peer[c]] =
                                     [@ EXCEPT ![AddrOf(owner[c])] = NoConn]]
      BY <1>t, <2>1, <3>1
    <3>2. CASE UNCHANGED quic_client_hash
      BY <1>t, <3>2
    <3> QED BY <1>10, <3>1, <3>2 DEF serverShutdown
  <2>3. raced' \subseteq Upfs
    BY <1>10, <1>t, <2>1 DEF serverShutdown
  <2> QED BY <1>10, <1>t, <2>2, <2>3 DEF serverShutdown, gnbVars
<1>11. ASSUME NEW u \in Upfs, serverRestart(u)
       PROVE  TypeOK'
  <2>1. quic_client_hash' \in [Upfs -> [Addrs -> Conns \cup {NoConn}]]
    BY <1>11, <1>t DEF serverRestart
  <2>2. upfEnd' \in [Conns -> UpfEnds]
    BY <1>11, <1>t DEF serverRestart
  <2>3. dl' \subseteq Conns \X Packets
    BY <1>11, <1>t DEF serverRestart
  <2> QED BY <1>11, <1>t, <2>1, <2>2, <2>3 DEF serverRestart, gnbVars
<1>12. ASSUME NEW u \in Upfs, NEW a \in Addrs, NEW p \in Packets, downlinkLookup(u, a, p)
       PROVE  TypeOK'
  <2>1. PICK c \in Found(u, a) : dl' = IF c = NoConn THEN dl ELSE dl \cup {<<c, p>>}
    BY <1>12 DEF downlinkLookup
  <2>2. dl' \subseteq Conns \X Packets
    BY <1>t, <2>1, FoundFact
  <2>3. dest' \in [Packets -> Ends \cup {NoEnd}]
    BY <1>12, <1>t, <1>f DEF downlinkLookup
  <2>4. stray' \subseteq Packets
    BY <1>12, <1>t DEF downlinkLookup
  <2> QED BY <1>12, <1>t, <2>2, <2>3, <2>4 DEF downlinkLookup, gnbVars, upfVars
<1>13. ASSUME NEW c \in Conns, NEW p \in Packets, downlinkSend(c, p)
       PROVE  TypeOK'
  <2>1. net' \subseteq Conns \X Packets
    BY <1>13, <1>t, SendTyped DEF downlinkSend
  <2> QED BY <1>13, <1>t, <2>1 DEF downlinkSend, gnbVars, upfVars
<1>14. ASSUME NEW c \in Conns, NEW d \in Conns, NEW p \in Packets, handleReused(c, d, p)
       PROVE  TypeOK'
  BY <1>14, <1>t DEF handleReused, gnbVars, upfVars
<1>15. ASSUME NEW c \in Conns, NEW p \in Packets, handle_uplink(c, p)
       PROVE  TypeOK'
  <2>1. peer[c] \in Ends
    BY <1>15, <1>e, OpenFact DEF handle_uplink
  <2> QED BY <1>15, <1>t, <2>1 DEF handle_uplink, gnbVars, upfVars
<1>16. ASSUME NEW c \in Conns, NEW p \in Packets, datagramLost(c, p)
       PROVE  TypeOK'
  BY <1>16, <1>t DEF datagramLost, gnbVars, upfVars
<1>17. CASE UNCHANGED vars
  BY <1>17, <1>t DEF vars, gnbVars, upfVars
<1> QED
  BY <1>1, <1>2, <1>3, <1>4, <1>5, <1>6, <1>7, <1>8, <1>9, <1>10, <1>11, <1>12,
     <1>13, <1>14, <1>15, <1>16, <1>17 DEF Next

(* A connection that has been opened keeps its ends. *)
LEMMA ConnFixed ==
  ASSUME EndInv, [Next]_vars, NEW c \in Conns, owner[c] # NoEnd
  PROVE  owner'[c] = owner[c] /\ peer'[c] = peer[c]
<1>1. CASE UNCHANGED <<owner, peer>>
  BY <1>1
<1>2. ASSUME NEW g \in Gnbs, NEW p \in Packets, NEW u \in Upfs, NEW d \in Conns,
             sendConnect(g, p, u, d)
      PROVE  owner'[c] = owner[c] /\ peer'[c] = peer[c]
  BY <1>2 DEF sendConnect, EndInv, TypeOK
<1>3. (\A g \in Gnbs, p \in Packets, u \in Upfs, d \in Conns : ~sendConnect(g, p, u, d))
        => UNCHANGED <<owner, peer>>
  <2>1. ASSUME NEW g \in Gnbs, \/ callbackConnected(g) \/ callbackShutdown(g)
                               \/ \E p \in Packets : callbackReceived(g, p)
        PROVE  UNCHANGED <<owner, peer>>
    BY <2>1 DEF callbackConnected, callbackShutdown, callbackReceived, gnbVars
  <2>2. ASSUME NEW g \in Gnbs, NEW p \in Packets, NEW u \in Upfs,
               sendConnectFails(g, p, u) \/ sendQueue(g, p, u) \/ sendNow(g, p, u)
        PROVE  UNCHANGED <<owner, peer>>
    BY <2>2 DEF sendConnectFails, sendQueue, sendNow, gnbVars
  <2>3. ASSUME NEW d \in Conns, \/ serverAlloc(d) \/ serverNode(d)
                                \/ serverRegister(d) \/ serverShutdown(d)
        PROVE  UNCHANGED <<owner, peer>>
    BY <2>3 DEF serverAlloc, serverNode, serverRegister, serverShutdown, gnbVars
  <2>4. ASSUME NEW u \in Upfs, \/ serverRestart(u)
                               \/ \E a \in Addrs, p \in Packets : downlinkLookup(u, a, p)
        PROVE  UNCHANGED <<owner, peer>>
    BY <2>4 DEF serverRestart, downlinkLookup, gnbVars
  <2>5. ASSUME NEW d \in Conns, NEW p \in Packets,
               \/ \E b \in Conns : handleReused(d, b, p)
               \/ downlinkSend(d, p) \/ handle_uplink(d, p) \/ datagramLost(d, p)
        PROVE  UNCHANGED <<owner, peer>>
    BY <2>5 DEF handleReused, downlinkSend, handle_uplink, datagramLost, gnbVars
  <2>6. UNCHANGED vars => UNCHANGED <<owner, peer>>
    BY DEF vars, gnbVars
  <2> QED BY <2>1, <2>2, <2>3, <2>4, <2>5, <2>6 DEF Next
<1> QED BY <1>1, <1>2, <1>3

LEMMA ConnStep == EndInv /\ [Next]_vars => ConnInv' /\ GnbEndConsistent'
<1> SUFFICES ASSUME EndInv, [Next]_vars PROVE ConnInv' /\ GnbEndConsistent'
  OBVIOUS
<1> USE ConstAssumption DEF EndInv, TypeOK, Ends, ConnInv, GnbEndConsistent
<1>1. ASSUME NEW g \in Gnbs, NEW p \in Packets, NEW u \in Upfs, NEW c \in Conns,
             sendConnect(g, p, u, c)
      PROVE  ConnInv' /\ GnbEndConsistent'
  <2>1. ConnInv'
    BY <1>1 DEF sendConnect
  <2>2. \A h \in Gnbs : m_connection[h] # c
    BY <1>1 DEF sendConnect
  <2>3. GnbEndConsistent'
    BY <1>1, <2>2 DEF sendConnect
  <2> QED BY <2>1, <2>3
<1>2. ASSUME NEW g \in Gnbs, NEW p \in Packets, NEW u \in Upfs,
             sendConnectFails(g, p, u) \/ sendQueue(g, p, u) \/ sendNow(g, p, u)
      PROVE  ConnInv' /\ GnbEndConsistent'
  BY <1>2 DEF sendConnectFails, sendQueue, sendNow, gnbVars, upfVars
<1>3. ASSUME NEW g \in Gnbs, callbackConnected(g) \/ callbackShutdown(g)
      PROVE  ConnInv' /\ GnbEndConsistent'
  BY <1>3 DEF callbackConnected, callbackShutdown, upfVars
<1>4. ASSUME NEW c \in Conns, \/ serverAlloc(c) \/ serverNode(c)
                              \/ serverRegister(c) \/ serverShutdown(c)
      PROVE  ConnInv' /\ GnbEndConsistent'
  BY <1>4 DEF serverAlloc, serverNode, serverRegister, serverShutdown, gnbVars
<1>5. ASSUME NEW u \in Upfs, serverRestart(u)
      PROVE  ConnInv' /\ GnbEndConsistent'
  <2>1. \A c \in Conns : peer[c] = u => upfEnd[c] # "none"
    OBVIOUS
  <2> QED BY <1>5, <2>1 DEF serverRestart, gnbVars
<1>6. CASE UNCHANGED <<gnbVars, upfVars>>
  BY <1>6 DEF gnbVars, upfVars
<1> QED
  BY <1>1, <1>2, <1>3, <1>4, <1>5, <1>6 DEF Next, vars, callbackReceived,
     downlinkLookup, downlinkSend, handleReused, handle_uplink, datagramLost

(* Only the UPF's callbacks change its table. *)
LEMMA TableStep == EndInv /\ [Next]_vars => TableInv'
<1> SUFFICES ASSUME EndInv, [Next]_vars,
                    NEW v \in Upfs, NEW a \in Addrs,
                    quic_client_hash'[v][a] # NoConn
             PROVE  /\ peer'[quic_client_hash'[v][a]] = v
                    /\ AddrOf(owner'[quic_client_hash'[v][a]]) = a
  BY DEF TableInv
<1> DEFINE d == quic_client_hash[v][a]
           e == quic_client_hash'[v][a]
<1>a. d \in Conns \cup {NoConn}
  BY DEF EndInv, TypeOK
<1>b. d # NoConn => peer[d] = v /\ AddrOf(owner[d]) = a
  BY DEF EndInv, TableInv
<1>c. d # NoConn => owner[d] # NoEnd
  BY <1>a, <1>b, ConstAssumption DEF EndInv, TypeOK, ConnInv, Ends
<1>d. e # NoConn
  OBVIOUS
<1>1. ASSUME e = d
      PROVE  peer'[e] = v /\ AddrOf(owner'[e]) = a
  <2>1. d \in Conns /\ owner[d] # NoEnd
    BY <1>1, <1>a, <1>c, <1>d
  <2>2. owner'[d] = owner[d] /\ peer'[d] = peer[d]
    BY <2>1, ConnFixed
  <2> QED BY <1>1, <1>b, <1>d, <2>2
<1>2. ASSUME NEW c \in Conns, serverRegister(c)
      PROVE  peer'[e] = v /\ AddrOf(owner'[e]) = a
  <2>1. peer[c] \in Upfs /\ AddrOf(owner[c]) \in Addrs
    BY <1>2, OpenFact DEF serverRegister
  <2>2. CASE v = peer[c] /\ a = AddrOf(owner[c])
    <3>1. e = c
      BY <1>2, <2>1, <2>2 DEF serverRegister, EndInv, TypeOK
    <3> QED BY <1>2, <2>2, <3>1 DEF serverRegister, gnbVars
  <2>3. CASE ~(v = peer[c] /\ a = AddrOf(owner[c]))
    <3>1. e = d
      BY <1>2, <2>1, <2>3 DEF serverRegister, EndInv, TypeOK
    <3> QED BY <1>1, <3>1
  <2> QED BY <2>2, <2>3
<1>3. ASSUME NEW c \in Conns, serverShutdown(c)
      PROVE  peer'[e] = v /\ AddrOf(owner'[e]) = a
  <2>1. peer[c] \in Upfs /\ AddrOf(owner[c]) \in Addrs
    BY <1>3, OpenFact DEF serverShutdown
  <2>2. CASE quic_client_hash' = [quic_client_hash EXCEPT ![peer[c]] =
                                    [@ EXCEPT ![AddrOf(owner[c])] = NoConn]]
    <3>1. e = d \/ e = NoConn
      BY <2>1, <2>2 DEF EndInv, TypeOK
    <3> QED BY <1>1, <1>d, <3>1
  <2>3. CASE UNCHANGED quic_client_hash
    BY <1>1, <2>3
  <2> QED BY <1>3, <2>2, <2>3 DEF serverShutdown
<1>4. ASSUME NEW u \in Upfs, serverRestart(u)
      PROVE  peer'[e] = v /\ AddrOf(owner'[e]) = a
  <2>1. e = d \/ e = NoConn
    BY <1>4 DEF serverRestart, EndInv, TypeOK
  <2> QED BY <1>1, <1>d, <2>1
<1>5. ASSUME UNCHANGED quic_client_hash
      PROVE  peer'[e] = v /\ AddrOf(owner'[e]) = a
  BY <1>1, <1>5
<1>6. \/ UNCHANGED quic_client_hash
      \/ \E c \in Conns : serverRegister(c) \/ serverShutdown(c)
      \/ \E u \in Upfs : serverRestart(u)
  <2>1. ASSUME NEW g \in Gnbs, NEW p \in Packets, NEW u \in Upfs,
               \/ \E c \in Conns : sendConnect(g, p, u, c)
               \/ sendConnectFails(g, p, u) \/ sendQueue(g, p, u) \/ sendNow(g, p, u)
        PROVE  UNCHANGED quic_client_hash
    BY <2>1 DEF sendConnect, sendConnectFails, sendQueue, sendNow, upfVars
  <2>2. ASSUME NEW g \in Gnbs, \/ callbackConnected(g) \/ callbackShutdown(g)
                               \/ \E p \in Packets : callbackReceived(g, p)
        PROVE  UNCHANGED quic_client_hash
    BY <2>2 DEF callbackConnected, callbackShutdown, callbackReceived, upfVars
  <2>3. ASSUME NEW c \in Conns, serverAlloc(c) \/ serverNode(c)
        PROVE  UNCHANGED quic_client_hash
    BY <2>3 DEF serverAlloc, serverNode
  <2>4. ASSUME NEW c \in Conns, NEW p \in Packets,
               \/ \E b \in Conns : handleReused(c, b, p)
               \/ downlinkSend(c, p) \/ handle_uplink(c, p) \/ datagramLost(c, p)
        PROVE  UNCHANGED quic_client_hash
    BY <2>4 DEF handleReused, downlinkSend, handle_uplink, datagramLost, upfVars
  <2>5. ASSUME NEW u \in Upfs, NEW b \in Addrs, NEW p \in Packets, downlinkLookup(u, b, p)
        PROVE  UNCHANGED quic_client_hash
    BY <2>5 DEF downlinkLookup, upfVars
  <2>6. UNCHANGED vars => UNCHANGED quic_client_hash
    BY DEF vars, upfVars
  <2> HIDE DEF d, e
  <2> QED BY <2>1, <2>2, <2>3, <2>4, <2>5, <2>6 DEF Next
<1> HIDE DEF d, e
<1>7. peer'[e] = v /\ AddrOf(owner'[e]) = a
  BY <1>2, <1>3, <1>4, <1>5, <1>6
<1> QED BY <1>7 DEF e

(* Both ends keep their state consistent, wherever connections end: in
   particular a gNB that is CONNECTED has a connection of its own, and a UPF
   finds for an address only connections to itself that came from there
   (QuicTask::connectionCallback, ConnectionCallback of quic-server.c). *)
THEOREM EndsCorrect == Spec => []EndInv
<1>1. EndInv /\ [Next]_vars => EndInv'
  BY TypeStep, ConnStep, TableStep DEF EndInv
<1> QED BY <1>1, EndInit, PTL DEF Spec

(* The variables have their types (N3Tunnel!TypeOK). *)
THEOREM TypeCorrect == Spec => []TypeOK
BY EndsCorrect, PTL DEF EndInv

-----------------------------------------------------------------------------
(* The packets. DatagramSend only adds datagrams of its connection. *)
LEMMA SendAdds ==
  ASSUME NEW c, NEW P, DatagramSend(c, P), NEW d, NEW q, <<d, q>> \in net'
  PROVE  <<d, q>> \in net \/ (d = c /\ q \in P)
BY DEF DatagramSend

(* A packet that has not been sent is nowhere. *)
LEMMA Unsent ==
  ASSUME IInv, NEW p \in Packets, dest[p] = NoEnd
  PROVE  /\ \A g \in Gnbs : p \notin m_pendingContexts[g]
         /\ \A c \in Conns : <<c, p>> \notin dl \cup net
<1>1. NoEnd \notin Upfs /\ NoEnd \notin Addrs /\ NoEnd \notin Ends
  BY ConstAssumption DEF Ends
<1> QED BY <1>1 DEF IInv, QueuedInv, HeldInv, DatagramInv

(* A packet is sent once, and a stray one stays stray. *)
LEMMA PacketFixed ==
  ASSUME EndInv, [Next]_vars
  PROVE  /\ \A p \in Packets : dest[p] # NoEnd => dest'[p] = dest[p]
         /\ \A p \in stray : p \in stray'
<1>t. dest \in [Packets -> Ends \cup {NoEnd}]
  BY DEF EndInv, TypeOK
<1> DEFINE Fixed == /\ \A p \in Packets : dest[p] # NoEnd => dest'[p] = dest[p]
                    /\ \A p \in stray : p \in stray'
<1>1. ASSUME NEW p \in Packets, NEW e, dest[p] = NoEnd,
             dest' = [dest EXCEPT ![p] = e], \A q \in stray : q \in stray'
      PROVE  Fixed
  BY <1>1, <1>t
<1>2. ASSUME UNCHANGED dest, \A q \in stray : q \in stray'
      PROVE  Fixed
  BY <1>2
<1>3. ASSUME NEW g \in Gnbs, NEW p \in Packets, NEW u \in Upfs,
             \/ \E c \in Conns : sendConnect(g, p, u, c)
             \/ sendConnectFails(g, p, u) \/ sendQueue(g, p, u) \/ sendNow(g, p, u)
      PROVE  Fixed
  <2>1. dest[p] = NoEnd /\ dest' = [dest EXCEPT ![p] = u]
    BY <1>3 DEF sendConnect, sendConnectFails, sendQueue, sendNow
  <2>2. \A q \in stray : q \in stray'
    BY <1>3 DEF sendConnect, sendConnectFails, sendQueue, sendNow, MarkStray
  <2> HIDE DEF Fixed
  <2> QED BY <1>1, <2>1, <2>2
<1>4. ASSUME NEW g \in Gnbs, \/ callbackConnected(g) \/ callbackShutdown(g)
                             \/ \E p \in Packets : callbackReceived(g, p)
      PROVE  Fixed
  BY <1>4, <1>2 DEF callbackConnected, callbackShutdown, callbackReceived
<1>5. ASSUME NEW c \in Conns, \/ serverAlloc(c) \/ serverNode(c)
                              \/ serverRegister(c) \/ serverShutdown(c)
      PROVE  Fixed
  BY <1>5, <1>2 DEF serverAlloc, serverNode, serverRegister, serverShutdown
<1>6. ASSUME NEW u \in Upfs, serverRestart(u)
      PROVE  Fixed
  BY <1>6, <1>2 DEF serverRestart
<1>7. ASSUME NEW u \in Upfs, NEW a \in Addrs, NEW p \in Packets, downlinkLookup(u, a, p)
      PROVE  Fixed
  BY <1>7, <1>1 DEF downlinkLookup
<1>8. ASSUME NEW c \in Conns, NEW p \in Packets,
             \/ \E b \in Conns : handleReused(c, b, p)
             \/ downlinkSend(c, p) \/ handle_uplink(c, p) \/ datagramLost(c, p)
      PROVE  Fixed
  BY <1>8, <1>2 DEF handleReused, downlinkSend, handle_uplink, datagramLost
<1>9. UNCHANGED vars => Fixed
  BY <1>2 DEF vars
<1> HIDE DEF Fixed
<1>10. Fixed
  BY <1>3, <1>4, <1>5, <1>6, <1>7, <1>8, <1>9 DEF Next
<1> QED BY <1>10 DEF Fixed

LEMMA QueuedStep == IInv /\ [Next]_vars => QueuedInv'
<1> SUFFICES ASSUME IInv, [Next]_vars, NEW g \in Gnbs, NEW p \in m_pendingContexts'[g]
             PROVE  /\ dest'[p] \in Upfs
                    /\ m_connection'[g] # NoConn =>
                         p \in stray' \/ dest'[p] = peer'[m_connection'[g]]
  BY DEF QueuedInv
<1> DEFINE Goal == /\ dest'[p] \in Upfs
                   /\ m_connection'[g] # NoConn =>
                        p \in stray' \/ dest'[p] = peer'[m_connection'[g]]
<1>t. EndInv /\ TypeOK /\ QueuedInv /\ TypeOK'
  BY TypeStep DEF IInv, EndInv
<1>p. p \in Packets
  BY <1>t DEF TypeOK
<1>n. NoEnd \notin Upfs /\ NoEnd \notin Gnbs
  BY ConstAssumption DEF Ends
<1>f. ASSUME p \in m_pendingContexts[g], m_connection'[g] = m_connection[g]
      PROVE  Goal
  <2>1. dest[p] \in Upfs /\ dest'[p] = dest[p]
    BY <1>f, <1>t, <1>p, <1>n, PacketFixed DEF QueuedInv
  <2>2. ASSUME m_connection'[g] # NoConn
        PROVE  p \in stray' \/ dest'[p] = peer'[m_connection'[g]]
    <3>1. m_connection[g] \in Conns /\ owner[m_connection[g]] = g
      BY <1>f, <1>t, <2>2 DEF TypeOK, EndInv, GnbEndConsistent
    <3>2. peer'[m_connection[g]] = peer[m_connection[g]]
      BY <1>t, <1>n, <3>1, ConnFixed
    <3>3. p \in stray \/ dest[p] = peer[m_connection[g]]
      BY <1>f, <1>t, <2>2 DEF QueuedInv
    <3> QED BY <1>f, <1>t, <2>1, <3>2, <3>3, PacketFixed
  <2> QED BY <2>1, <2>2
<1>1. ASSUME NEW h \in Gnbs, NEW q \in Packets, NEW u \in Upfs, NEW c \in Conns,
             sendConnect(h, q, u, c)
      PROVE  Goal
  <2>1. CASE h = g
    <3>1. m_pendingContexts[g] = {}
      BY <1>1, <1>t, <2>1 DEF sendConnect, EndInv, GnbEndConsistent
    <3>2. p = q
      BY <1>1, <1>t, <2>1, <3>1 DEF sendConnect, TypeOK
    <3> QED BY <1>1, <1>t, <2>1, <3>2 DEF sendConnect, TypeOK
  <2>2. CASE h # g
    <3>1. p \in m_pendingContexts[g] /\ m_connection'[g] = m_connection[g]
      BY <1>1, <1>t, <2>2 DEF sendConnect, TypeOK
    <3> QED BY <1>f, <3>1
  <2> HIDE DEF Goal
  <2> QED BY <2>1, <2>2
<1>2. ASSUME NEW h \in Gnbs, NEW q \in Packets, NEW u \in Upfs,
             sendConnectFails(h, q, u) \/ sendQueue(h, q, u)
      PROVE  Goal
  <2>1. /\ m_pendingContexts' = [m_pendingContexts EXCEPT ![h] = @ \cup {q}]
        /\ UNCHANGED <<m_connection, peer>> /\ dest' = [dest EXCEPT ![q] = u]
    BY <1>2 DEF sendConnectFails, sendQueue
  <2>2. CASE p \in m_pendingContexts[g]
    BY <1>f, <2>1, <2>2
  <2>3. CASE p \notin m_pendingContexts[g]
    <3>1. h = g /\ p = q
      BY <1>t, <2>1, <2>3 DEF TypeOK
    <3>2. dest'[p] = u
      BY <1>t, <2>1, <3>1 DEF TypeOK
    <3>3. CASE sendConnectFails(h, q, u)
      <4>1. m_connection'[g] = NoConn
        BY <1>t, <3>1, <3>3 DEF sendConnectFails, EndInv, GnbEndConsistent
      <4> QED BY <3>2, <4>1
    <3>4. CASE sendQueue(h, q, u)
      BY <2>1, <3>1, <3>2, <3>4 DEF sendQueue, MarkStray
    <3> HIDE DEF Goal
    <3> QED BY <1>2, <3>3, <3>4
  <2> HIDE DEF Goal
  <2> QED BY <2>2, <2>3
<1>3. ASSUME NEW h \in Gnbs, callbackConnected(h) \/ callbackShutdown(h)
      PROVE  Goal
  <2>1. h # g /\ p \in m_pendingContexts[g]
    BY <1>3, <1>t DEF callbackConnected, callbackShutdown, TypeOK
  <2>2. m_connection'[g] = m_connection[g]
    BY <1>3, <1>t, <2>1 DEF callbackConnected, callbackShutdown, TypeOK
  <2> QED BY <1>f, <2>1, <2>2
<1>4. ASSUME UNCHANGED <<m_pendingContexts, m_connection>>
      PROVE  Goal
  BY <1>f, <1>4
<1> HIDE DEF Goal
<1>5. ASSUME NEW h \in Gnbs, NEW q \in Packets, callbackReceived(h, q)
      PROVE  Goal
  BY <1>4, <1>5 DEF callbackReceived, gnbVars
<1>6. ASSUME NEW h \in Gnbs, NEW q \in Packets, NEW u \in Upfs, sendNow(h, q, u)
      PROVE  Goal
  BY <1>4, <1>6 DEF sendNow, gnbVars
<1>7. ASSUME NEW c \in Conns, \/ serverAlloc(c) \/ serverNode(c)
                              \/ serverRegister(c) \/ serverShutdown(c)
      PROVE  Goal
  BY <1>4, <1>7 DEF serverAlloc, serverNode, serverRegister, serverShutdown, gnbVars
<1>8. ASSUME NEW u \in Upfs, \/ serverRestart(u)
                             \/ \E a \in Addrs, q \in Packets : downlinkLookup(u, a, q)
      PROVE  Goal
  BY <1>4, <1>8 DEF serverRestart, downlinkLookup, gnbVars
<1>9. ASSUME NEW c \in Conns, NEW q \in Packets,
             \/ \E b \in Conns : handleReused(c, b, q)
             \/ downlinkSend(c, q) \/ handle_uplink(c, q) \/ datagramLost(c, q)
      PROVE  Goal
  BY <1>4, <1>9 DEF handleReused, downlinkSend, handle_uplink, datagramLost, gnbVars
<1>10. UNCHANGED vars => Goal
  BY <1>4 DEF vars, gnbVars
<1>11. Goal
  BY <1>1, <1>2, <1>3, <1>5, <1>6, <1>7, <1>8, <1>9, <1>10 DEF Next
<1> QED BY <1>11 DEF Goal

LEMMA HeldStep == IInv /\ [Next]_vars => HeldInv'
<1> SUFFICES ASSUME IInv, [Next]_vars, NEW c \in Conns, NEW p \in Packets, <<c, p>> \in dl'
             PROVE  /\ owner'[c] # NoEnd /\ dest'[p] \in Addrs
                    /\ p \in stray' \/ dest'[p] = AddrOf(owner'[c])
  BY DEF HeldInv
<1> DEFINE Goal == /\ owner'[c] # NoEnd /\ dest'[p] \in Addrs
                   /\ p \in stray' \/ dest'[p] = AddrOf(owner'[c])
<1>t. EndInv /\ TypeOK /\ HeldInv
  BY DEF IInv, EndInv
<1>n. NoEnd \notin Addrs
  BY ConstAssumption DEF Ends
<1>f. ASSUME <<c, p>> \in dl
      PROVE  Goal
  <2>1. owner[c] # NoEnd /\ dest[p] \in Addrs /\ (p \in stray \/ dest[p] = AddrOf(owner[c]))
    BY <1>f, <1>t DEF HeldInv
  <2>2. owner'[c] = owner[c]
    BY <1>t, <2>1, ConnFixed
  <2>3. dest'[p] = dest[p] /\ (p \in stray => p \in stray')
    BY <1>t, <1>n, <2>1, PacketFixed
  <2> QED BY <2>1, <2>2, <2>3
<1>1. ASSUME NEW u \in Upfs, NEW a \in Addrs, NEW q \in Packets, downlinkLookup(u, a, q)
      PROVE  Goal
  <2>1. CASE <<c, p>> \in dl
    BY <1>f, <2>1
  <2>2. CASE <<c, p>> \notin dl
    <3>1. PICK d \in Found(u, a) : dl' = IF d = NoConn THEN dl ELSE dl \cup {<<d, q>>}
      BY <1>1 DEF downlinkLookup
    <3>2. c = d /\ p = q /\ d # NoConn
      BY <2>2, <3>1
    <3>3. owner[c] \in Gnbs /\ (u \notin raced => AddrOf(owner[c]) = a)
      BY <1>t, <3>2, FoundFact
    <3>4. dest'[p] = a /\ (u \in raced => p \in stray') /\ UNCHANGED owner
      BY <1>1, <1>t, <3>2 DEF downlinkLookup, TypeOK, gnbVars
    <3>5. owner'[c] # NoEnd
      BY <3>3, <3>4, ConstAssumption
    <3> QED BY <3>3, <3>4, <3>5
  <2> HIDE DEF Goal
  <2> QED BY <2>1, <2>2
<1>2. ASSUME NEW b \in Conns, NEW d \in Conns, NEW q \in Packets, handleReused(b, d, q)
      PROVE  Goal
  <2>1. CASE <<c, p>> \in dl
    BY <1>f, <2>1
  <2>2. CASE <<c, p>> \notin dl
    <3>1. c = d /\ p = q
      BY <1>2, <2>2 DEF handleReused
    <3>2. owner[c] # NoEnd
      BY <1>2, <1>t, <3>1 DEF handleReused, EndInv, ConnInv
    <3>3. dest[p] \in Addrs
      BY <1>2, <1>t, <3>1 DEF handleReused, HeldInv
    <3>4. p \in stray' /\ UNCHANGED <<owner, dest>>
      BY <1>2, <3>1 DEF handleReused, gnbVars
    <3> QED BY <3>2, <3>3, <3>4
  <2> HIDE DEF Goal
  <2> QED BY <2>1, <2>2
<1>3. ASSUME dl' \subseteq dl
      PROVE  Goal
  BY <1>f, <1>3
<1> HIDE DEF Goal
<1>4. ASSUME NEW g \in Gnbs, NEW q \in Packets, NEW u \in Upfs,
             \/ \E d \in Conns : sendConnect(g, q, u, d)
             \/ sendConnectFails(g, q, u) \/ sendQueue(g, q, u) \/ sendNow(g, q, u)
      PROVE  Goal
  BY <1>3, <1>4 DEF sendConnect, sendConnectFails, sendQueue, sendNow
<1>5. ASSUME NEW g \in Gnbs, \/ callbackConnected(g) \/ callbackShutdown(g)
                             \/ \E q \in Packets : callbackReceived(g, q)
      PROVE  Goal
  BY <1>3, <1>5 DEF callbackConnected, callbackShutdown, callbackReceived
<1>6. ASSUME NEW d \in Conns, \/ serverAlloc(d) \/ serverNode(d)
                              \/ serverRegister(d) \/ serverShutdown(d)
      PROVE  Goal
  BY <1>3, <1>6 DEF serverAlloc, serverNode, serverRegister, serverShutdown
<1>7. ASSUME NEW u \in Upfs, serverRestart(u)
      PROVE  Goal
  BY <1>3, <1>7 DEF serverRestart
<1>8. ASSUME NEW d \in Conns, NEW q \in Packets,
             downlinkSend(d, q) \/ handle_uplink(d, q) \/ datagramLost(d, q)
      PROVE  Goal
  BY <1>3, <1>8 DEF downlinkSend, handle_uplink, datagramLost
<1>9. UNCHANGED vars => Goal
  BY <1>3 DEF vars
<1>10. Goal
  BY <1>1, <1>2, <1>4, <1>5, <1>6, <1>7, <1>8, <1>9 DEF Next
<1> QED BY <1>10 DEF Goal

LEMMA DatagramStep == IInv /\ [Next]_vars => DatagramInv'
<1> SUFFICES ASSUME IInv, [Next]_vars, NEW c \in Conns, NEW p \in Packets, <<c, p>> \in net'
             PROVE  /\ owner'[c] # NoEnd /\ dest'[p] \in Ends
                    /\ p \in stray' \/ dest'[p] = peer'[c] \/ dest'[p] = AddrOf(owner'[c])
  BY DEF DatagramInv
<1> DEFINE Goal == /\ owner'[c] # NoEnd /\ dest'[p] \in Ends
                   /\ p \in stray' \/ dest'[p] = peer'[c] \/ dest'[p] = AddrOf(owner'[c])
<1>t. EndInv /\ TypeOK /\ QueuedInv /\ HeldInv /\ DatagramInv
  BY DEF IInv, EndInv
<1>n. NoEnd \notin Ends /\ NoEnd \notin Gnbs
  BY ConstAssumption
<1>s. ASSUME owner[c] # NoEnd, dest[p] \in Ends,
             p \in stray \/ dest[p] = peer[c] \/ dest[p] = AddrOf(owner[c])
      PROVE  Goal
  <2>1. owner'[c] = owner[c] /\ peer'[c] = peer[c]
    BY <1>s, <1>t, ConnFixed
  <2>2. dest'[p] = dest[p] /\ (p \in stray => p \in stray')
    BY <1>s, <1>t, <1>n, PacketFixed
  <2> QED BY <1>s, <2>1, <2>2
<1>f. ASSUME <<c, p>> \in net
      PROVE  Goal
  <2>1. /\ owner[c] # NoEnd /\ dest[p] \in Ends
        /\ p \in stray \/ dest[p] = peer[c] \/ dest[p] = AddrOf(owner[c])
    BY <1>f, <1>t DEF DatagramInv
  <2> HIDE DEF Goal
  <2> QED BY <1>s, <2>1
<1>1. ASSUME NEW g \in Gnbs, NEW q \in Packets, NEW u \in Upfs, sendNow(g, q, u)
      PROVE  Goal
  <2>1. CASE <<c, p>> \in net
    BY <1>f, <2>1
  <2>2. CASE <<c, p>> \notin net
    <3>1. c = m_connection[g] /\ p = q
      BY <1>1, <2>2, SendAdds DEF sendNow
    <3>2. c # NoConn /\ owner[c] = g
      BY <1>1, <1>t, <3>1 DEF sendNow, EndInv, GnbEndConsistent
    <3>3. dest'[p] = u /\ UNCHANGED <<owner, peer>>
      BY <1>1, <1>t, <3>1 DEF sendNow, TypeOK, gnbVars
    <3>4. p \in stray' \/ peer[c] = u
      BY <1>1, <3>1, <3>2 DEF sendNow, MarkStray
    <3>5. u \in Ends
      BY DEF Ends
    <3> QED BY <1>n, <3>2, <3>3, <3>4, <3>5
  <2> HIDE DEF Goal
  <2> QED BY <2>1, <2>2
<1>2. ASSUME NEW g \in Gnbs, callbackConnected(g)
      PROVE  Goal
  <2>1. CASE <<c, p>> \in net
    BY <1>f, <2>1
  <2>2. CASE <<c, p>> \notin net
    <3>1. c = m_connection[g] /\ p \in m_pendingContexts[g]
      BY <1>2, <2>2, SendAdds DEF callbackConnected
    <3>2. c # NoConn /\ owner[c] = g
      BY <1>2, <1>t, <3>1 DEF callbackConnected, EndInv, GnbEndConsistent
    <3>3. dest[p] \in Upfs /\ (p \in stray \/ dest[p] = peer[c])
      BY <1>t, <3>1, <3>2 DEF QueuedInv
    <3>4. dest[p] \in Ends
      BY <3>3 DEF Ends
    <3> HIDE DEF Goal
    <3> QED BY <1>s, <1>n, <3>2, <3>3, <3>4
  <2> HIDE DEF Goal
  <2> QED BY <2>1, <2>2
<1>3. ASSUME NEW d \in Conns, NEW q \in Packets, downlinkSend(d, q)
      PROVE  Goal
  <2>1. CASE <<c, p>> \in net
    BY <1>f, <2>1
  <2>2. CASE <<c, p>> \notin net
    <3>1. c = d /\ p = q
      BY <1>3, <2>2, SendAdds DEF downlinkSend
    <3>2. owner[c] # NoEnd /\ dest[p] \in Addrs /\ (p \in stray \/ dest[p] = AddrOf(owner[c]))
      BY <1>3, <1>t, <3>1 DEF downlinkSend, HeldInv
    <3>3. dest[p] \in Ends
      BY <3>2 DEF Ends
    <3> HIDE DEF Goal
    <3> QED BY <1>s, <3>2, <3>3
  <2> HIDE DEF Goal
  <2> QED BY <2>1, <2>2
<1>4. ASSUME net' \subseteq net
      PROVE  Goal
  BY <1>f, <1>4
<1> HIDE DEF Goal
<1>5. ASSUME NEW g \in Gnbs, NEW q \in Packets, NEW u \in Upfs,
             \/ \E d \in Conns : sendConnect(g, q, u, d)
             \/ sendConnectFails(g, q, u) \/ sendQueue(g, q, u)
      PROVE  Goal
  BY <1>4, <1>5 DEF sendConnect, sendConnectFails, sendQueue
<1>6. ASSUME NEW g \in Gnbs, \/ callbackShutdown(g)
                             \/ \E q \in Packets : callbackReceived(g, q)
      PROVE  Goal
  BY <1>4, <1>6 DEF callbackShutdown, callbackReceived
<1>7. ASSUME NEW d \in Conns, \/ serverAlloc(d) \/ serverNode(d)
                              \/ serverRegister(d) \/ serverShutdown(d)
      PROVE  Goal
  BY <1>4, <1>7 DEF serverAlloc, serverNode, serverRegister, serverShutdown
<1>8. ASSUME NEW u \in Upfs, \/ serverRestart(u)
                             \/ \E a \in Addrs, q \in Packets : downlinkLookup(u, a, q)
      PROVE  Goal
  BY <1>4, <1>8 DEF serverRestart, downlinkLookup
<1>9. ASSUME NEW d \in Conns, NEW q \in Packets,
             \/ \E b \in Conns : handleReused(d, b, q)
             \/ handle_uplink(d, q) \/ datagramLost(d, q)
      PROVE  Goal
  BY <1>4, <1>9 DEF handleReused, handle_uplink, datagramLost
<1>10. UNCHANGED vars => Goal
  BY <1>4 DEF vars
<1>11. Goal
  BY <1>1, <1>2, <1>3, <1>5, <1>6, <1>7, <1>8, <1>9, <1>10 DEF Next
<1> QED BY <1>11 DEF Goal

LEMMA OnceStep == IInv /\ [Next]_vars => OncePerPacket'
<1> SUFFICES ASSUME IInv, [Next]_vars PROVE OncePerPacket'
  OBVIOUS
<1>t. EndInv /\ TypeOK /\ OncePerPacket
  BY DEF IInv, EndInv
<1>p. m_pendingContexts \in [Gnbs -> SUBSET Packets]
  BY <1>t DEF TypeOK
(* A packet that leaves a place, or goes from one to another of its kind. *)
<1>m. ASSUME \A g \in Gnbs : m_pendingContexts'[g] \subseteq m_pendingContexts[g],
             dl' \subseteq dl, net' \subseteq net
      PROVE  OncePerPacket'
  BY <1>m, <1>t, <1>p DEF OncePerPacket
(* A packet that has not been anywhere is queued. *)
<1>q. ASSUME NEW g \in Gnbs, NEW p \in Packets, dest[p] = NoEnd, UNCHANGED <<dl, net>>,
             m_pendingContexts' = [m_pendingContexts EXCEPT ![g] = @ \cup {p}]
      PROVE  OncePerPacket'
  <2>1. (\A h \in Gnbs : p \notin m_pendingContexts[h])
        /\ (\A c \in Conns : <<c, p>> \notin dl \cup net)
    BY <1>q, Unsent
  <2>2. \A h \in Gnbs : m_pendingContexts'[h] =
          IF h = g THEN m_pendingContexts[h] \cup {p} ELSE m_pendingContexts[h]
    BY <1>q, <1>p
  <2> QED BY <1>q, <1>t, <1>p, <2>1, <2>2 DEF OncePerPacket
(* A packet that is on no other connection and in no queue is handed to
   connection c or sent on it. *)
<1>c. ASSUME NEW c \in Conns, NEW p \in Packets, UNCHANGED m_pendingContexts,
             \A g \in Gnbs : p \notin m_pendingContexts[g],
             \A d \in Conns : <<d, p>> \in dl \cup net => d = c,
             \A d, q : <<d, q>> \in dl' \cup net' =>
                         <<d, q>> \in dl \cup net \/ (d = c /\ q = p),
             \A d \in Conns, q \in Packets : ~(<<d, q>> \in dl' /\ <<d, q>> \in net')
      PROVE  OncePerPacket'
  <2>1. ASSUME NEW a \in Conns, NEW b \in Conns, NEW q \in Packets,
               <<a, q>> \in dl' \cup net', <<b, q>> \in dl' \cup net'
        PROVE  a = b
    <3>1. CASE q = p
      BY <1>c, <2>1, <3>1
    <3>2. CASE q # p
      BY <1>c, <1>t, <2>1, <3>2 DEF OncePerPacket
    <3> QED BY <3>1, <3>2
  <2>2. ASSUME NEW g \in Gnbs, NEW d \in Conns, NEW q \in m_pendingContexts'[g],
               <<d, q>> \in dl' \cup net'
        PROVE  FALSE
    BY <1>c, <1>t, <2>2 DEF OncePerPacket
  <2> QED BY <1>c, <1>t, <2>1, <2>2 DEF OncePerPacket
<1>1. ASSUME NEW g \in Gnbs, NEW p \in Packets, NEW u \in Upfs,
             \/ \E c \in Conns : sendConnect(g, p, u, c)
             \/ sendConnectFails(g, p, u) \/ sendQueue(g, p, u)
      PROVE  OncePerPacket'
  BY <1>1, <1>q DEF sendConnect, sendConnectFails, sendQueue
<1>2. ASSUME NEW g \in Gnbs, NEW p \in Packets, NEW u \in Upfs, sendNow(g, p, u)
      PROVE  OncePerPacket'
  <2>1. (\A h \in Gnbs : p \notin m_pendingContexts[h])
        /\ (\A d \in Conns : <<d, p>> \notin dl \cup net)
    BY <1>2, Unsent DEF sendNow
  <2>2. m_connection[g] \in Conns
    BY <1>2, <1>t DEF sendNow, TypeOK, EndInv, GnbEndConsistent
  <2>3. \A d, q : <<d, q>> \in net' => <<d, q>> \in net \/ (d = m_connection[g] /\ q = p)
    BY <1>2, SendAdds DEF sendNow
  <2>4. UNCHANGED <<m_pendingContexts, dl>>
    BY <1>2 DEF sendNow, gnbVars
  <2>5. \A d \in Conns, q \in Packets : ~(<<d, q>> \in dl' /\ <<d, q>> \in net')
    BY <1>t, <2>1, <2>3, <2>4 DEF OncePerPacket
  <2>6. \A d, q : <<d, q>> \in dl' \cup net' =>
                    <<d, q>> \in dl \cup net \/ (d = m_connection[g] /\ q = p)
    BY <2>3, <2>4
  <2> QED BY <1>c, <2>1, <2>2, <2>4, <2>5, <2>6
<1>3. ASSUME NEW g \in Gnbs, callbackConnected(g)
      PROVE  OncePerPacket'
  <2> DEFINE c == m_connection[g]
  <2>1. c \in Conns
    BY <1>3, <1>t DEF callbackConnected, TypeOK
  <2>2. \A d, q : <<d, q>> \in net' =>
          <<d, q>> \in net \/ (d = c /\ q \in m_pendingContexts[g])
    BY <1>3, SendAdds DEF callbackConnected
  <2>3. \A h \in Gnbs : m_pendingContexts'[h] = IF h = g THEN {} ELSE m_pendingContexts[h]
    BY <1>3, <1>p DEF callbackConnected
  <2>4. UNCHANGED dl
    BY <1>3 DEF callbackConnected
  <2> HIDE DEF c
  <2>5. ASSUME NEW a \in Conns, NEW b \in Conns, NEW p \in Packets,
               <<a, p>> \in dl' \cup net', <<b, p>> \in dl' \cup net'
        PROVE  a = b
    <3>1. CASE p \in m_pendingContexts[g]
      BY <1>t, <2>2, <2>4, <2>5, <3>1 DEF OncePerPacket
    <3>2. CASE p \notin m_pendingContexts[g]
      BY <1>t, <2>2, <2>4, <2>5, <3>2 DEF OncePerPacket
    <3> QED BY <3>1, <3>2
  <2>6. \A d \in Conns, p \in Packets : ~(<<d, p>> \in dl' /\ <<d, p>> \in net')
    BY <1>t, <2>2, <2>4 DEF OncePerPacket
  <2>7. ASSUME NEW h \in Gnbs, NEW a \in Conns, NEW p \in m_pendingContexts'[h],
               <<a, p>> \in dl' \cup net'
        PROVE  FALSE
    <3>1. h # g /\ p \in m_pendingContexts[h] /\ p \in Packets
      BY <1>p, <2>3, <2>7
    <3>2. <<a, p>> \notin dl \cup net
      BY <1>t, <3>1 DEF OncePerPacket
    <3>3. p \in m_pendingContexts[g]
      BY <2>2, <2>4, <2>7, <3>2
    <3> QED BY <1>t, <3>1, <3>3 DEF OncePerPacket
  <2>8. \A h, k \in Gnbs : \A p \in m_pendingContexts'[h] :
          p \in m_pendingContexts'[k] => h = k
    BY <1>t, <2>3 DEF OncePerPacket
  <2> QED BY <2>5, <2>6, <2>7, <2>8 DEF OncePerPacket
<1>4. ASSUME NEW u \in Upfs, NEW a \in Addrs, NEW p \in Packets, downlinkLookup(u, a, p)
      PROVE  OncePerPacket'
  <2>1. PICK c \in Found(u, a) : dl' = IF c = NoConn THEN dl ELSE dl \cup {<<c, p>>}
    BY <1>4 DEF downlinkLookup
  <2>2. UNCHANGED <<m_pendingContexts, net>>
    BY <1>4 DEF downlinkLookup, gnbVars
  <2>3. CASE c = NoConn
    BY <1>m, <2>1, <2>2, <2>3
  <2>4. CASE c # NoConn
    <3>1. c \in Conns
      BY <1>t, <2>4, FoundFact
    <3>2. (\A h \in Gnbs : p \notin m_pendingContexts[h])
          /\ (\A d \in Conns : <<d, p>> \notin dl \cup net)
      BY <1>4, Unsent DEF downlinkLookup
    <3>3. \A d, q : <<d, q>> \in dl' \cup net' =>
                      <<d, q>> \in dl \cup net \/ (d = c /\ q = p)
      BY <2>1, <2>2, <2>4
    <3>4. \A d \in Conns, q \in Packets : ~(<<d, q>> \in dl' /\ <<d, q>> \in net')
      BY <1>t, <2>1, <2>2, <2>4, <3>2 DEF OncePerPacket
    <3> QED BY <1>c, <2>2, <3>1, <3>2, <3>3, <3>4
  <2> QED BY <2>3, <2>4
<1>5. ASSUME NEW c \in Conns, NEW p \in Packets, downlinkSend(c, p)
      PROVE  OncePerPacket'
  <2>1. <<c, p>> \in dl /\ dl' = dl \ {<<c, p>>} /\ UNCHANGED m_pendingContexts
    BY <1>5 DEF downlinkSend, gnbVars
  <2>2. \A d, q : <<d, q>> \in net' => <<d, q>> \in net \/ (d = c /\ q = p)
    BY <1>5, SendAdds DEF downlinkSend
  <2>3. \A d, q : <<d, q>> \in dl' \cup net' =>
                    <<d, q>> \in dl \cup net \/ (d = c /\ q = p)
    BY <2>1, <2>2
  <2>4. /\ \A h \in Gnbs : p \notin m_pendingContexts[h]
        /\ \A d \in Conns : <<d, p>> \in dl \cup net => d = c
    BY <1>t, <2>1 DEF OncePerPacket
  <2>5. \A d \in Conns, q \in Packets : ~(<<d, q>> \in dl' /\ <<d, q>> \in net')
    BY <1>t, <2>1, <2>2 DEF OncePerPacket
  <2> QED BY <1>c, <2>1, <2>3, <2>4, <2>5
<1>6. ASSUME NEW c \in Conns, NEW d \in Conns, NEW p \in Packets, handleReused(c, d, p)
      PROVE  OncePerPacket'
  <2>1. /\ <<c, p>> \in dl /\ dl' = (dl \ {<<c, p>>}) \cup {<<d, p>>}
        /\ UNCHANGED <<m_pendingContexts, net>>
    BY <1>6 DEF handleReused, gnbVars
  <2>2. /\ \A h \in Gnbs : p \notin m_pendingContexts[h]
        /\ \A b \in Conns : <<b, p>> \in dl \cup net => b = c
        /\ \A b \in Conns : <<b, p>> \notin net
    BY <1>t, <2>1 DEF OncePerPacket
  <2>3. \A b, q : <<b, q>> \in dl' =>
          (<<b, q>> \in dl /\ <<b, q>> # <<c, p>>) \/ (b = d /\ q = p)
    BY <2>1
  <2>4. ASSUME NEW a \in Conns, NEW b \in Conns, NEW q \in Packets,
               <<a, q>> \in dl' \cup net', <<b, q>> \in dl' \cup net'
        PROVE  a = b
    <3>1. CASE q = p
      BY <2>1, <2>2, <2>3, <2>4, <3>1
    <3>2. CASE q # p
      BY <1>t, <2>1, <2>3, <2>4, <3>2 DEF OncePerPacket
    <3> QED BY <3>1, <3>2
  <2>5. \A b \in Conns, q \in Packets : ~(<<b, q>> \in dl' /\ <<b, q>> \in net')
    BY <1>t, <2>1, <2>2, <2>3 DEF OncePerPacket
  <2>6. \A h \in Gnbs, b \in Conns : \A q \in m_pendingContexts'[h] : <<b, q>> \notin dl' \cup net'
    BY <1>t, <2>1, <2>2, <2>3 DEF OncePerPacket
  <2> QED BY <1>t, <2>1, <2>4, <2>5, <2>6 DEF OncePerPacket
<1>7. ASSUME NEW g \in Gnbs, \/ callbackShutdown(g)
                             \/ \E p \in Packets : callbackReceived(g, p)
      PROVE  OncePerPacket'
  BY <1>m, <1>7, <1>p DEF callbackShutdown, callbackReceived, gnbVars
<1>8. ASSUME NEW c \in Conns, \/ serverAlloc(c) \/ serverNode(c)
                              \/ serverRegister(c) \/ serverShutdown(c)
      PROVE  OncePerPacket'
  BY <1>m, <1>8 DEF serverAlloc, serverNode, serverRegister, serverShutdown, gnbVars
<1>9. ASSUME NEW u \in Upfs, serverRestart(u)
      PROVE  OncePerPacket'
  BY <1>m, <1>9 DEF serverRestart, gnbVars
<1>10. ASSUME NEW c \in Conns, NEW p \in Packets, handle_uplink(c, p) \/ datagramLost(c, p)
       PROVE  OncePerPacket'
  BY <1>m, <1>10 DEF handle_uplink, datagramLost, gnbVars
<1>11. UNCHANGED vars => OncePerPacket'
  BY <1>m DEF vars, gnbVars
<1> QED
  BY <1>1, <1>2, <1>3, <1>4, <1>5, <1>6, <1>7, <1>8, <1>9, <1>10, <1>11 DEF Next

(* A packet is in at most one place, and on its way to where it was sent, or
   stray (QuicTask::send, quic_server_send_downlink). *)
THEOREM PacketsCorrect == Spec => []IInv
<1>1. Init => IInv
  BY EndInit DEF Init, IInv, QueuedInv, HeldInv, DatagramInv, OncePerPacket
<1>2. IInv /\ [Next]_vars => IInv'
  BY TypeStep, ConnStep, TableStep, QueuedStep, HeldStep, DatagramStep, OnceStep
     DEF IInv, EndInv
<1> QED BY <1>1, <1>2, PTL DEF Spec

(* Every step of the tunnel is a step of the channel or leaves it alone. *)
LEMMA ChannelStep ==
  ASSUME IInv, IInv', [Next]_vars
  PROVE  [Chan!ChanNext]_(Chan!cvars)
<1> USE DEF Chan!ChanNext, Chan!cvars
<1>a. TypeOK /\ TypeOK' /\ EndInv /\ DatagramInv /\ OncePerPacket
  BY DEF IInv, EndInv
<1>b. Transit \subseteq Packets /\ Transit' \subseteq Packets
  BY DEF Transit
<1>n. NoEnd \notin Ends /\ Addrs \cap Upfs = {}
  BY ConstAssumption
<1>1. ASSUME NEW p \in Packets, NEW e \in Ends, dest[p] = NoEnd,
             dest' = [dest EXCEPT ![p] = e], UNCHANGED got,
             stray' \in {stray, stray \cup {p}},
             Transit' \subseteq Transit \cup {p}
      PROVE  Chan!ChanNext
  <2>1. Chan!Submit(p, e, Transit')
    BY <1>1 DEF Chan!Submit
  <2> QED BY <1>b, <2>1
<1>2. ASSUME UNCHANGED <<dest, stray, got>>, Transit' \subseteq Transit
      PROVE  Chan!ChanNext
  <2>1. Chan!Lose(Transit')
    BY <1>2 DEF Chan!Lose
  <2> QED BY <1>b, <2>1
<1>3. ASSUME NEW c \in Conns, NEW p \in Packets, NEW e \in Ends, <<c, p>> \in net,
             net' = net \ {<<c, p>>}, UNCHANGED <<m_pendingContexts, dl, dest, stray>>,
             got' = [got EXCEPT ![e] = @ \cup {p}], e = dest[p] \/ p \in stray
      PROVE  Chan!ChanNext
  <2>1. p \in Transit
    BY <1>3 DEF Transit
  <2>2. p \notin Transit'
    BY <1>3, <1>a DEF Transit, OncePerPacket
  <2>3. \A q \in Packets : q # p => (q \in Transit' <=> q \in Transit)
    BY <1>3 DEF Transit
  <2>4. Transit' = Transit \ {p}
    BY <1>b, <2>2, <2>3
  <2>5. Chan!Deliver(p, e)
    BY <1>3, <2>1, <2>4 DEF Chan!Deliver
  <2> QED BY <2>5
<1>u. \A u \in Upfs : u \in Ends
  BY DEF Ends
<1>4. ASSUME NEW g \in Gnbs, NEW p \in Packets, NEW u \in Upfs,
             \/ \E c \in Conns : sendConnect(g, p, u, c)
             \/ sendConnectFails(g, p, u) \/ sendQueue(g, p, u)
      PROVE  Chan!ChanNext
  <2>1. /\ dest[p] = NoEnd /\ dest' = [dest EXCEPT ![p] = u] /\ UNCHANGED <<dl, net, got>>
        /\ m_pendingContexts' = [m_pendingContexts EXCEPT ![g] = @ \cup {p}]
        /\ stray' \in {stray, stray \cup {p}}
    BY <1>4 DEF sendConnect, sendConnectFails, sendQueue, MarkStray
  <2>2. Transit' \subseteq Transit \cup {p}
    BY <1>a, <2>1 DEF Transit, TypeOK
  <2> QED BY <1>1, <1>u, <2>1, <2>2
<1>5. ASSUME NEW g \in Gnbs, NEW p \in Packets, NEW u \in Upfs, sendNow(g, p, u)
      PROVE  Chan!ChanNext
  <2>1. \A d, q : <<d, q>> \in net' => <<d, q>> \in net \/ q = p
    BY <1>5, SendAdds DEF sendNow
  <2>2. Transit' \subseteq Transit \cup {p}
    BY <1>5, <2>1 DEF Transit, sendNow, gnbVars
  <2>3. /\ dest[p] = NoEnd /\ dest' = [dest EXCEPT ![p] = u] /\ UNCHANGED got
        /\ stray' \in {stray, stray \cup {p}}
    BY <1>5 DEF sendNow, MarkStray
  <2> QED BY <1>1, <1>u, <2>2, <2>3
<1>6. ASSUME NEW g \in Gnbs, callbackConnected(g)
      PROVE  Chan!ChanNext
  <2>1. \A d, q : <<d, q>> \in net' =>
          <<d, q>> \in net \/ q \in m_pendingContexts[g]
    BY <1>6, SendAdds DEF callbackConnected
  <2>2. \A h \in Gnbs : m_pendingContexts'[h] \subseteq m_pendingContexts[h]
    BY <1>6, <1>a DEF callbackConnected, TypeOK
  <2>3. UNCHANGED <<dl, dest, stray, got>>
    BY <1>6 DEF callbackConnected
  <2>4. Transit' \subseteq Transit
    BY <2>1, <2>2, <2>3 DEF Transit
  <2> QED BY <1>2, <2>3, <2>4
<1>7. ASSUME NEW g \in Gnbs, callbackShutdown(g)
      PROVE  Chan!ChanNext
  <2>1. \A h \in Gnbs : m_pendingContexts'[h] \subseteq m_pendingContexts[h]
    BY <1>7, <1>a DEF callbackShutdown, TypeOK
  <2>2. UNCHANGED <<dl, net, dest, stray, got>>
    BY <1>7 DEF callbackShutdown
  <2>3. Transit' \subseteq Transit
    BY <2>1, <2>2 DEF Transit
  <2> QED BY <1>2, <2>2, <2>3
<1>8. ASSUME NEW g \in Gnbs, NEW p \in Packets, callbackReceived(g, p)
      PROVE  Chan!ChanNext
  <2> DEFINE c == m_connection[g]
  <2>1. c \in Conns /\ owner[c] = g
    BY <1>8, <1>a DEF callbackReceived, EndInv, TypeOK, GnbEndConsistent
  <2>2. <<c, p>> \in net /\ dest[p] \in Addrs
    BY <1>8 DEF callbackReceived
  <2>3. peer[c] \in Upfs \cup {NoEnd}
    BY <1>a, <2>1 DEF TypeOK
  <2>4. dest[p] # peer[c]
    BY <1>n, <2>2, <2>3 DEF Ends
  <2>5. p \in stray \/ dest[p] = peer[c] \/ dest[p] = AddrOf(g)
    BY <1>a, <2>1, <2>2 DEF DatagramInv
  <2>6. AddrOf(g) \in Ends
    BY AddrsFact DEF Ends
  <2>7. /\ net' = net \ {<<c, p>>} /\ got' = [got EXCEPT ![AddrOf(g)] = @ \cup {p}]
        /\ UNCHANGED <<m_pendingContexts, dl, dest, stray>>
    BY <1>8 DEF callbackReceived, gnbVars
  <2> HIDE DEF c
  <2> QED BY <1>3, <2>1, <2>2, <2>4, <2>5, <2>6, <2>7
<1>9. ASSUME NEW c \in Conns, NEW p \in Packets, handle_uplink(c, p)
      PROVE  Chan!ChanNext
  <2>1. peer[c] \in Upfs /\ AddrOf(owner[c]) \in Addrs
    BY <1>9, <1>a, OpenFact DEF handle_uplink
  <2>2. <<c, p>> \in net /\ dest[p] \in Upfs
    BY <1>9 DEF handle_uplink
  <2>3. dest[p] # AddrOf(owner[c])
    BY <1>n, <2>1, <2>2
  <2>4. p \in stray \/ dest[p] = peer[c]
    BY <1>a, <2>2, <2>3 DEF DatagramInv
  <2>5. /\ net' = net \ {<<c, p>>} /\ got' = [got EXCEPT ![peer[c]] = @ \cup {p}]
        /\ UNCHANGED <<m_pendingContexts, dl, dest, stray>>
    BY <1>9 DEF handle_uplink, gnbVars
  <2>6. peer[c] \in Ends
    BY <1>u, <2>1
  <2> QED BY <1>3, <2>2, <2>4, <2>5, <2>6
<1>10. ASSUME NEW c \in Conns, NEW p \in Packets, datagramLost(c, p)
       PROVE  Chan!ChanNext
  <2>1. /\ net' = net \ {<<c, p>>}
        /\ UNCHANGED <<m_pendingContexts, dl, dest, stray, got>>
    BY <1>10 DEF datagramLost, gnbVars
  <2>2. Transit' \subseteq Transit
    BY <2>1 DEF Transit
  <2> QED BY <1>2, <2>1, <2>2
<1>11. ASSUME NEW u \in Upfs, serverRestart(u)
       PROVE  Chan!ChanNext
  <2>1. dl' \subseteq dl /\ UNCHANGED <<m_pendingContexts, net, dest, stray, got>>
    BY <1>11 DEF serverRestart, gnbVars
  <2>2. Transit' \subseteq Transit
    BY <2>1 DEF Transit
  <2> QED BY <1>2, <2>1, <2>2
<1>12. ASSUME NEW u \in Upfs, NEW a \in Addrs, NEW p \in Packets, downlinkLookup(u, a, p)
       PROVE  Chan!ChanNext
  <2>1. \A d, q : <<d, q>> \in dl' => <<d, q>> \in dl \/ q = p
    BY <1>12 DEF downlinkLookup
  <2>2. UNCHANGED <<m_pendingContexts, net, got>>
    BY <1>12 DEF downlinkLookup, gnbVars
  <2>3. Transit' \subseteq Transit \cup {p}
    BY <2>1, <2>2 DEF Transit
  <2>4. a \in Ends
    BY DEF Ends
  <2>5. /\ dest[p] = NoEnd /\ dest' = [dest EXCEPT ![p] = a]
        /\ stray' \in {stray, stray \cup {p}}
    BY <1>12 DEF downlinkLookup
  <2> QED BY <1>1, <2>2, <2>3, <2>4, <2>5
<1>13. ASSUME NEW c \in Conns, NEW p \in Packets, downlinkSend(c, p)
       PROVE  Chan!ChanNext
  <2>1. <<c, p>> \in dl /\ dl' \subseteq dl /\ UNCHANGED <<m_pendingContexts, dest, stray, got>>
    BY <1>13 DEF downlinkSend, gnbVars
  <2>2. \A d, q : <<d, q>> \in net' => <<d, q>> \in net \/ q = p
    BY <1>13, SendAdds DEF downlinkSend
  <2>3. Transit' \subseteq Transit
    BY <2>1, <2>2 DEF Transit
  <2> QED BY <1>2, <2>1, <2>3
<1>14. ASSUME NEW c \in Conns, NEW d \in Conns, NEW p \in Packets, handleReused(c, d, p)
       PROVE  Chan!ChanNext
  <2>1. /\ <<c, p>> \in dl /\ dl' = (dl \ {<<c, p>>}) \cup {<<d, p>>}
        /\ stray' = stray \cup {p} /\ UNCHANGED <<m_pendingContexts, net, dest, got>>
    BY <1>14 DEF handleReused, gnbVars
  <2>2. p \in Transit /\ p \in Transit'
    BY <2>1 DEF Transit
  <2>3. \A q \in Packets : q # p => (q \in Transit' <=> q \in Transit)
    BY <2>1 DEF Transit
  <2>4. Transit' = Transit
    BY <1>b, <2>2, <2>3
  <2>5. Chan!GiveUp(p)
    BY <2>1, <2>2, <2>4 DEF Chan!GiveUp
  <2> QED BY <2>5
<1>15. ASSUME UNCHANGED <<m_pendingContexts, dl, net, dest, stray, got>>
       PROVE  UNCHANGED Chan!cvars
  BY <1>15 DEF Transit
<1>16. ASSUME NEW c \in Conns, \/ serverAlloc(c) \/ serverNode(c)
                               \/ serverRegister(c) \/ serverShutdown(c)
       PROVE  UNCHANGED Chan!cvars
  BY <1>15, <1>16 DEF serverAlloc, serverNode, serverRegister, serverShutdown, gnbVars
<1>17. UNCHANGED vars => UNCHANGED Chan!cvars
  BY <1>15 DEF vars, gnbVars
<1> QED
  BY <1>4, <1>5, <1>6, <1>7, <1>8, <1>9, <1>10, <1>11, <1>12, <1>13, <1>14, <1>16,
     <1>17 DEF Next

(* The QUIC tunnel implements the N3 channel (N3Tunnel!ImplementsChannel): a
   packet arrives at most once, and one that is not stray only where it was
   sent to. *)
THEOREM TunnelImplementsChannel == Spec => ImplementsChannel
<1>1. Init => Chan!ChanInit
  BY DEF Init, Chan!ChanInit, Transit
<1>2. IInv /\ IInv' /\ [Next]_vars => [Chan!ChanNext]_(Chan!cvars)
  BY ChannelStep
<1> QED BY <1>1, <1>2, PacketsCorrect, PTL DEF Spec, ImplementsChannel, Chan!ChanSpec
=============================================================================
