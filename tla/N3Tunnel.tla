------------------------------ MODULE N3Tunnel ------------------------------
(***************************************************************************)
(* The two ends of the QUIC tunnel together: QuicTask of every gNB         *)
(* (UERANSIM/src/gnb/quic/task.cpp) and quic-server.c of every UPF         *)
(* (open5gs/src/upf), with the connections between them, which either end  *)
(* may lose at any time without the other noticing.                        *)
(*                                                                         *)
(* A gNB has one connection. It opens it for the first packet it has to    *)
(* send, to the UPF of that packet, and keeps it for the packets of all    *)
(* its sessions. A UPF finds a gNB's connection by the address it came     *)
(* from. The UPF's callbacks and its downlink sends are split where they   *)
(* use what is not protected by quic_client_mutex; on the gNB's side       *)
(* GnbQuic shows that the state, the queue and the connection change       *)
(* together, and a callback is one step. What GnbQuic and UpfQuic check    *)
(* inside one end (contexts, pools, stop) is left out.                     *)
(***************************************************************************)
EXTENDS Naturals, FiniteSets

CONSTANTS Gnbs, Upfs, Packets, Conns, NoConn, NoEnd,
          AddrOf(_)  \* the address a gNB's connections come from

Addrs == {AddrOf(g) : g \in Gnbs}
Ends  == Addrs \cup Upfs

ASSUME ConstAssumption ==
  /\ NoConn \notin Conns
  /\ NoEnd \notin Ends \cup Gnbs
  /\ Addrs \cap Upfs = {}

VARIABLES
  m_quicState,        \* of each gNB
  m_pendingContexts,  \* the packets each gNB has queued
  m_connection,       \* the connection of each gNB
  owner,              \* the gNB that opened a connection
  peer,               \* and the UPF it connects to
  upfEnd,             \* how far the UPF is with the connection
  quic_client_hash,   \* the connection each UPF finds for an address
  dl,                 \* <<c, p>>: quic_server_send_downlink holds c as
                      \* target_connection for packet p
  net,                \* <<c, p>>: packet p is in a datagram of connection c
  dest,               \* where each packet is to go
  got,                \* the packets that arrived at each end
  raced,              \* history: the UPFs in which an ogs_pool_alloc of
                      \* quic_client_pool overlapped another access to it
  stray               \* history: the packets sent on another UPF's connection,
                      \* from a table that races have spoilt, or on a handle
                      \* that was closed after the look-up

gnbVars  == <<m_quicState, m_pendingContexts, m_connection, owner, peer>>
upfVars  == <<upfEnd, quic_client_hash, raced>>
vars == <<gnbVars, upfVars, dl, net, dest, got, stray>>

UpfEnds == {"none", "handshake", "alloc", "node", "up", "closed"}

(* The connections a UPF has open. *)
OpenAt(u) == {c \in Conns : peer[c] = u /\ upfEnd[c] # "closed"}

TypeOK ==
  /\ m_quicState \in [Gnbs -> {"DISCONNECTED", "CONNECTING", "CONNECTED"}]
  /\ m_pendingContexts \in [Gnbs -> SUBSET Packets]
  /\ m_connection \in [Gnbs -> Conns \cup {NoConn}]
  /\ owner \in [Conns -> Gnbs \cup {NoEnd}]
  /\ peer \in [Conns -> Upfs \cup {NoEnd}]
  /\ upfEnd \in [Conns -> UpfEnds]
  /\ quic_client_hash \in [Upfs -> [Addrs -> Conns \cup {NoConn}]]
  /\ dl \subseteq Conns \X Packets
  /\ net \subseteq Conns \X Packets
  /\ dest \in [Packets -> Ends \cup {NoEnd}]
  /\ got \in [Ends -> SUBSET Packets]
  /\ raced \subseteq Upfs
  /\ stray \subseteq Packets

Init ==
  /\ m_quicState = [g \in Gnbs |-> "DISCONNECTED"]
  /\ m_pendingContexts = [g \in Gnbs |-> {}]
  /\ m_connection = [g \in Gnbs |-> NoConn]
  /\ owner = [c \in Conns |-> NoEnd]
  /\ peer = [c \in Conns |-> NoEnd]
  /\ upfEnd = [c \in Conns |-> "none"]
  /\ quic_client_hash = [u \in Upfs |-> [a \in Addrs |-> NoConn]]
  /\ dl = {} /\ net = {}
  /\ dest = [p \in Packets |-> NoEnd]
  /\ got = [e \in Ends |-> {}]
  /\ raced = {} /\ stray = {}

-----------------------------------------------------------------------------
(* A gNB *)

(* DatagramSend on c takes the packets of P and refuses or loses others. *)
DatagramSend(c, P) == \E Q \in SUBSET P : net' = net \cup ({c} \X Q)

(* send() while there is no connection: one is opened to the packet's UPF. *)
sendConnect(g, p, u, c) ==
  /\ m_quicState[g] = "DISCONNECTED"
  /\ dest[p] = NoEnd /\ owner[c] = NoEnd
  /\ dest' = [dest EXCEPT ![p] = u]
  /\ m_quicState' = [m_quicState EXCEPT ![g] = "CONNECTING"]
  /\ m_pendingContexts' = [m_pendingContexts EXCEPT ![g] = @ \cup {p}]
  /\ m_connection' = [m_connection EXCEPT ![g] = c]
  /\ owner' = [owner EXCEPT ![c] = g]
  /\ peer' = [peer EXCEPT ![c] = u]
  /\ upfEnd' = [upfEnd EXCEPT ![c] = "handshake"]
  /\ UNCHANGED <<quic_client_hash, raced, dl, net, got, stray>>

(* The same when ConnectionOpen or ConnectionStart fails: the packet waits for
   a handshake that never comes. A handle that never started counts as none. *)
sendConnectFails(g, p, u) ==
  /\ m_quicState[g] = "DISCONNECTED"
  /\ dest[p] = NoEnd
  /\ dest' = [dest EXCEPT ![p] = u]
  /\ m_quicState' = [m_quicState EXCEPT ![g] = "CONNECTING"]
  /\ m_pendingContexts' = [m_pendingContexts EXCEPT ![g] = @ \cup {p}]
  /\ UNCHANGED <<m_connection, owner, peer, upfVars, dl, net, got, stray>>

(* A packet for u goes into the connection there is, to whichever UPF. *)
MarkStray(g, p, u) ==
  stray' = IF m_connection[g] # NoConn /\ peer[m_connection[g]] # u
           THEN stray \cup {p} ELSE stray

(* send() during the handshake: the packet waits for it. *)
sendQueue(g, p, u) ==
  /\ m_quicState[g] = "CONNECTING"
  /\ dest[p] = NoEnd
  /\ dest' = [dest EXCEPT ![p] = u]
  /\ m_pendingContexts' = [m_pendingContexts EXCEPT ![g] = @ \cup {p}]
  /\ MarkStray(g, p, u)
  /\ UNCHANGED <<m_quicState, m_connection, owner, peer, upfVars, dl, net, got>>

(* send() on the connection there is. *)
sendNow(g, p, u) ==
  /\ m_quicState[g] = "CONNECTED"
  /\ dest[p] = NoEnd
  /\ dest' = [dest EXCEPT ![p] = u]
  /\ DatagramSend(m_connection[g], {p})
  /\ MarkStray(g, p, u)
  /\ UNCHANGED <<gnbVars, upfVars, dl, got>>

(* CONNECTED: the queue is flushed into the connection. *)
callbackConnected(g) ==
  /\ m_quicState[g] = "CONNECTING" /\ m_connection[g] # NoConn
  /\ upfEnd[m_connection[g]] # "closed"
  /\ m_quicState' = [m_quicState EXCEPT ![g] = "CONNECTED"]
  /\ m_pendingContexts' = [m_pendingContexts EXCEPT ![g] = {}]
  /\ DatagramSend(m_connection[g], m_pendingContexts[g])
  /\ UNCHANGED <<m_connection, owner, peer, upfVars, dl, dest, got, stray>>

(* SHUTDOWN_COMPLETE: the handshake failed, or the connection was lost or
   closed by the UPF. The queue is thrown away. *)
callbackShutdown(g) ==
  /\ m_connection[g] # NoConn
  /\ m_connection' = [m_connection EXCEPT ![g] = NoConn]
  /\ m_quicState' = [m_quicState EXCEPT ![g] = "DISCONNECTED"]
  /\ m_pendingContexts' = [m_pendingContexts EXCEPT ![g] = {}]
  /\ UNCHANGED <<owner, peer, upfVars, dl, net, dest, got, stray>>

(* DATAGRAM_RECEIVED, while the connection is the gNB's. *)
callbackReceived(g, p) ==
  /\ m_connection[g] # NoConn
  /\ <<m_connection[g], p>> \in net
  /\ dest[p] \in Addrs
  /\ net' = net \ {<<m_connection[g], p>>}
  /\ got' = [got EXCEPT ![AddrOf(g)] = @ \cup {p}]
  /\ UNCHANGED <<gnbVars, upfVars, dl, dest, stray>>

-----------------------------------------------------------------------------
(* A UPF *)

(* Another callback of c's UPF is inside ogs_pool_alloc. *)
Allocating(c) == \E d \in Conns \ {c} : peer[d] = peer[c] /\ upfEnd[d] = "alloc"

(* CONNECTED, on one of several workers: ogs_pool_alloc, without a mutex,
   reads the head of the ring of free nodes ... *)
serverAlloc(c) ==
  /\ upfEnd[c] = "handshake"
  /\ upfEnd' = [upfEnd EXCEPT ![c] = "alloc"]
  /\ raced' = IF Allocating(c) THEN raced \cup {peer[c]} ELSE raced
  /\ UNCHANGED <<gnbVars, quic_client_hash, dl, net, dest, got, stray>>

(* ... and moves it; the node is filled in with the connection's handle and
   address. Without a race it is the callback's alone (UpfQuic). *)
serverNode(c) ==
  /\ upfEnd[c] = "alloc"
  /\ upfEnd' = [upfEnd EXCEPT ![c] = "node"]
  /\ UNCHANGED <<gnbVars, quic_client_hash, raced, dl, net, dest, got, stray>>

(* Under quic_client_mutex: the node is linked, and found by its address. *)
serverRegister(c) ==
  /\ upfEnd[c] = "node"
  /\ upfEnd' = [upfEnd EXCEPT ![c] = "up"]
  /\ quic_client_hash' = [quic_client_hash EXCEPT ![peer[c]] =
                            [@ EXCEPT ![AddrOf(owner[c])] = c]]
  /\ UNCHANGED <<gnbVars, raced, dl, net, dest, got, stray>>

(* SHUTDOWN_COMPLETE: if the connection is linked, what the table has for its
   address goes, whether it is this connection or a newer one, and the node is
   freed. The connection is closed. *)
serverShutdown(c) ==
  /\ upfEnd[c] \in {"handshake", "up"}
  /\ upfEnd' = [upfEnd EXCEPT ![c] = "closed"]
  /\ \/ /\ upfEnd[c] = "up"
        /\ quic_client_hash' = [quic_client_hash EXCEPT ![peer[c]] =
                                  [@ EXCEPT ![AddrOf(owner[c])] = NoConn]]
        /\ raced' = IF Allocating(c) THEN raced \cup {peer[c]} ELSE raced
     \/ /\ upfEnd[c] = "handshake"
        /\ UNCHANGED <<quic_client_hash, raced>>
  /\ UNCHANGED <<gnbVars, dl, net, dest, got, stray>>

(* The UPF stops, or ends on the null node or the spoilt list of a race, and
   starts again. Its gNBs learn of it when their connections time out. *)
serverRestart(u) ==
  /\ OpenAt(u) # {}
  /\ upfEnd' = [c \in Conns |-> IF peer[c] = u THEN "closed" ELSE upfEnd[c]]
  /\ quic_client_hash' = [quic_client_hash EXCEPT ![u] = [a \in Addrs |-> NoConn]]
  /\ raced' = raced \ {u}
  /\ dl' = {e \in dl : peer[e[1]] # u}
  /\ UNCHANGED <<gnbVars, net, dest, got, stray>>

(* What the table of u has for an address; after a race it may be any of the
   UPF's connections, closed ones too. *)
Found(u, a) ==
  IF u \in raced THEN {c \in Conns : peer[c] = u} \cup {NoConn}
                 ELSE {quic_client_hash[u][a]}

(* A mutant: a null connection goes unnoticed. *)
downlinkLookup_Unchecked(u, a, p) ==
  /\ dest[p] = NoEnd /\ \A e \in dl : peer[e[1]] # u
  /\ dest' = [dest EXCEPT ![p] = a]
  /\ \E c \in Found(u, a) : dl' = dl \cup {<<c, p>>}
  /\ stray' = IF u \in raced THEN stray \cup {p} ELSE stray
  /\ UNCHANGED <<gnbVars, upfVars, net, got>>

(* quic_server_send_downlink, under quic_client_mutex: the packet's connection
   is looked up, or the packet is dropped. *)
downlinkLookup(u, a, p) ==
  /\ dest[p] = NoEnd /\ \A e \in dl : peer[e[1]] # u
  /\ dest' = [dest EXCEPT ![p] = a]
  /\ \E c \in Found(u, a) : dl' = IF c = NoConn THEN dl ELSE dl \cup {<<c, p>>}
  /\ stray' = IF u \in raced THEN stray \cup {p} ELSE stray
  /\ UNCHANGED <<gnbVars, upfVars, net, got>>

(* A mutant: the packet is sent on any connection of the UPF. *)
downlinkSend_AnyGnb(c, p) ==
  /\ <<c, p>> \in dl
  /\ dl' = dl \ {<<c, p>>}
  /\ \E d \in OpenAt(peer[c]) \cup {c} : DatagramSend(d, {p})
  /\ UNCHANGED <<gnbVars, upfVars, dest, got, stray>>

(* After the mutex has been released: DatagramSend on that connection, unless
   it has been closed in between ... *)
downlinkSend(c, p) ==
  /\ <<c, p>> \in dl
  /\ dl' = dl \ {<<c, p>>}
  /\ IF upfEnd[c] = "closed" THEN UNCHANGED net ELSE DatagramSend(c, {p})
  /\ UNCHANGED <<gnbVars, upfVars, dest, got, stray>>

(* ... and its handle has become that of a connection accepted since: from
   then on that one is the packet's. *)
handleReused(c, d, p) ==
  /\ <<c, p>> \in dl /\ upfEnd[c] = "closed"
  /\ peer[d] = peer[c] /\ upfEnd[d] = "handshake"
  /\ dl' = (dl \ {<<c, p>>}) \cup {<<d, p>>}
  /\ stray' = stray \cup {p}
  /\ UNCHANGED <<gnbVars, upfVars, net, dest, got>>

(* DATAGRAM_RECEIVED: quic_server_handle_uplink *)
handle_uplink(c, p) ==
  /\ upfEnd[c] \notin {"none", "closed"}
  /\ <<c, p>> \in net
  /\ dest[p] \in Upfs
  /\ net' = net \ {<<c, p>>}
  /\ got' = [got EXCEPT ![peer[c]] = @ \cup {p}]
  /\ UNCHANGED <<gnbVars, upfVars, dl, dest, stray>>

(* The network drops a datagram, or it finds its connection gone. *)
datagramLost(c, p) ==
  /\ <<c, p>> \in net
  /\ net' = net \ {<<c, p>>}
  /\ UNCHANGED <<gnbVars, upfVars, dl, dest, got, stray>>

Next ==
  \/ \E g \in Gnbs, p \in Packets, u \in Upfs :
       \/ \E c \in Conns : sendConnect(g, p, u, c)
       \/ sendConnectFails(g, p, u)
       \/ sendQueue(g, p, u)
       \/ sendNow(g, p, u)
  \/ \E g \in Gnbs : \/ callbackConnected(g) \/ callbackShutdown(g)
                     \/ \E p \in Packets : callbackReceived(g, p)
  \/ \E c \in Conns : \/ serverAlloc(c) \/ serverNode(c) \/ serverRegister(c)
                      \/ serverShutdown(c)
  \/ \E u \in Upfs : serverRestart(u)
  \/ \E u \in Upfs, a \in Addrs, p \in Packets : downlinkLookup(u, a, p)
  \/ \E c, d \in Conns, p \in Packets : handleReused(c, d, p)
  \/ \E c \in Conns, p \in Packets :
       downlinkSend(c, p) \/ handle_uplink(c, p) \/ datagramLost(c, p)

Spec == Init /\ [][Next]_vars

-----------------------------------------------------------------------------
(* Properties *)

(* The tunnel is an N3 channel: the packets on their way are those in the
   gNBs' queues, in the UPFs' hands and in datagrams. *)
Transit == {p \in Packets : \/ \E g \in Gnbs : p \in m_pendingContexts[g]
                            \/ \E c \in Conns : <<c, p>> \in dl \cup net}

Chan == INSTANCE N3Channel WITH transit <- Transit

(* However connections are lost, replaced and cleaned up on either end, a
   packet handed to the tunnel arrives at most once, and only where it was sent
   to, with three exceptions: an uplink packet a gNB sends on the connection to
   another UPF, a downlink packet sent after callbacks of the UPF have raced
   for a node, and one whose connection is closed, and its handle reused,
   between look-up and DatagramSend (QuicTask::send,
   quic_server_send_downlink). *)
ImplementsChannel == Chan!ChanSpec
=============================================================================
