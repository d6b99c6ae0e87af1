------------------------------ MODULE UpfQuic ------------------------------
(***************************************************************************)
(* The UPF end of the N3 QUIC tunnel: open5gs/src/upf/quic-server.c.        *)
(*                                                                         *)
(* The server keeps, for every connected gNB, a node taken from a pool and *)
(* linked in quic_client_list, and a hash table from the gNB's address to  *)
(* its node. MsQuic's workers run ConnectionCallback (one call at a time   *)
(* on each worker, a connection stays on its worker), the UPF's main       *)
(* thread sends downlink packets, and the terminating thread stops the     *)
(* server. quic_client_mutex protects the list and the table, but not the  *)
(* pool's allocation; quic_pool_mutex protects the send contexts.          *)
(*                                                                         *)
(* Three history variables (raced, overlapped, dlStale) record the events  *)
(* after which the code promises less, so that the properties can say that *)
(* nothing but these events does harm.                                     *)
(*                                                                         *)
(* MsQuic is not part of the repository: what it does is modelled from the *)
(* way the server uses it.                                                 *)
(***************************************************************************)
EXTENDS Naturals, Sequences, FiniteSets

CONSTANTS
  Conns,      \* connection handles, reused once closed; bounds how many are
              \* open at a time
  NoConn,     \* the null handle
  Addrs,      \* gNB addresses
  Workers,    \* MsQuic's worker threads
  Nodes,      \* quic_client_pool's nodes (128 in the code)
  NoNode,     \* the null node
  SendCtxs,   \* quic_send_pool's contexts (4096 in the code)
  NoCtx,      \* the null context
  MaxAccepts  \* bound: connections the listener is offered

ASSUME ConstAssumption ==
  /\ NoConn \notin Conns /\ NoNode \notin Nodes /\ NoCtx \notin SendCtxs
  /\ Addrs # {} /\ Workers # {}
  /\ IsFiniteSet(Nodes)
  /\ MaxAccepts \in Nat

VARIABLES
  srv,         \* where the terminating thread is
  listener,    \* "open", "stopping" or "closed"
  accepts,     \* how many connections the listener has been offered
  conn,        \* MsQuic's view of each connection
  addr,        \* the peer's address
  worker,      \* the worker that runs the connection's callbacks
  cb,          \* where each connection's callback is
  nodeOf,      \* the local variable "node" of the CONNECTED callback
  nodeConn,    \* node->conn
  nodeIp,      \* node->ip_address
  list,        \* the nodes linked in quic_client_list
  hashVal,     \* quic_client_hash: the value stored for an address, and
  hashKey,     \* the node whose ip_address the entry's key points to
  clientPool,  \* quic_client_pool's ring of free nodes
  sendPool,    \* the free contexts of quic_send_pool
  inflight,    \* <<c, s>>: connection c holds s as ClientContext
  dl,          \* where the main thread is in quic_server_send_downlink,
  dlAddr,      \* its dest_gnb_ip,
  dlConn,      \* target_connection
  dlCtx,       \* and send_buffer
  listLoop,    \* a node has been linked twice and the list has a cycle
  crashed,     \* the process ended on undefined behaviour, or a walk over the
               \* cyclic list never ends and keeps quic_client_mutex
  raced,       \* history: an ogs_pool_alloc of quic_client_pool has overlapped
               \* another access to that pool
  overlapped,  \* history: the addresses that registered again while an older
               \* node of theirs was still linked
  dlStale      \* history: dlConn has been closed since the look-up

srvVars  == <<srv, listener, accepts>>
quicVars == <<conn, addr, worker, cb, inflight>>
nodeVars == <<nodeOf, nodeConn, nodeIp, clientPool>>
regVars  == <<list, hashVal, hashKey, overlapped>>
dlVars   == <<dl, dlAddr, dlConn, dlCtx, dlStale>>
ubVars   == <<listLoop, crashed>>
vars == <<srvVars, quicVars, nodeVars, regVars, sendPool, dlVars, ubVars, raced>>

ConnStates == {"handshake", "up", "closing", "down", "closed"}
CbPcs  == {"idle", "alloc", "advance", "conn", "ip", "register", "shutdown",
           "close"}
DlPcs  == {"idle", "lookup", "alloc", "send"}
SrvPcs == {"running", "shutdown", "registration", "final", "stopped"}

Open(c) == conn[c] # "closed"

(* MsQuic runs one callback at a time on a worker. *)
WorkerFree(c) == \A d \in Conns : Open(d) /\ worker[d] = worker[c] => cb[d] = "idle"

RangeOf(s) == {s[i] : i \in DOMAIN s}

TypeOK ==
  /\ srv \in SrvPcs
  /\ listener \in {"open", "stopping", "closed"}
  /\ accepts \in 0 .. MaxAccepts
  /\ conn \in [Conns -> ConnStates]
  /\ addr \in [Conns -> Addrs]
  /\ worker \in [Conns -> Workers]
  /\ cb \in [Conns -> CbPcs]
  /\ nodeOf \in [Conns -> Nodes \cup {NoNode}]
  /\ nodeConn \in [Nodes -> Conns \cup {NoConn}]
  /\ nodeIp \in [Nodes -> Addrs]
  /\ list \subseteq Nodes
  /\ hashVal \in [Addrs -> Nodes \cup {NoNode}]
  /\ hashKey \in [Addrs -> Nodes \cup {NoNode}]
  /\ clientPool \in Seq(Nodes)
  /\ sendPool \subseteq SendCtxs
  /\ inflight \subseteq Conns \X SendCtxs
  /\ dl \in DlPcs
  /\ dlAddr \in Addrs
  /\ dlConn \in Conns \cup {NoConn}
  /\ dlCtx \in SendCtxs \cup {NoCtx}
  /\ listLoop \in BOOLEAN
  /\ crashed \in BOOLEAN
  /\ raced \in BOOLEAN
  /\ overlapped \subseteq Addrs
  /\ dlStale \in BOOLEAN

(* A field nobody has written yet; it is not read before it is written. *)
AnyAddr == CHOOSE a \in Addrs : TRUE

(* ogs_quic_server_start has succeeded; when it fails the UPF does not      *)
(* start and upf_terminate does nothing.                                    *)
Init ==
  /\ srv = "running" /\ listener = "open" /\ accepts = 0
  /\ conn = [c \in Conns |-> "closed"]
  /\ addr = [c \in Conns |-> AnyAddr]
  /\ worker = [c \in Conns |-> CHOOSE w \in Workers : TRUE]
  /\ cb = [c \in Conns |-> "idle"]
  /\ nodeOf = [c \in Conns |-> NoNode]
  /\ nodeConn = [n \in Nodes |-> NoConn]
  /\ nodeIp = [n \in Nodes |-> AnyAddr]
  /\ list = {}
  /\ hashVal = [a \in Addrs |-> NoNode]
  /\ hashKey = [a \in Addrs |-> NoNode]
  /\ clientPool \in {s \in [1 .. Cardinality(Nodes) -> Nodes] :
                       \A i, j \in DOMAIN s : s[i] = s[j] => i = j}
  /\ sendPool = SendCtxs
  /\ inflight = {}
  /\ dl = "idle" /\ dlAddr = AnyAddr /\ dlConn = NoConn /\ dlCtx = NoCtx
  /\ listLoop = FALSE /\ crashed = FALSE
  /\ raced = FALSE /\ overlapped = {} /\ dlStale = FALSE

-----------------------------------------------------------------------------
(* MsQuic and the listener *)

(* ListnerCallback, NEW_CONNECTION: the connection, whose handle may have   *)
(* belonged to another one before, gets its callback and the configuration; *)
(* it has no node yet. When ConnectionSetConfiguration fails MsQuic refuses *)
(* the connection and no other event comes for it.                          *)
ListnerCallback(c, a, w) ==
  /\ listener = "open" /\ conn[c] = "closed"
  /\ accepts < MaxAccepts /\ accepts' = accepts + 1
  /\ \/ /\ conn' = [conn EXCEPT ![c] = "handshake"]
        /\ addr' = [addr EXCEPT ![c] = a]
        /\ worker' = [worker EXCEPT ![c] = w]
     \/ UNCHANGED <<conn, addr, worker>>
  /\ UNCHANGED <<srv, listener, cb, inflight, nodeVars, regVars, sendPool,
                 dlVars, ubVars, raced>>

(* ListnerCallback, STOP_COMPLETE: the listener is closed. *)
ListnerStopped ==
  /\ listener = "stopping"
  /\ listener' = "closed"
  /\ UNCHANGED <<srv, accepts, quicVars, nodeVars, regVars, sendPool, dlVars,
                 ubVars, raced>>

(* The handshake ends: CONNECTED is raised. *)
HandshakeDone(c) ==
  /\ conn[c] = "handshake" /\ WorkerFree(c)
  /\ conn' = [conn EXCEPT ![c] = "up"]
  /\ cb' = [cb EXCEPT ![c] = "alloc"]
  /\ UNCHANGED <<srvVars, addr, worker, inflight, nodeVars, regVars, sendPool,
                 dlVars, ubVars, raced>>

(* The peer or the transport ends the connection, or its handshake fails;   *)
(* the callback only logs SHUTDOWN_INITIATED_*.                             *)
ConnectionLost(c) ==
  /\ conn[c] \in {"handshake", "up"}
  /\ conn' = [conn EXCEPT ![c] = "closing"]
  /\ UNCHANGED <<srvVars, addr, worker, cb, inflight, nodeVars, regVars,
                 sendPool, dlVars, ubVars, raced>>

(* A mutant: the connection is closed before its node is removed. *)
ShutdownDoneCloses(c) ==
  /\ conn[c] = "closing" /\ WorkerFree(c)
  /\ ~ \E s \in SendCtxs : <<c, s>> \in inflight
  /\ conn' = [conn EXCEPT ![c] = "closed"]
  /\ cb' = [cb EXCEPT ![c] = "shutdown"]
  /\ UNCHANGED <<srvVars, addr, worker, inflight, nodeVars, regVars, sendPool,
                 dlVars, ubVars, raced>>

(* Every context has been given back (CANCELED): SHUTDOWN_COMPLETE, the     *)
(* connection's last event, is raised.                                      *)
ShutdownDone(c) ==
  /\ conn[c] = "closing" /\ WorkerFree(c)
  /\ ~ \E s \in SendCtxs : <<c, s>> \in inflight
  /\ conn' = [conn EXCEPT ![c] = "down"]
  /\ cb' = [cb EXCEPT ![c] = "shutdown"]
  /\ UNCHANGED <<srvVars, addr, worker, inflight, nodeVars, regVars, sendPool,
                 dlVars, ubVars, raced>>

-----------------------------------------------------------------------------
(* ConnectionCallback, CONNECTED *)

(* Another callback is inside ogs_pool_alloc. *)
Allocating(c) == \E d \in Conns \ {c} : cb[d] = "advance"

(* ogs_pool_alloc without a mutex: the node at the head of the ring is read *)
(* (null when the pool is empty, or when another worker has already cleared *)
(* the slot and not yet moved the head) ...                                 *)
callbackAlloc(c) ==
  /\ cb[c] = "alloc"
  /\ \/ /\ clientPool # <<>>
        /\ nodeOf' = [nodeOf EXCEPT ![c] = Head(clientPool)]
        /\ cb' = [cb EXCEPT ![c] = "advance"]
     \/ /\ clientPool = <<>> \/ Allocating(c)
        /\ nodeOf' = [nodeOf EXCEPT ![c] = NoNode]
        /\ cb' = [cb EXCEPT ![c] = "conn"]
  /\ raced' = (raced \/ Allocating(c))
  /\ UNCHANGED <<srvVars, conn, addr, worker, inflight, nodeConn, nodeIp,
                 clientPool, regVars, sendPool, dlVars, ubVars>>

(* ... and the head is moved; of two moves at a time one may be lost. *)
callbackAdvance(c) ==
  /\ cb[c] = "advance"
  /\ \/ clientPool' = IF clientPool = <<>> THEN <<>> ELSE Tail(clientPool)
     \/ Allocating(c) /\ UNCHANGED clientPool
  /\ cb' = [cb EXCEPT ![c] = "conn"]
  /\ UNCHANGED <<srvVars, conn, addr, worker, inflight, nodeOf, nodeConn,
                 nodeIp, regVars, sendPool, dlVars, ubVars, raced>>

(* The node is filled in; nothing tests it for null. *)
callbackNodeConn(c) ==
  /\ cb[c] = "conn"
  /\ \/ /\ nodeOf[c] # NoNode
        /\ nodeConn' = [nodeConn EXCEPT ![nodeOf[c]] = c]
        /\ cb' = [cb EXCEPT ![c] = "ip"]
        /\ UNCHANGED ubVars
     \/ /\ nodeOf[c] = NoNode
        /\ crashed' = TRUE
        /\ UNCHANGED <<nodeConn, cb, listLoop>>
  /\ UNCHANGED <<srvVars, conn, addr, worker, inflight, nodeOf, nodeIp,
                 clientPool, regVars, sendPool, dlVars, raced>>

callbackNodeIp(c) ==
  /\ cb[c] = "ip"
  /\ nodeIp' = [nodeIp EXCEPT ![nodeOf[c]] = addr[c]]
  /\ cb' = [cb EXCEPT ![c] = "register"]
  /\ UNCHANGED <<srvVars, conn, addr, worker, inflight, nodeOf, nodeConn,
                 clientPool, regVars, sendPool, dlVars, ubVars, raced>>

(* A mutant: the node is linked but not entered in the table. *)
hashSetMissing(n) == UNCHANGED <<hashKey, hashVal>>

(* ogs_hash_set: an existing entry keeps its key and gets the new value. *)
hashSet(n) ==
  LET a == nodeIp[n] IN
  /\ hashKey' = [hashKey EXCEPT ![a] = IF hashVal[a] = NoNode THEN n ELSE @]
  /\ hashVal' = [hashVal EXCEPT ![a] = n]

(* Under quic_client_mutex the node is linked (twice, if another callback   *)
(* was given it too) and entered in the table. A connection that was not    *)
(* resumed is then sent a ticket.                                           *)
callbackRegister(c) ==
  /\ cb[c] = "register"
  /\ list' = list \cup {nodeOf[c]}
  /\ hashSet(nodeOf[c])
  /\ overlapped' = IF \E n \in list : nodeIp[n] = nodeIp[nodeOf[c]]
                   THEN overlapped \cup {nodeIp[nodeOf[c]]}
                   ELSE overlapped \ {nodeIp[nodeOf[c]]}
  /\ listLoop' = (listLoop \/ nodeOf[c] \in list)
  /\ nodeOf' = [nodeOf EXCEPT ![c] = NoNode]
  /\ cb' = [cb EXCEPT ![c] = "idle"]
  /\ UNCHANGED <<srvVars, conn, addr, worker, inflight, nodeConn, nodeIp,
                 clientPool, sendPool, dlVars, crashed, raced>>

-----------------------------------------------------------------------------
(* ConnectionCallback, SHUTDOWN_COMPLETE *)

(* A mutant: the entry stays if a newer node has taken it over. *)
hashDeleteOwn(n) ==
  IF hashVal[nodeIp[n]] = n
  THEN /\ hashKey' = [hashKey EXCEPT ![nodeIp[n]] = NoNode]
       /\ hashVal' = [hashVal EXCEPT ![nodeIp[n]] = NoNode]
  ELSE UNCHANGED <<hashKey, hashVal>>

(* A mutant: the table is not touched. *)
hashDeleteMissing(n) == UNCHANGED <<hashKey, hashVal>>

(* ogs_hash_set with a null value: the entry of n's address is deleted,     *)
(* whichever node it holds.                                                 *)
hashDelete(n) ==
  /\ hashKey' = [hashKey EXCEPT ![nodeIp[n]] = NoNode]
  /\ hashVal' = [hashVal EXCEPT ![nodeIp[n]] = NoNode]

(* A mutant: the node is unlinked but not given back. *)
poolFreeMissing(c, n) == UNCHANGED <<clientPool, raced>>

(* ogs_pool_free, which does nothing to a pool that counts itself full. An  *)
(* ogs_pool_alloc that it overlaps, now or earlier, may have left the count *)
(* wrong, and the node does not come back.                                  *)
poolFree(c, n) ==
  /\ raced' = (raced \/ Allocating(c))
  /\ \/ clientPool' = IF Len(clientPool) < Cardinality(Nodes)
                       THEN Append(clientPool, n) ELSE clientPool
     \/ raced' /\ UNCHANGED clientPool

(* Under quic_client_mutex the connection's node leaves the table and the   *)
(* list and goes back to the pool; a connection that never got as far as    *)
(* CONNECTED has none. The walk ends, unless the list has a cycle.          *)
callbackUnregister(c) ==
  /\ cb[c] = "shutdown"
  /\ \/ /\ \E n \in list : /\ nodeConn[n] = c
                           /\ hashDelete(n)
                           /\ list' = list \ {n}
                           /\ poolFree(c, n)
        /\ UNCHANGED <<overlapped, ubVars>>
     \/ /\ \A n \in list : nodeConn[n] # c
        /\ ~listLoop
        /\ UNCHANGED <<regVars, clientPool, raced, ubVars>>
     \/ /\ listLoop
        /\ crashed' = TRUE
        /\ UNCHANGED <<regVars, clientPool, raced, listLoop>>
  /\ cb' = [cb EXCEPT ![c] = "close"]
  /\ UNCHANGED <<srvVars, conn, addr, worker, inflight, nodeOf, nodeConn,
                 nodeIp, sendPool, dlVars>>

(* A mutant: the connection is not closed. *)
callbackNoClose(c) ==
  /\ cb[c] = "close"
  /\ cb' = [cb EXCEPT ![c] = "idle"]
  /\ UNCHANGED <<srvVars, conn, addr, worker, inflight, nodeVars, regVars,
                 sendPool, dlVars, ubVars, raced>>

(* The connection is closed after the mutex has been released; its handle   *)
(* is free for another one.                                                 *)
callbackClose(c) ==
  /\ cb[c] = "close"
  /\ conn' = [conn EXCEPT ![c] = "closed"]
  /\ cb' = [cb EXCEPT ![c] = "idle"]
  /\ dlStale' = (dlStale \/ (dl \in {"alloc", "send"} /\ dlConn = c))
  /\ UNCHANGED <<srvVars, addr, worker, inflight, nodeVars, regVars, sendPool,
                 dl, dlAddr, dlConn, dlCtx, ubVars, raced>>

(* DATAGRAM_SEND_STATE_CHANGED with a final state, which MsQuic reports     *)
(* once for every context it took: the context goes back to the pool.       *)
callbackSendFinal(c, s) ==
  /\ <<c, s>> \in inflight /\ WorkerFree(c)
  /\ inflight' = inflight \ {<<c, s>>}
  /\ sendPool' = sendPool \cup {s}
  /\ UNCHANGED <<srvVars, conn, addr, worker, cb, nodeVars, regVars, dlVars,
                 ubVars, raced>>

-----------------------------------------------------------------------------
(* quic_server_send_downlink, on the UPF's main thread *)

downlinkStart(a) ==
  /\ srv = "running" /\ dl = "idle"
  /\ dl' = "lookup" /\ dlAddr' = a
  /\ UNCHANGED <<srvVars, quicVars, nodeVars, regVars, sendPool, dlConn, dlCtx,
                 dlStale, ubVars, raced>>

(* Under quic_client_mutex: the gNB's connection, or the packet is dropped. *)
downlinkLookup ==
  /\ dl = "lookup"
  /\ \/ /\ hashVal[dlAddr] = NoNode
        /\ dl' = "idle"
        /\ UNCHANGED dlConn
     \/ /\ hashVal[dlAddr] # NoNode
        /\ dlConn' = nodeConn[hashVal[dlAddr]]
        /\ dl' = "alloc"
  /\ UNCHANGED <<srvVars, quicVars, nodeVars, regVars, sendPool, dlAddr, dlCtx,
                 dlStale, ubVars, raced>>

(* A packet that is empty or longer than 2044 bytes is dropped, one that    *)
(* finds no free context too.                                               *)
downlinkDrop ==
  /\ dl = "alloc"
  /\ dl' = "idle" /\ dlConn' = NoConn /\ dlStale' = FALSE
  /\ UNCHANGED <<srvVars, quicVars, nodeVars, regVars, sendPool, dlAddr, dlCtx,
                 ubVars, raced>>

(* A mutant: an empty pool goes unnoticed. *)
downlinkAllocUnchecked ==
  /\ dl = "alloc"
  /\ dlCtx' \in IF sendPool = {} THEN {NoCtx} ELSE sendPool
  /\ sendPool' = sendPool \ {dlCtx'}
  /\ dl' = "send"
  /\ UNCHANGED <<srvVars, quicVars, nodeVars, regVars, dlAddr, dlConn, dlStale,
                 ubVars, raced>>

downlinkAlloc ==
  /\ dl = "alloc"
  /\ \E s \in sendPool : dlCtx' = s /\ sendPool' = sendPool \ {s}
  /\ dl' = "send"
  /\ UNCHANGED <<srvVars, quicVars, nodeVars, regVars, dlAddr, dlConn, dlStale,
                 ubVars, raced>>

(* A mutant: a context MsQuic refuses is not given back. *)
downlinkSendLeaks ==
  /\ dl = "send"
  /\ dl' = "idle" /\ dlConn' = NoConn /\ dlCtx' = NoCtx /\ dlStale' = FALSE
  /\ inflight' \in {inflight} \cup
       (IF conn[dlConn] \in {"handshake", "up", "closing"}
        THEN {inflight \cup {<<dlConn, dlCtx>>}} ELSE {})
  /\ UNCHANGED <<srvVars, conn, addr, worker, cb, nodeVars, regVars, sendPool,
                 dlAddr, ubVars, raced>>

(* DatagramSend: MsQuic takes the context, or refuses it and it goes back   *)
(* to the pool. The connection may have been closed since the look-up: the  *)
(* call then reads freed memory, and fails or ends the process, or the      *)
(* handle has become another connection's, which takes the packet.          *)
downlinkSend ==
  /\ dl = "send"
  /\ dl' = "idle" /\ dlConn' = NoConn /\ dlCtx' = NoCtx /\ dlStale' = FALSE
  /\ \/ /\ conn[dlConn] \in {"handshake", "up", "closing"}
        /\ inflight' = inflight \cup {<<dlConn, dlCtx>>}
        /\ UNCHANGED <<sendPool, ubVars>>
     \/ /\ sendPool' = sendPool \cup {dlCtx}
        /\ UNCHANGED <<inflight, ubVars>>
     \/ /\ conn[dlConn] = "closed"
        /\ crashed' = TRUE
        /\ UNCHANGED <<inflight, sendPool, listLoop>>
  /\ UNCHANGED <<srvVars, conn, addr, worker, cb, nodeVars, regVars, dlAddr,
                 raced>>

-----------------------------------------------------------------------------
(* upf_terminate and StopQuicServer *)

(* upf_terminate ends the main thread first; then the listener is stopped. *)
stopListener ==
  /\ srv = "running" /\ dl = "idle"
  /\ srv' = "shutdown"
  /\ listener' = "stopping"
  /\ UNCHANGED <<accepts, quicVars, nodeVars, regVars, sendPool, dlVars, ubVars,
                 raced>>

(* Under quic_client_mutex every connection in the list is shut down; the   *)
(* walk over a cyclic list never ends.                                      *)
stopShutdown ==
  /\ srv = "shutdown"
  /\ srv' = "registration"
  /\ crashed' = listLoop
  /\ conn' = [c \in Conns |->
                IF conn[c] = "up" /\ \E n \in list : nodeConn[n] = c
                THEN "closing" ELSE conn[c]]
  /\ UNCHANGED <<listener, accepts, addr, worker, cb, inflight, nodeVars,
                 regVars, sendPool, dlVars, listLoop, raced>>

(* A mutant: nothing waits for the connections. *)
stopRegistrationNoWait ==
  /\ srv = "registration"
  /\ srv' = "final"
  /\ UNCHANGED <<listener, accepts, quicVars, nodeVars, regVars, sendPool,
                 dlVars, ubVars, raced>>

(* RegistrationClose waits until the listener and every connection have     *)
(* been closed.                                                             *)
stopRegistration ==
  /\ srv = "registration"
  /\ listener = "closed" /\ \A c \in Conns : ~Open(c)
  /\ srv' = "final"
  /\ UNCHANGED <<listener, accepts, quicVars, nodeVars, regVars, sendPool,
                 dlVars, ubVars, raced>>

(* MsQuicClose waits for the workers; then the table, the pools and the     *)
(* mutexes are destroyed.                                                   *)
stopFinal ==
  /\ srv = "final"
  /\ \A c \in Conns : cb[c] = "idle"
  /\ srv' = "stopped"
  /\ UNCHANGED <<listener, accepts, quicVars, nodeVars, regVars, sendPool,
                 dlVars, ubVars, raced>>

-----------------------------------------------------------------------------

CallbackStep(c) ==
  \/ callbackAlloc(c) \/ callbackAdvance(c) \/ callbackNodeConn(c)
  \/ callbackNodeIp(c) \/ callbackRegister(c)
  \/ callbackUnregister(c) \/ callbackClose(c)

DownlinkStep ==
  downlinkLookup \/ downlinkDrop \/ downlinkAlloc \/ downlinkSend

StopStep == stopShutdown \/ stopRegistration \/ stopFinal

Step ==
  \/ \E c \in Conns :
       \/ \E a \in Addrs, w \in Workers : ListnerCallback(c, a, w)
       \/ HandshakeDone(c) \/ ConnectionLost(c) \/ ShutdownDone(c)
       \/ CallbackStep(c)
       \/ \E s \in SendCtxs : callbackSendFinal(c, s)
  \/ ListnerStopped
  \/ \E a \in Addrs : downlinkStart(a)
  \/ DownlinkStep
  \/ stopListener \/ StopStep

(* A stopped server, or a process that ended on undefined behaviour, does   *)
(* nothing more; a server that waits in RegistrationClose may see nothing   *)
(* happen for as long as its peers like (how long is QuietStopCompletes'    *)
(* question).                                                               *)
Ended ==
  /\ crashed \/ srv \in {"registration", "stopped"}
  /\ UNCHANGED vars

Next == (~crashed /\ Step) \/ Ended

Spec == Init /\ [][Next]_vars

(* Threads and workers are scheduled; MsQuic ends handshakes, reports final *)
(* send states and completes shutdowns. Nothing makes a connected gNB leave *)
(* or the operator stop the server.                                         *)
Fairness ==
  /\ WF_vars(~crashed /\ StopStep)
  /\ WF_vars(~crashed /\ DownlinkStep)
  /\ WF_vars(~crashed /\ ListnerStopped)
  /\ \A c \in Conns :
       /\ WF_vars(~crashed /\ CallbackStep(c))
       /\ SF_vars(~crashed /\ (HandshakeDone(c) \/ ShutdownDone(c)))
       /\ \A s \in SendCtxs : SF_vars(~crashed /\ callbackSendFinal(c, s))

FairSpec == Spec /\ Fairness

-----------------------------------------------------------------------------
(* Properties *)

(* Until accesses to quic_client_pool overlap, what the table says of an    *)
(* address is true: the node is linked, carries that address, and its       *)
(* connection is that gNB's and has not been closed. So the connection a    *)
(* look-up under the mutex returns is usable there.                         *)
RegistryConsistent ==
  ~raced => \A a \in Addrs : hashVal[a] # NoNode =>
    LET n == hashVal[a] IN
    /\ n \in list
    /\ nodeIp[n] = a
    /\ nodeConn[n] \in Conns
    /\ addr[nodeConn[n]] = a
    /\ conn[nodeConn[n]] \in {"up", "closing", "down"}

(* Until accesses to quic_client_pool overlap, the key of an entry, a       *)
(* pointer into the node that created the entry, points into a node that is *)
(* still linked and still holds that address, although ogs_hash_set keeps   *)
(* it when a newer node takes the entry over.                               *)
HashKeyAlive ==
  ~raced => \A a \in Addrs : hashVal[a] # NoNode =>
    hashKey[a] \in list /\ nodeIp[hashKey[a]] = a

(* An ogs_pool_alloc that overlaps another access to quic_client_pool is    *)
(* the only way to lose or share a node: until then a node is free, linked, *)
(* or in the hands of one CONNECTED callback, whatever else the workers do  *)
(* at the same time.                                                        *)
NodeOwnership ==
  ~raced => \A n \in Nodes :
    Cardinality({i \in DOMAIN clientPool : clientPool[i] = n})
      + (IF n \in list THEN 1 ELSE 0)
      + Cardinality({c \in Conns : nodeOf[c] = n /\ cb[c] # "advance"}) = 1

(* A send context is free, held by MsQuic for one connection, or held by    *)
(* quic_server_send_downlink: never freed twice, never lost.                *)
SendCtxOwnership ==
  ~crashed => \A s \in SendCtxs :
    (IF s \in sendPool THEN 1 ELSE 0) + (IF s = dlCtx THEN 1 ELSE 0)
      + Cardinality({c \in Conns : <<c, s>> \in inflight}) = 1

(* Overlapping accesses aside, ogs_pool_alloc gives a callback null, which  *)
(* nothing tests, only at capacity: every node is linked or in the hands of *)
(* another CONNECTED callback at that moment.                               *)
NullNodeOnlyAtCapacity ==
  [][\A c \in Conns : ~raced' /\ cb[c] = "alloc" /\ cb'[c] = "conn" =>
       \A n \in Nodes : n \in list \/ \E d \in Conns \ {c} : nodeOf[d] = n]_vars

(* Overlapping accesses aside, a close between the look-up and DatagramSend *)
(* is the only way for a downlink packet to go to another gNB's connection  *)
(* or to a closed handle, although handles are reused and the mutex has     *)
(* been released.                                                           *)
MisroutedOnlyAfterClose ==
  ~raced /\ dl \in {"alloc", "send"} /\ ~dlStale =>
    addr[dlConn] = dlAddr /\ conn[dlConn] \in {"up", "closing", "down"}

(* When StopQuicServer is done, no connection and no callback is left and   *)
(* the send contexts are all back, and so are the nodes unless accesses to  *)
(* their pool have overlapped.                                              *)
StopReleasesAll ==
  srv = "stopped" => /\ sendPool = SendCtxs
                     /\ \A c \in Conns : ~Open(c) /\ cb[c] = "idle"
                     /\ raced \/ RangeOf(clientPool) = Nodes

(* Overlapping accesses aside, a registered gNB is missing in the table, so *)
(* that a downlink packet for it is dropped because "gNB is not connected", *)
(* only if it had registered again before its older connection was cleaned  *)
(* up; a registration after that clean-up makes it known again.             *)
UnknownOnlyAfterOverlap ==
  ~raced => \A n \in list : hashVal[nodeIp[n]] = NoNode => nodeIp[n] \in overlapped

(* The node a connection registered holds its handle and its gNB's address. *)
NodeMatchesConnection ==
  \A n \in list : nodeConn[n] \in Conns /\ addr[nodeConn[n]] = nodeIp[n]

(* Once every connection is shutting down or closed, stopping the server    *)
(* comes to an end.                                                         *)
QuietStopCompletes ==
  (srv = "registration" /\ \A c \in Conns : conn[c] \notin {"handshake", "up"})
    ~> (srv = "stopped" \/ crashed)
=============================================================================
