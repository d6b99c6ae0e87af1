--------------------------- MODULE UpfQuicProofs ---------------------------
(***************************************************************************)
(* What holds of UpfQuic for any number of connections, gNBs, MsQuic       *)
(* workers, nodes and send contexts, whatever the workers do at the same   *)
(* time and however the connections of one gNB overlap.                    *)
(*                                                                         *)
(* What is true of the registry and its nodes is true until an             *)
(* ogs_pool_alloc overlaps another access to quic_client_pool: the         *)
(* inductive invariant is in two parts, one for every state and one        *)
(* (Registry) for the states in which no accesses have overlapped.         *)
(***************************************************************************)
EXTENDS UpfQuic, FiniteSetTheorems, TLAPS

(* What TypeOK needs to be inductive: each thread holds what its next step  *)
(* uses.                                                                    *)
TypeInv ==
  /\ TypeOK
  /\ \A c \in Conns : cb[c] \in {"advance", "ip", "register"} => nodeOf[c] \in Nodes
  /\ \A c \in Conns : cb[c] \in {"ip", "register"} => nodeConn[nodeOf[c]] \in Conns
  /\ \A a \in Addrs : hashVal[a] # NoNode => nodeConn[hashVal[a]] \in Conns
  /\ dl \in {"alloc", "send"} => dlConn \in Conns
  /\ dl = "send" => dlCtx \in SendCtxs

(* A callback runs only for a connection in the matching state, and only a  *)
(* CONNECTED callback holds a node.                                         *)
CallbackInv ==
  \A c \in Conns :
    /\ cb[c] \in {"alloc", "advance", "conn", "ip", "register"}
         => conn[c] \in {"up", "closing"}
    /\ cb[c] \in {"shutdown", "close"} <=> conn[c] = "down"
    /\ nodeOf[c] # NoNode => cb[c] \in {"advance", "conn", "ip", "register"}

(* A send context is in one place: free, held by MsQuic for one connection, *)
(* or in the hands of quic_server_send_downlink.                            *)
CtxInv ==
  ~crashed =>
    /\ dlCtx # NoCtx <=> dl = "send"
    /\ dlCtx \notin sendPool
    /\ \A e \in inflight :
         /\ e[2] \notin sendPool /\ e[2] # dlCtx
         /\ \A f \in inflight : e[2] = f[2] => e[1] = f[1]
    /\ \A s \in SendCtxs : \/ s \in sendPool \/ s = dlCtx
                           \/ \E c \in Conns : <<c, s>> \in inflight

(* How far StopQuicServer has come. *)
StopInv ==
  /\ \A e \in inflight : conn[e[1]] \in {"handshake", "up", "closing"}
  /\ srv # "running" => dl = "idle"
  /\ srv \in {"final", "stopped"} => listener = "closed" /\ \A c \in Conns : ~Open(c)
  /\ srv = "stopped" => ~crashed /\ \A c \in Conns : cb[c] = "idle"

(* The CONNECTED callback of c has a node it has taken out of the ring. *)
InHand(c) == nodeOf[c] # NoNode /\ cb[c] # "advance"

(* A node is in one place: the free ring has no duplicates and is disjoint  *)
(* from the list, and the node a CONNECTED callback fills in is in neither  *)
(* and in no other callback's hands. One callback at most is between the    *)
(* two halves of ogs_pool_alloc.                                            *)
NodeInv ==
  /\ \A i, j \in 1 .. Len(clientPool) : clientPool[i] = clientPool[j] => i = j
  /\ \A i \in 1 .. Len(clientPool) : clientPool[i] \notin list
  /\ \A c \in Conns :
       /\ cb[c] = "advance" => Len(clientPool) > 0 /\ nodeOf[c] = clientPool[1]
       /\ InHand(c) => /\ nodeOf[c] \notin list
                       /\ \A i \in 1 .. Len(clientPool) : clientPool[i] # nodeOf[c]
  /\ \A c, d \in Conns : cb[c] = "advance" /\ cb[d] = "advance" => c = d
  /\ \A c, d \in Conns : InHand(c) /\ InHand(d) /\ nodeOf[c] = nodeOf[d] => c = d

(* A linked node describes its connection, which has no other node and has  *)
(* not been closed; a node about to be linked describes its connection too. *)
ListInv ==
  /\ \A c \in Conns :
       /\ cb[c] \in {"ip", "register"} => nodeConn[nodeOf[c]] = c
       /\ cb[c] = "register" => nodeIp[nodeOf[c]] = addr[c]
  /\ \A n \in list :
       /\ nodeConn[n] \in Conns
       /\ addr[nodeConn[n]] = nodeIp[n]
       /\ conn[nodeConn[n]] \in {"up", "closing", "down"}
       /\ cb[nodeConn[n]] \in {"idle", "shutdown"}
  /\ \A m, n \in list : nodeConn[m] = nodeConn[n] => m = n
  /\ ~listLoop

(* The table's entries point to linked nodes with their address. *)
HashInv ==
  \A a \in Addrs : hashVal[a] # NoNode =>
    /\ hashVal[a] \in list /\ nodeIp[hashVal[a]] = a
    /\ hashKey[a] \in list /\ nodeIp[hashKey[a]] = a

(* The connection a downlink packet was looked up for, until it is closed. *)
DownlinkInv ==
  dl \in {"alloc", "send"} /\ ~dlStale =>
    addr[dlConn] = dlAddr /\ conn[dlConn] \in {"up", "closing", "down"}

(* Every node is free, linked, or held by a CONNECTED callback. *)
HeldInv ==
  \A n \in Nodes : \/ n \in list
                   \/ \E i \in 1 .. Len(clientPool) : clientPool[i] = n
                   \/ \E c \in Conns : nodeOf[c] = n /\ cb[c] # "advance"

(* The table holds the linked node of every address without overlap. *)
UniqueInv == \A n \in list : nodeIp[n] \notin overlapped => hashVal[nodeIp[n]] = n

(* What is true of the registry while accesses to the pool do not overlap. *)
Registry == NodeInv /\ ListInv /\ HashInv /\ DownlinkInv /\ HeldInv /\ UniqueInv

(* The inductive invariant. *)
Inv == TypeInv /\ CallbackInv /\ (~raced => Registry)

-----------------------------------------------------------------------------

(* The ring of free nodes: what ogs_pool_alloc and ogs_pool_free leave. *)
LEMMA TailPool ==
  ASSUME NEW p \in Seq(Nodes), p # <<>>
  PROVE  /\ Tail(p) \in Seq(Nodes)
         /\ Len(p) > 0 /\ Len(Tail(p)) = Len(p) - 1
         /\ \A i \in 1 .. Len(Tail(p)) : Tail(p)[i] = p[i + 1]
         /\ Head(p) = p[1] /\ p[1] \in Nodes
OBVIOUS

LEMMA AppendPool ==
  ASSUME NEW p \in Seq(Nodes), NEW n \in Nodes
  PROVE  /\ Append(p, n) \in Seq(Nodes)
         /\ Len(Append(p, n)) = Len(p) + 1
         /\ \A i \in 1 .. Len(p) : Append(p, n)[i] = p[i]
         /\ Append(p, n)[Len(p) + 1] = n
OBVIOUS

(* A ring without duplicates that misses a node does not count itself full. *)
LEMMA PoolRoom ==
  ASSUME NEW p \in Seq(Nodes), NEW n \in Nodes,
         \A i, j \in 1 .. Len(p) : p[i] = p[j] => i = j,
         \A i \in 1 .. Len(p) : p[i] # n
  PROVE  Len(p) < Cardinality(Nodes)
<1> DEFINE S == 1 .. Len(p)
           T == Nodes \ {n}
<1>1. /\ IsFiniteSet(T) /\ Cardinality(T) = Cardinality(Nodes) - 1
      /\ Cardinality(Nodes) \in Nat
  BY ConstAssumption, FS_RemoveElement, FS_CardinalityType
<1>2. p \in [S -> T]
  OBVIOUS
<1>3. p \in Injection(S, T)
  BY <1>2 DEF Injection, IsInjective
<1>4. Len(p) \in Nat /\ Cardinality(S) = Len(p)
  <2>1. Len(p) \in Nat
    OBVIOUS
  <2>2. Cardinality(1 .. Len(p)) = IF 1 > Len(p) THEN 0 ELSE Len(p) - 1 + 1
    BY <2>1, FS_Interval
  <2> QED BY <2>1, <2>2
<1>5. Cardinality(S) <= Cardinality(T)
  <2> HIDE DEF S, T
  <2> QED BY <1>1, <1>3, FS_Injection
<1> HIDE DEF S, T
<1> QED BY <1>1, <1>4, <1>5

(* The initial ring holds every node: as many as there are, all different. *)
LEMMA InitRing ==
  ASSUME Init
  PROVE  /\ clientPool \in Seq(Nodes)
         /\ \A i, j \in 1 .. Len(clientPool) : clientPool[i] = clientPool[j] => i = j
         /\ \A n \in Nodes : \E i \in 1 .. Len(clientPool) : clientPool[i] = n
<1> DEFINE k == Cardinality(Nodes)
<1>1. k \in Nat /\ IsFiniteSet(Nodes)
  BY ConstAssumption, FS_CardinalityType
<1>2. Cardinality(1 .. k) = k
  BY <1>1, FS_Interval
<1>3. clientPool \in [1 .. k -> Nodes] /\ clientPool \in Injection(1 .. k, Nodes)
  <2>1. clientPool \in [1 .. k -> Nodes]
        /\ \A i, j \in DOMAIN clientPool : clientPool[i] = clientPool[j] => i = j
    BY DEF Init
  <2>2. DOMAIN clientPool = 1 .. k
    BY <2>1
  <2> QED BY <2>1, <2>2 DEF Injection, IsInjective
<1>4. clientPool \in Surjection(1 .. k, Nodes)
  <2> HIDE DEF k
  <2> QED BY <1>1, <1>2, <1>3, FS_Injection DEF k
<1>5. clientPool \in Seq(Nodes) /\ Len(clientPool) = k
  BY <1>1, <1>3
<1>6. \A n \in Nodes : \E i \in 1 .. Len(clientPool) : clientPool[i] = n
  BY <1>4, <1>5 DEF Surjection
<1>7. \A i, j \in 1 .. Len(clientPool) : clientPool[i] = clientPool[j] => i = j
  BY <1>3, <1>5 DEF Injection, IsInjective
<1> QED BY <1>5, <1>6, <1>7

(* The initial states satisfy the invariant. *)
LEMMA InitInv == Init => Inv
<1> SUFFICES ASSUME Init PROVE Inv
  OBVIOUS
<1>1. AnyAddr \in Addrs /\ (CHOOSE w \in Workers : TRUE) \in Workers
  BY ConstAssumption DEF AnyAddr
<1>2. TypeInv
  <2>1. /\ conn \in [Conns -> ConnStates] /\ addr \in [Conns -> Addrs]
        /\ worker \in [Conns -> Workers] /\ cb \in [Conns -> CbPcs]
        /\ nodeOf \in [Conns -> Nodes \cup {NoNode}]
    BY <1>1 DEF Init, ConnStates, CbPcs
  <2>2. /\ nodeConn \in [Nodes -> Conns \cup {NoConn}] /\ nodeIp \in [Nodes -> Addrs]
        /\ hashVal \in [Addrs -> Nodes \cup {NoNode}]
        /\ hashKey \in [Addrs -> Nodes \cup {NoNode}]
    BY <1>1 DEF Init
  <2>3. /\ listLoop \in BOOLEAN /\ crashed \in BOOLEAN
        /\ raced \in BOOLEAN /\ dlStale \in BOOLEAN
    BY DEF Init
  <2>4. /\ \A c \in Conns : cb[c] = "idle"
        /\ \A a \in Addrs : hashVal[a] = NoNode
        /\ dl = "idle"
    BY DEF Init
  <2>5. /\ srv \in SrvPcs /\ listener \in {"open", "stopping", "closed"}
        /\ accepts \in 0 .. MaxAccepts
        /\ list \subseteq Nodes /\ sendPool \subseteq SendCtxs
        /\ inflight \subseteq Conns \X SendCtxs
        /\ dl \in DlPcs /\ dlAddr \in Addrs
        /\ dlConn \in Conns \cup {NoConn} /\ dlCtx \in SendCtxs \cup {NoCtx}
        /\ overlapped \subseteq Addrs
    BY <1>1, ConstAssumption DEF Init, SrvPcs, DlPcs
  <2> QED BY InitRing, <2>1, <2>2, <2>3, <2>4, <2>5 DEF TypeInv, TypeOK
<1>3. CallbackInv /\ HashInv /\ DownlinkInv /\ UniqueInv
  BY DEF Init, CallbackInv, HashInv, DownlinkInv, UniqueInv
<1>4. NodeInv /\ HeldInv
  BY InitRing DEF Init, NodeInv, HeldInv, InHand
<1>5. ListInv
  BY DEF Init, ListInv
<1> QED BY <1>2, <1>3, <1>4, <1>5 DEF Inv, Registry

(* Every step keeps the types. *)
LEMMA TypeNext == TypeInv /\ Step => TypeInv'
<1> SUFFICES ASSUME TypeInv, Step PROVE TypeInv'
  OBVIOUS
<1> USE ConstAssumption
<1> USE DEF TypeInv, TypeOK, SrvPcs, ConnStates, CbPcs, DlPcs,
        srvVars, quicVars, nodeVars, regVars, dlVars, ubVars
<1>1. CASE ListnerStopped
  BY <1>1 DEF ListnerStopped
<1>2. CASE downlinkLookup
  BY <1>2 DEF downlinkLookup
<1>3. CASE downlinkDrop
  BY <1>3 DEF downlinkDrop
<1>4. CASE downlinkAlloc
  BY <1>4 DEF downlinkAlloc
<1>5. CASE downlinkSend
  <2>1. crashed' \in BOOLEAN /\ listLoop' = listLoop
    BY <1>5 DEF downlinkSend
  <2>2. /\ inflight' \subseteq Conns \X SendCtxs
        /\ sendPool' \subseteq SendCtxs
    <3>1. dlConn \in Conns /\ dlCtx \in SendCtxs
      BY <1>5 DEF downlinkSend
    <3>2. inflight' = inflight \/ inflight' = inflight \cup {<<dlConn, dlCtx>>}
      BY <1>5 DEF downlinkSend
    <3>3. inflight' \subseteq Conns \X SendCtxs
      BY <3>1, <3>2
    <3>4. sendPool' \subseteq SendCtxs
      BY <1>5, <3>1 DEF downlinkSend
    <3> QED BY <3>3, <3>4
  <2> QED BY <1>5, <2>1, <2>2 DEF downlinkSend
<1>6. CASE stopListener
  BY <1>6 DEF stopListener
<1>7. CASE stopShutdown
  <2>1. crashed' \in BOOLEAN /\ listLoop' = listLoop
    BY <1>7 DEF stopShutdown
  <2>2. conn' \in [Conns -> ConnStates]
    BY <1>7 DEF stopShutdown
  <2> QED BY <1>7, <2>1, <2>2 DEF stopShutdown
<1>8. CASE stopRegistration
  BY <1>8 DEF stopRegistration
<1>9. CASE stopFinal
  BY <1>9 DEF stopFinal
<1>10. ASSUME NEW c \in Conns, HandshakeDone(c) PROVE TypeInv'
  BY <1>10 DEF HandshakeDone, WorkerFree, Open
<1>11. ASSUME NEW c \in Conns, ConnectionLost(c) PROVE TypeInv'
  BY <1>11 DEF ConnectionLost
<1>12. ASSUME NEW c \in Conns, ShutdownDone(c) PROVE TypeInv'
  BY <1>12 DEF ShutdownDone, WorkerFree, Open
<1>13. ASSUME NEW c \in Conns, callbackAlloc(c) PROVE TypeInv'
  <2>b. raced' \in BOOLEAN
    BY <1>13 DEF callbackAlloc
  <2>1. CASE /\ clientPool # <<>>
            /\ nodeOf' = [nodeOf EXCEPT ![c] = Head(clientPool)]
            /\ cb' = [cb EXCEPT ![c] = "advance"]
    <3>1. Head(clientPool) \in Nodes
      BY <2>1, TailPool
    <3> QED BY <1>13, <2>b, <2>1, <3>1 DEF callbackAlloc
  <2>2. CASE /\ nodeOf' = [nodeOf EXCEPT ![c] = NoNode]
            /\ cb' = [cb EXCEPT ![c] = "conn"]
    BY <1>13, <2>b, <2>2 DEF callbackAlloc
  <2> QED BY <1>13, <2>1, <2>2 DEF callbackAlloc
<1>14. ASSUME NEW c \in Conns, callbackAdvance(c) PROVE TypeInv'
  <2>1. clientPool' \in Seq(Nodes)
    BY <1>14, TailPool DEF callbackAdvance
  <2> QED BY <1>14, <2>1 DEF callbackAdvance
<1>15. ASSUME NEW c \in Conns, callbackNodeConn(c) PROVE TypeInv'
  <2>1. crashed' \in BOOLEAN /\ listLoop' = listLoop
    BY <1>15 DEF callbackNodeConn
  <2>2. CASE nodeOf[c] # NoNode
    <3>1. /\ nodeOf[c] \in Nodes
          /\ nodeConn' = [nodeConn EXCEPT ![nodeOf[c]] = c]
          /\ cb' = [cb EXCEPT ![c] = "ip"]
          /\ UNCHANGED <<nodeOf, hashVal, dlConn, dl, dlCtx>>
      BY <1>15, <2>2 DEF callbackNodeConn
    <3>2. nodeConn' \in [Nodes -> Conns \cup {NoConn}] /\ cb' \in [Conns -> CbPcs]
      BY <3>1
    <3>3. \A n \in Nodes : nodeConn[n] \in Conns => nodeConn'[n] \in Conns
      BY <3>1
    <3>4. \A d \in Conns : cb'[d] \in {"ip", "register"} =>
            nodeOf'[d] \in Nodes /\ nodeConn'[nodeOf'[d]] \in Conns
      BY <3>1, <3>3
    <3>5. \A d \in Conns : cb'[d] = "advance" => nodeOf'[d] \in Nodes
      BY <3>1
    <3>6. \A a \in Addrs : hashVal'[a] # NoNode => nodeConn'[hashVal'[a]] \in Conns
      BY <3>1, <3>3
    <3> QED BY <1>15, <2>1, <3>1, <3>2, <3>4, <3>5, <3>6 DEF callbackNodeConn
  <2>3. CASE nodeOf[c] = NoNode
    <3>1. UNCHANGED <<nodeConn, cb>>
      BY <1>15, <2>3 DEF callbackNodeConn
    <3> QED BY <1>15, <2>1, <3>1 DEF callbackNodeConn
  <2> QED BY <2>2, <2>3
<1>16. ASSUME NEW c \in Conns, callbackNodeIp(c) PROVE TypeInv'
  BY <1>16 DEF callbackNodeIp
<1>17. ASSUME NEW c \in Conns, callbackRegister(c) PROVE TypeInv'
  <2>1. listLoop' \in BOOLEAN /\ crashed' = crashed
    BY <1>17 DEF callbackRegister
  <2>2. overlapped' \subseteq Addrs
    BY <1>17 DEF callbackRegister
  <2> QED BY <1>17, <2>1, <2>2 DEF callbackRegister, hashSet
<1>18. ASSUME NEW c \in Conns, callbackUnregister(c) PROVE TypeInv'
  <2>1. /\ raced' \in BOOLEAN /\ crashed' \in BOOLEAN
        /\ listLoop' = listLoop /\ overlapped' = overlapped
    BY <1>18 DEF callbackUnregister, poolFree
  <2>2. clientPool' \in Seq(Nodes)
    <3>1. \/ clientPool' = clientPool
          \/ \E n \in list : clientPool' = Append(clientPool, n)
      BY <1>18 DEF callbackUnregister, poolFree
    <3>2. \A n \in Nodes : Append(clientPool, n) \in Seq(Nodes)
      BY AppendPool
    <3>3. list \subseteq Nodes /\ clientPool \in Seq(Nodes)
      OBVIOUS
    <3> QED BY ONLY <3>1, <3>2, <3>3
  <2>3. CASE UNCHANGED regVars
    BY <1>18, <2>1, <2>2, <2>3 DEF callbackUnregister
  <2>4. ASSUME NEW n \in list, hashDelete(n), list' = list \ {n}
        PROVE  TypeInv'
    BY <1>18, <2>1, <2>2, <2>4 DEF callbackUnregister, hashDelete
  <2> QED BY <1>18, <2>3, <2>4 DEF callbackUnregister
<1>19. ASSUME NEW c \in Conns, callbackClose(c) PROVE TypeInv'
  <2>1. dlStale' \in BOOLEAN
    BY <1>19 DEF callbackClose
  <2> QED BY <1>19, <2>1 DEF callbackClose
<1>20. ASSUME NEW c \in Conns, NEW s \in SendCtxs, callbackSendFinal(c, s)
      PROVE  TypeInv'
  BY <1>20 DEF callbackSendFinal
<1>21. ASSUME NEW c \in Conns, NEW a \in Addrs, NEW w \in Workers,
             ListnerCallback(c, a, w)
      PROVE  TypeInv'
  <2>1. accepts' \in 0 .. MaxAccepts
    BY <1>21 DEF ListnerCallback
  <2>2. CASE UNCHANGED <<conn, addr, worker>>
    BY <1>21, <2>1, <2>2 DEF ListnerCallback
  <2>3. CASE /\ conn' = [conn EXCEPT ![c] = "handshake"]
             /\ addr' = [addr EXCEPT ![c] = a]
             /\ worker' = [worker EXCEPT ![c] = w]
    BY <1>21, <2>1, <2>3 DEF ListnerCallback
  <2> QED BY <1>21, <2>2, <2>3 DEF ListnerCallback
<1>22. ASSUME NEW a \in Addrs, downlinkStart(a) PROVE TypeInv'
  BY <1>22 DEF downlinkStart
<1> QED
  BY <1>1, <1>2, <1>3, <1>4, <1>5, <1>6, <1>7, <1>8, <1>9, <1>10, <1>11, <1>12, <1>13, <1>14,
     <1>15, <1>16, <1>17, <1>18, <1>19, <1>20, <1>21, <1>22
  DEF Step, CallbackStep, DownlinkStep, StopStep

(* Every step keeps callbacks and connections together. *)
LEMMA CallbackNext == ASSUME TypeInv, CallbackInv, Step PROVE CallbackInv'
<1> USE DEF CallbackInv, srvVars, quicVars, nodeVars, regVars, dlVars, ubVars
<1>t. /\ conn \in [Conns -> ConnStates] /\ cb \in [Conns -> CbPcs]
      /\ nodeOf \in [Conns -> Nodes \cup {NoNode}]
  BY DEF TypeInv, TypeOK
<1>1. CASE ListnerStopped
  BY <1>1 DEF ListnerStopped
<1>2. CASE downlinkLookup
  BY <1>2 DEF downlinkLookup
<1>3. CASE downlinkDrop
  BY <1>3 DEF downlinkDrop
<1>4. CASE downlinkAlloc
  BY <1>4 DEF downlinkAlloc
<1>5. CASE downlinkSend
  BY <1>5 DEF downlinkSend
<1>6. CASE stopListener
  BY <1>6 DEF stopListener
<1>7. CASE stopShutdown
  BY <1>7, <1>t DEF stopShutdown
<1>8. CASE stopRegistration
  BY <1>8 DEF stopRegistration
<1>9. CASE stopFinal
  BY <1>9 DEF stopFinal
<1>10. ASSUME NEW c \in Conns, HandshakeDone(c) PROVE CallbackInv'
  BY <1>10, <1>t DEF HandshakeDone
<1>11. ASSUME NEW c \in Conns, ConnectionLost(c) PROVE CallbackInv'
  BY <1>11, <1>t DEF ConnectionLost
<1>12. ASSUME NEW c \in Conns, ShutdownDone(c) PROVE CallbackInv'
  BY <1>12, <1>t DEF ShutdownDone, WorkerFree, Open
<1>13. ASSUME NEW c \in Conns, callbackAlloc(c) PROVE CallbackInv'
  BY <1>13, <1>t DEF callbackAlloc
<1>14. ASSUME NEW c \in Conns, callbackAdvance(c) PROVE CallbackInv'
  BY <1>14, <1>t DEF callbackAdvance
<1>15. ASSUME NEW c \in Conns, callbackNodeConn(c) PROVE CallbackInv'
  BY <1>15, <1>t DEF callbackNodeConn
<1>16. ASSUME NEW c \in Conns, callbackNodeIp(c) PROVE CallbackInv'
  BY <1>16, <1>t DEF callbackNodeIp
<1>17. ASSUME NEW c \in Conns, callbackRegister(c) PROVE CallbackInv'
  BY <1>17, <1>t DEF callbackRegister
<1>18. ASSUME NEW c \in Conns, callbackUnregister(c) PROVE CallbackInv'
  BY <1>18, <1>t DEF callbackUnregister
<1>19. ASSUME NEW c \in Conns, callbackClose(c) PROVE CallbackInv'
  BY <1>19, <1>t DEF callbackClose
<1>20. ASSUME NEW c \in Conns, NEW s \in SendCtxs, callbackSendFinal(c, s)
       PROVE  CallbackInv'
  BY <1>20 DEF callbackSendFinal
<1>21. ASSUME NEW c \in Conns, NEW a \in Addrs, NEW w \in Workers,
              ListnerCallback(c, a, w)
       PROVE  CallbackInv'
  BY <1>21, <1>t DEF ListnerCallback
<1>22. ASSUME NEW a \in Addrs, downlinkStart(a) PROVE CallbackInv'
  BY <1>22 DEF downlinkStart
<1> QED
  BY <1>1, <1>2, <1>3, <1>4, <1>5, <1>6, <1>7, <1>8, <1>9, <1>10, <1>11, <1>12,
     <1>13, <1>14, <1>15, <1>16, <1>17, <1>18, <1>19, <1>20, <1>21, <1>22
  DEF Step, CallbackStep, DownlinkStep, StopStep

-----------------------------------------------------------------------------
(* The registry *)

(* The steps that touch the connections, the callbacks or the registry. *)
LEMMA StepCases ==
  ASSUME Step
  PROVE  \/ UNCHANGED <<conn, addr, cb, nodeVars, regVars, listLoop, raced>>
         \/ stopShutdown
         \/ \E c \in Conns : \/ HandshakeDone(c) \/ ConnectionLost(c)
                             \/ ShutdownDone(c) \/ CallbackStep(c)
                             \/ \E a \in Addrs, w \in Workers : ListnerCallback(c, a, w)
<1> USE DEF srvVars, quicVars, nodeVars, regVars, dlVars, ubVars
<1>1. ASSUME NEW c \in Conns, NEW s \in SendCtxs, callbackSendFinal(c, s)
      PROVE  UNCHANGED <<conn, addr, cb, nodeVars, regVars, listLoop, raced>>
  BY <1>1 DEF callbackSendFinal
<1>2. CASE ListnerStopped \/ stopListener \/ stopRegistration \/ stopFinal
  BY <1>2 DEF ListnerStopped, stopListener, stopRegistration, stopFinal
<1>3. ASSUME NEW a \in Addrs, downlinkStart(a)
      PROVE  UNCHANGED <<conn, addr, cb, nodeVars, regVars, listLoop, raced>>
  BY <1>3 DEF downlinkStart
<1>4. CASE downlinkLookup \/ downlinkDrop \/ downlinkAlloc
  BY <1>4 DEF downlinkLookup, downlinkDrop, downlinkAlloc
<1>5. CASE downlinkSend
  BY <1>5 DEF downlinkSend
<1> QED BY <1>1, <1>2, <1>3, <1>4, <1>5 DEF Step, DownlinkStep, StopStep

(* Overlapping accesses to the pool are not forgotten. *)
LEMMA RacedStays ==
  ASSUME TypeInv, Step, raced
  PROVE  raced'
<1>1. ASSUME NEW c \in Conns, CallbackStep(c) PROVE raced'
  BY <1>1 DEF CallbackStep, callbackAlloc, callbackAdvance, callbackNodeConn,
     callbackNodeIp, callbackRegister, callbackUnregister, poolFree, callbackClose
<1> QED BY <1>1, StepCases DEF stopShutdown, HandshakeDone, ConnectionLost,
        ShutdownDone, ListnerCallback

(* A step that moves no node, and no callback into or out of                *)
(* ogs_pool_alloc, leaves every node where it is.                           *)
LEMMA NodeFrame ==
  ASSUME NodeInv, HeldInv, UNCHANGED <<nodeOf, list, clientPool>>,
         \A d \in Conns : cb'[d] = "advance" <=> cb[d] = "advance"
  PROVE  NodeInv' /\ HeldInv'
<1>1. \A d \in Conns : InHand(d)' <=> InHand(d)
  BY DEF InHand
<1>2. NodeInv'
  BY <1>1 DEF NodeInv
<1>3. HeldInv'
  BY DEF HeldInv
<1> QED BY <1>2, <1>3

(* Every step leaves every node in one place. *)
LEMMA NodeNext ==
  ASSUME TypeInv, CallbackInv, NodeInv, HeldInv, ListInv, Step, ~raced'
  PROVE  NodeInv' /\ HeldInv'
<1> USE ConstAssumption
<1> USE DEF srvVars, quicVars, nodeVars, regVars, dlVars, ubVars
<1>t. /\ conn \in [Conns -> ConnStates] /\ cb \in [Conns -> CbPcs]
      /\ nodeOf \in [Conns -> Nodes \cup {NoNode}]
      /\ list \subseteq Nodes /\ clientPool \in Seq(Nodes)
      /\ Len(clientPool) \in Nat
  BY DEF TypeInv, TypeOK
<1>1. CASE UNCHANGED <<conn, addr, cb, nodeVars, regVars, listLoop, raced>>
  BY <1>1, NodeFrame
<1>2. CASE stopShutdown
  BY <1>2, NodeFrame DEF stopShutdown
<1>3. ASSUME NEW c \in Conns, HandshakeDone(c) PROVE NodeInv' /\ HeldInv'
  <2>1. cb[c] = "idle"
    BY <1>3, <1>t DEF HandshakeDone, CallbackInv, CbPcs
  <2> QED BY <1>3, <1>t, <2>1, NodeFrame DEF HandshakeDone
<1>4. ASSUME NEW c \in Conns, ConnectionLost(c) PROVE NodeInv' /\ HeldInv'
  BY <1>4, NodeFrame DEF ConnectionLost
<1>5. ASSUME NEW c \in Conns, ShutdownDone(c) PROVE NodeInv' /\ HeldInv'
  BY <1>5, <1>t, NodeFrame DEF ShutdownDone, WorkerFree, Open
<1>6. ASSUME NEW c \in Conns, NEW a \in Addrs, NEW w \in Workers,
             ListnerCallback(c, a, w)
      PROVE  NodeInv' /\ HeldInv'
  BY <1>6, NodeFrame DEF ListnerCallback
<1>7. ASSUME NEW c \in Conns, callbackAlloc(c) PROVE NodeInv' /\ HeldInv'
  <2>1. /\ nodeOf[c] = NoNode /\ UNCHANGED <<list, clientPool>>
        /\ \A d \in Conns \ {c} : cb[d] # "advance"
    BY <1>7, <1>t DEF callbackAlloc, Allocating, CallbackInv
  <2>2. \/ /\ clientPool # <<>> /\ nodeOf'[c] = Head(clientPool)
           /\ cb'[c] = "advance"
        \/ nodeOf'[c] = NoNode /\ cb'[c] = "conn"
    BY <1>7, <1>t DEF callbackAlloc
  <2>3. \A d \in Conns \ {c} : nodeOf'[d] = nodeOf[d] /\ cb'[d] = cb[d]
    BY <1>7, <1>t DEF callbackAlloc
  <2>4. ~InHand(c)' /\ \A d \in Conns \ {c} : InHand(d)' <=> InHand(d)
    BY <2>2, <2>3 DEF InHand
  <2>5. cb'[c] = "advance" => Len(clientPool) > 0 /\ nodeOf'[c] = clientPool[1]
    BY <1>t, <2>2, TailPool
  <2>6. NodeInv'
    BY <2>1, <2>3, <2>4, <2>5 DEF NodeInv
  <2>7. \A n \in Nodes, d \in Conns :
          nodeOf[d] = n /\ cb[d] # "advance" => nodeOf'[d] = n /\ cb'[d] # "advance"
    BY <2>1, <2>3
  <2>8. HeldInv'
    BY <2>1, <2>7 DEF HeldInv
  <2> QED BY <2>6, <2>8
<1>8. ASSUME NEW c \in Conns, callbackAdvance(c) PROVE NodeInv' /\ HeldInv'
  <2>1. /\ Len(clientPool) > 0 /\ nodeOf[c] = clientPool[1] /\ clientPool # <<>>
        /\ \A d \in Conns \ {c} : cb[d] # "advance"
    BY <1>8, <1>t DEF callbackAdvance, NodeInv
  <2>2. /\ clientPool' = Tail(clientPool)
        /\ cb' = [cb EXCEPT ![c] = "conn"] /\ UNCHANGED <<list, nodeOf>>
    BY <1>8, <2>1 DEF callbackAdvance, Allocating
  <2>3. /\ Len(clientPool') = Len(clientPool) - 1
        /\ \A i \in 1 .. Len(clientPool') :
             i + 1 \in 1 .. Len(clientPool) /\ clientPool'[i] = clientPool[i + 1]
        /\ 1 \in 1 .. Len(clientPool)
    BY <1>t, <2>1, <2>2, TailPool
  <2>4. \A i \in 1 .. Len(clientPool) :
          i = 1 \/ (i - 1 \in 1 .. Len(clientPool') /\ clientPool'[i - 1] = clientPool[i])
    BY <1>t, <2>3
  <2>5. /\ \A d \in Conns \ {c} : cb'[d] = cb[d]
        /\ cb'[c] = "conn" /\ nodeOf[c] # NoNode
    BY <1>8, <1>t, <2>2 DEF callbackAdvance, TypeInv
  <2>6. /\ InHand(c)' /\ ~InHand(c)
        /\ \A d \in Conns \ {c} : InHand(d)' <=> InHand(d)
    BY <1>8, <2>2, <2>5 DEF InHand, callbackAdvance
  <2>7. NodeInv'
    <3>1. /\ \A i, j \in 1 .. Len(clientPool') : clientPool'[i] = clientPool'[j] => i = j
          /\ \A i \in 1 .. Len(clientPool') : clientPool'[i] \notin list'
      <4>1. ASSUME NEW i \in 1 .. Len(clientPool'), NEW j \in 1 .. Len(clientPool'),
                   clientPool'[i] = clientPool'[j]
            PROVE  i = j
        <5>1. i + 1 = j + 1
          BY <2>3, <4>1 DEF NodeInv
        <5> QED BY <5>1
      <4> QED BY <2>2, <2>3, <4>1 DEF NodeInv
    <3>2. \A i \in 1 .. Len(clientPool') : clientPool'[i] # nodeOf[c]
      <4>1. ASSUME NEW i \in 1 .. Len(clientPool'), clientPool'[i] = nodeOf[c]
            PROVE  FALSE
        <5>1. i + 1 = 1
          BY <2>1, <2>3, <4>1 DEF NodeInv
        <5> QED BY <5>1
      <4> QED BY <4>1
    <3>3. nodeOf[c] \notin list
      BY <2>1, <2>3 DEF NodeInv
    <3>4. \A d \in Conns \ {c} : InHand(d) => nodeOf[d] # nodeOf[c]
      BY <2>1, <2>3 DEF NodeInv
    <3>5. \A d \in Conns : cb'[d] # "advance"
      BY <2>1, <2>5
    <3>6. \A d \in Conns : InHand(d)' =>
            /\ nodeOf'[d] \notin list'
            /\ \A i \in 1 .. Len(clientPool') : clientPool'[i] # nodeOf'[d]
      BY <2>2, <2>3, <2>6, <3>2, <3>3 DEF NodeInv
    <3>7. \A d, e \in Conns : InHand(d)' /\ InHand(e)' /\ nodeOf'[d] = nodeOf'[e] => d = e
      BY <2>2, <2>6, <3>4 DEF NodeInv
    <3> QED BY <3>1, <3>5, <3>6, <3>7 DEF NodeInv
  <2>8. ASSUME NEW n \in Nodes
        PROVE  \/ n \in list'
               \/ \E i \in 1 .. Len(clientPool') : clientPool'[i] = n
               \/ \E d \in Conns : nodeOf'[d] = n /\ cb'[d] # "advance"
    <3>1. CASE n \in list
      BY <2>2, <3>1
    <3>2. ASSUME NEW i \in 1 .. Len(clientPool), clientPool[i] = n
          PROVE  \/ \E j \in 1 .. Len(clientPool') : clientPool'[j] = n
                 \/ \E d \in Conns : nodeOf'[d] = n /\ cb'[d] # "advance"
      BY <2>1, <2>2, <2>4, <2>5, <3>2
    <3>3. ASSUME NEW d \in Conns, nodeOf[d] = n, cb[d] # "advance"
          PROVE  nodeOf'[d] = n /\ cb'[d] # "advance"
      BY <2>2, <2>5, <3>3
    <3> QED BY <3>1, <3>2, <3>3 DEF HeldInv
  <2> QED BY <2>7, <2>8 DEF HeldInv
<1>9. ASSUME NEW c \in Conns, callbackNodeConn(c) PROVE NodeInv' /\ HeldInv'
  <2>1. /\ UNCHANGED <<list, clientPool, nodeOf>>
        /\ \A d \in Conns \ {c} : cb'[d] = cb[d]
        /\ cb[c] = "conn" /\ cb'[c] \in {"conn", "ip"}
    BY <1>9, <1>t DEF callbackNodeConn
  <2> QED BY <2>1, NodeFrame
<1>10. ASSUME NEW c \in Conns, callbackNodeIp(c) PROVE NodeInv' /\ HeldInv'
  BY <1>10, <1>t, NodeFrame DEF callbackNodeIp
<1>11. ASSUME NEW c \in Conns, callbackRegister(c) PROVE NodeInv' /\ HeldInv'
  <2>1. /\ nodeOf[c] \in Nodes /\ list' = list \cup {nodeOf[c]}
        /\ UNCHANGED clientPool
        /\ cb[c] = "register" /\ InHand(c)
    BY <1>11 DEF callbackRegister, TypeInv, InHand
  <2>2. /\ \A d \in Conns \ {c} : nodeOf'[d] = nodeOf[d] /\ cb'[d] = cb[d]
        /\ nodeOf'[c] = NoNode /\ cb'[c] = "idle"
    BY <1>11, <1>t DEF callbackRegister
  <2>3. ~InHand(c)' /\ \A d \in Conns \ {c} : InHand(d)' <=> InHand(d)
    BY <2>2 DEF InHand
  <2>4. \A d \in Conns \ {c} : InHand(d) => nodeOf[d] # nodeOf[c]
    BY <2>1 DEF NodeInv
  <2>5. NodeInv'
    BY <2>1, <2>2, <2>3, <2>4 DEF NodeInv
  <2>6. HeldInv'
    BY <2>1, <2>2 DEF HeldInv
  <2> QED BY <2>5, <2>6
<1>12. ASSUME NEW c \in Conns, callbackUnregister(c) PROVE NodeInv' /\ HeldInv'
  <2>1. /\ cb[c] = "shutdown" /\ cb'[c] = "close" /\ UNCHANGED nodeOf
        /\ \A d \in Conns \ {c} : cb'[d] = cb[d]
    BY <1>12, <1>t DEF callbackUnregister
  <2>2. nodeOf[c] = NoNode
    BY <2>1, <1>t DEF CallbackInv
  <2>3. CASE UNCHANGED <<list, clientPool>>
    BY <2>1, <2>2, <2>3, NodeFrame
  <2>4. ASSUME NEW n \in list, list' = list \ {n}, poolFree(c, n)
        PROVE  NodeInv' /\ HeldInv'
    <3>1. Len(clientPool) < Cardinality(Nodes)
      <4>1. /\ n \in Nodes
            /\ \A i, j \in 1 .. Len(clientPool) : clientPool[i] = clientPool[j] => i = j
            /\ \A i \in 1 .. Len(clientPool) : clientPool[i] # n
        BY <1>t DEF NodeInv
      <4> QED BY ONLY <1>t, <4>1, PoolRoom
    <3>2. /\ clientPool' = Append(clientPool, n)
          /\ \A d \in Conns : cb[d] # "advance"
      BY <2>1, <2>4, <3>1 DEF poolFree, Allocating
    <3>3. /\ Len(clientPool') = Len(clientPool) + 1
          /\ \A i \in 1 .. Len(clientPool) : clientPool'[i] = clientPool[i]
          /\ clientPool'[Len(clientPool) + 1] = n
      BY <1>t, <3>2, AppendPool
    <3>4. /\ \A i \in 1 .. Len(clientPool) : i \in 1 .. Len(clientPool')
          /\ Len(clientPool) + 1 \in 1 .. Len(clientPool')
          /\ \A i \in 1 .. Len(clientPool') :
               i \in 1 .. Len(clientPool) \/ i = Len(clientPool) + 1
      BY <1>t, <3>3
    <3>5. \A d \in Conns : (InHand(d)' <=> InHand(d)) /\ cb'[d] # "advance"
      BY <2>1, <2>2, <3>2 DEF InHand
    <3>6. /\ \A i, j \in 1 .. Len(clientPool') : clientPool'[i] = clientPool'[j] => i = j
          /\ \A i \in 1 .. Len(clientPool') : clientPool'[i] \notin list'
      BY <2>4, <3>3, <3>4 DEF NodeInv
    <3>7. \A d \in Conns : InHand(d) => nodeOf[d] # n
      BY DEF NodeInv
    <3>8. NodeInv'
      BY <2>1, <2>4, <3>3, <3>4, <3>5, <3>6, <3>7 DEF NodeInv
    <3>9. HeldInv'
      BY <2>1, <2>2, <2>4, <3>3, <3>4 DEF HeldInv
    <3> QED BY <3>8, <3>9
  <2> QED BY <1>12, <2>3, <2>4 DEF callbackUnregister
<1>13. ASSUME NEW c \in Conns, callbackClose(c) PROVE NodeInv' /\ HeldInv'
  BY <1>13, <1>t, NodeFrame DEF callbackClose
<1> QED
  BY <1>1, <1>2, <1>3, <1>4, <1>5, <1>6, <1>7, <1>8, <1>9, <1>10, <1>11, <1>12,
     <1>13, StepCases DEF CallbackStep

(* Every step leaves the linked nodes with their connections. *)
LEMMA ListNext ==
  ASSUME TypeInv, CallbackInv, NodeInv, ListInv, Step, ~raced'
  PROVE  ListInv'
<1> USE ConstAssumption
<1> USE DEF srvVars, quicVars, nodeVars, regVars, dlVars, ubVars
<1>t. /\ conn \in [Conns -> ConnStates] /\ cb \in [Conns -> CbPcs]
      /\ addr \in [Conns -> Addrs]
      /\ nodeOf \in [Conns -> Nodes \cup {NoNode}]
      /\ nodeConn \in [Nodes -> Conns \cup {NoConn}] /\ nodeIp \in [Nodes -> Addrs]
      /\ list \subseteq Nodes /\ listLoop \in BOOLEAN
      /\ \A c \in Conns : cb[c] \in {"ip", "register"} => nodeOf[c] \in Nodes
  BY DEF TypeInv, TypeOK
<1>1. CASE UNCHANGED <<conn, addr, cb, nodeVars, regVars, listLoop, raced>>
  BY <1>1 DEF ListInv
<1>2. CASE stopShutdown
  <2>1. \A d \in Conns : conn[d] \in {"up", "closing", "down"}
                           => conn'[d] \in {"up", "closing", "down"}
    BY <1>2, <1>t DEF stopShutdown
  <2> QED BY <1>2, <2>1 DEF stopShutdown, ListInv
<1>3. ASSUME NEW c \in Conns, HandshakeDone(c) PROVE ListInv'
  <2>1. \A n \in list : nodeConn[n] # c
    BY <1>3 DEF HandshakeDone, ListInv
  <2> QED BY <1>3, <1>t, <2>1 DEF HandshakeDone, ListInv
<1>4. ASSUME NEW c \in Conns, ConnectionLost(c) PROVE ListInv'
  BY <1>4, <1>t DEF ConnectionLost, ListInv
<1>5. ASSUME NEW c \in Conns, ShutdownDone(c) PROVE ListInv'
  BY <1>5, <1>t DEF ShutdownDone, ListInv
<1>6. ASSUME NEW c \in Conns, NEW a \in Addrs, NEW w \in Workers,
             ListnerCallback(c, a, w)
      PROVE  ListInv'
  <2>1. \A d \in Conns : conn[d] # "closed" => addr'[d] = addr[d] /\ conn'[d] = conn[d]
    BY <1>6, <1>t DEF ListnerCallback
  <2>2. \A d \in Conns : cb[d] = "register" => conn[d] # "closed"
    BY DEF CallbackInv
  <2>3. \A n \in list : nodeConn[n] \in Conns /\ conn[nodeConn[n]] # "closed"
    BY DEF ListInv
  <2>4. UNCHANGED <<cb, nodeOf, nodeConn, nodeIp, list, listLoop>>
    BY <1>6 DEF ListnerCallback
  <2> QED BY <2>1, <2>2, <2>3, <2>4 DEF ListInv
<1>7. ASSUME NEW c \in Conns, callbackAlloc(c) PROVE ListInv'
  <2>1. /\ UNCHANGED <<conn, addr, nodeConn, nodeIp, list, listLoop>>
        /\ cb'[c] \in {"advance", "conn"} /\ cb[c] = "alloc"
        /\ \A d \in Conns : d # c => cb'[d] = cb[d] /\ nodeOf'[d] = nodeOf[d]
    BY <1>7, <1>t DEF callbackAlloc
  <2>2. \A n \in list : nodeConn[n] # c
    BY <2>1 DEF ListInv
  <2> QED BY <2>1, <2>2 DEF ListInv
<1>8. ASSUME NEW c \in Conns, callbackAdvance(c) PROVE ListInv'
  <2>1. /\ UNCHANGED <<conn, addr, nodeOf, nodeConn, nodeIp, list, listLoop>>
        /\ cb'[c] = "conn" /\ cb[c] = "advance"
        /\ \A d \in Conns : d # c => cb'[d] = cb[d]
    BY <1>8, <1>t DEF callbackAdvance
  <2>2. \A n \in list : nodeConn[n] # c
    BY <2>1 DEF ListInv
  <2> QED BY <2>1, <2>2 DEF ListInv
<1>9. ASSUME NEW c \in Conns, callbackNodeConn(c) PROVE ListInv'
  <2>1. CASE nodeOf[c] = NoNode
    BY <1>9, <2>1 DEF callbackNodeConn, ListInv
  <2>2. CASE nodeOf[c] # NoNode
    <3>1. /\ nodeOf[c] \in Nodes
          /\ nodeConn' = [nodeConn EXCEPT ![nodeOf[c]] = c]
          /\ cb' = [cb EXCEPT ![c] = "ip"] /\ cb[c] = "conn"
          /\ UNCHANGED <<conn, addr, nodeOf, nodeIp, list, listLoop>>
      BY <1>9, <1>t, <2>2 DEF callbackNodeConn
    <3>2. /\ InHand(c) /\ nodeOf[c] \notin list
          /\ \A d \in Conns \ {c} : InHand(d) => nodeOf[d] # nodeOf[c]
      BY <2>2, <3>1 DEF InHand, NodeInv
    <3>3. \A n \in list : nodeConn'[n] = nodeConn[n] /\ nodeConn[n] # c
      BY <1>t, <3>1, <3>2 DEF ListInv
    <3>4. \A d \in Conns \ {c} :
            cb[d] \in {"ip", "register"} => nodeConn'[nodeOf[d]] = nodeConn[nodeOf[d]]
      BY <1>t, <3>1, <3>2 DEF InHand
    <3>5. nodeConn'[nodeOf[c]] = c /\ cb'[c] = "ip"
          /\ \A d \in Conns \ {c} : cb'[d] = cb[d]
      BY <1>t, <3>1
    <3> QED BY <3>1, <3>3, <3>4, <3>5 DEF ListInv
  <2> QED BY <2>1, <2>2
<1>10. ASSUME NEW c \in Conns, callbackNodeIp(c) PROVE ListInv'
  <2>1. /\ nodeOf[c] \in Nodes
        /\ nodeIp' = [nodeIp EXCEPT ![nodeOf[c]] = addr[c]]
        /\ cb' = [cb EXCEPT ![c] = "register"] /\ cb[c] = "ip"
        /\ UNCHANGED <<conn, addr, nodeOf, nodeConn, list, listLoop>>
    BY <1>10, <1>t DEF callbackNodeIp
  <2>2. /\ InHand(c) /\ nodeOf[c] \notin list
        /\ \A d \in Conns \ {c} : InHand(d) => nodeOf[d] # nodeOf[c]
    BY <2>1 DEF InHand, NodeInv
  <2>3. \A n \in list : nodeIp'[n] = nodeIp[n] /\ nodeConn[n] # c
    BY <1>t, <2>1, <2>2 DEF ListInv
  <2>4. \A d \in Conns \ {c} :
          cb[d] = "register" => nodeIp'[nodeOf[d]] = nodeIp[nodeOf[d]]
    BY <1>t, <2>1, <2>2 DEF InHand
  <2>5. nodeIp'[nodeOf[c]] = addr[c] /\ cb'[c] = "register"
        /\ \A d \in Conns \ {c} : cb'[d] = cb[d]
    BY <1>t, <2>1
  <2> QED BY <2>1, <2>3, <2>4, <2>5 DEF ListInv
<1>11. ASSUME NEW c \in Conns, callbackRegister(c) PROVE ListInv'
  <2>1. /\ nodeOf[c] \in Nodes /\ cb[c] = "register"
        /\ list' = list \cup {nodeOf[c]} /\ cb'[c] = "idle"
        /\ \A d \in Conns \ {c} : cb'[d] = cb[d] /\ nodeOf'[d] = nodeOf[d]
        /\ UNCHANGED <<conn, addr, nodeConn, nodeIp>>
    BY <1>11, <1>t DEF callbackRegister
  <2>2. /\ InHand(c) /\ nodeOf[c] \notin list
    BY <2>1 DEF InHand, NodeInv
  <2>3. ~listLoop'
    BY <1>11, <2>2 DEF callbackRegister, ListInv
  <2>4. /\ nodeConn[nodeOf[c]] = c /\ nodeIp[nodeOf[c]] = addr[c]
        /\ conn[c] \in {"up", "closing"}
        /\ \A n \in list : nodeConn[n] # c
    BY <2>1 DEF ListInv, CallbackInv
  <2>5. \A n \in list' : /\ nodeConn[n] \in Conns
                         /\ addr[nodeConn[n]] = nodeIp[n]
                         /\ conn[nodeConn[n]] \in {"up", "closing", "down"}
                         /\ cb'[nodeConn[n]] \in {"idle", "shutdown"}
    BY <2>1, <2>4 DEF ListInv
  <2>6. \A m, n \in list' : nodeConn[m] = nodeConn[n] => m = n
    BY <2>1, <2>4 DEF ListInv
  <2> QED BY <2>1, <2>3, <2>5, <2>6 DEF ListInv
<1>12. ASSUME NEW c \in Conns, callbackUnregister(c) PROVE ListInv'
  <2>1. /\ cb[c] = "shutdown" /\ cb'[c] = "close" /\ ~listLoop
        /\ \A d \in Conns \ {c} : cb'[d] = cb[d]
        /\ UNCHANGED <<conn, addr, nodeOf, nodeConn, nodeIp>>
    BY <1>12, <1>t DEF callbackUnregister, ListInv
  <2>2. /\ list' \subseteq list /\ \A n \in list' : nodeConn[n] # c
        /\ listLoop' = listLoop
    <3>1. CASE UNCHANGED list /\ \A n \in list : nodeConn[n] # c
      BY <1>12, <3>1 DEF callbackUnregister
    <3>2. ASSUME NEW n \in list, nodeConn[n] = c, list' = list \ {n}
          PROVE  list' \subseteq list /\ \A m \in list' : nodeConn[m] # c
      BY <3>2 DEF ListInv
    <3>3. listLoop' = listLoop
      BY <1>12 DEF callbackUnregister
    <3> QED BY <1>12, <2>1, <3>1, <3>2, <3>3 DEF callbackUnregister
  <2> QED BY <2>1, <2>2 DEF ListInv
<1>13. ASSUME NEW c \in Conns, callbackClose(c) PROVE ListInv'
  <2>1. /\ cb[c] = "close" /\ cb'[c] = "idle"
        /\ \A d \in Conns \ {c} : cb'[d] = cb[d] /\ conn'[d] = conn[d]
        /\ UNCHANGED <<addr, nodeOf, nodeConn, nodeIp, list, listLoop>>
    BY <1>13, <1>t DEF callbackClose
  <2>2. \A n \in list : nodeConn[n] # c
    BY <2>1 DEF ListInv
  <2> QED BY <2>1, <2>2 DEF ListInv
<1> QED
  BY <1>1, <1>2, <1>3, <1>4, <1>5, <1>6, <1>7, <1>8, <1>9, <1>10, <1>11, <1>12,
     <1>13, StepCases DEF CallbackStep

(* Every step leaves the table right. *)
LEMMA HashNext ==
  ASSUME TypeInv, NodeInv, ListInv, HashInv, UniqueInv, Step, ~raced'
  PROVE  HashInv' /\ UniqueInv'
<1> USE ConstAssumption
<1> USE DEF srvVars, quicVars, nodeVars, regVars, dlVars, ubVars
<1>t. /\ nodeOf \in [Conns -> Nodes \cup {NoNode}]
      /\ nodeConn \in [Nodes -> Conns \cup {NoConn}] /\ nodeIp \in [Nodes -> Addrs]
      /\ list \subseteq Nodes /\ overlapped \subseteq Addrs
      /\ hashVal \in [Addrs -> Nodes \cup {NoNode}]
      /\ hashKey \in [Addrs -> Nodes \cup {NoNode}]
      /\ \A c \in Conns : cb[c] \in {"ip", "register"} => nodeOf[c] \in Nodes
  BY DEF TypeInv, TypeOK
<1>f. ASSUME UNCHANGED <<list, hashVal, hashKey, overlapped>>,
             \A n \in list : nodeIp'[n] = nodeIp[n]
      PROVE  HashInv' /\ UniqueInv'
  BY <1>f DEF HashInv, UniqueInv
<1>1. CASE UNCHANGED <<conn, addr, cb, nodeVars, regVars, listLoop, raced>>
  BY <1>1, <1>f
<1>2. CASE stopShutdown
  BY <1>2, <1>f DEF stopShutdown
<1>3. ASSUME NEW c \in Conns,
             HandshakeDone(c) \/ ConnectionLost(c) \/ ShutdownDone(c)
      PROVE  HashInv' /\ UniqueInv'
  BY <1>3, <1>f DEF HandshakeDone, ConnectionLost, ShutdownDone
<1>4. ASSUME NEW c \in Conns, NEW a \in Addrs, NEW w \in Workers,
             ListnerCallback(c, a, w)
      PROVE  HashInv' /\ UniqueInv'
  BY <1>4, <1>f DEF ListnerCallback
<1>5. ASSUME NEW c \in Conns,
             \/ callbackAlloc(c) \/ callbackAdvance(c) \/ callbackNodeConn(c)
             \/ callbackClose(c)
      PROVE  HashInv' /\ UniqueInv'
  BY <1>5, <1>f DEF callbackAlloc, callbackAdvance, callbackNodeConn, callbackClose
<1>6. ASSUME NEW c \in Conns, callbackNodeIp(c) PROVE HashInv' /\ UniqueInv'
  <2>1. nodeOf[c] \in Nodes /\ nodeOf[c] \notin list
    BY <1>6, <1>t DEF callbackNodeIp, InHand, NodeInv
  <2> QED BY <1>6, <1>f, <1>t, <2>1 DEF callbackNodeIp
<1>7. ASSUME NEW c \in Conns, callbackRegister(c) PROVE HashInv' /\ UniqueInv'
  <2> DEFINE m == nodeOf[c]
             b == nodeIp[m]
  <2>1. m \in Nodes /\ m \notin list /\ b \in Addrs
    BY <1>7, <1>t DEF callbackRegister, InHand, NodeInv
  <2>2. /\ list' = list \cup {m} /\ UNCHANGED nodeIp
        /\ hashVal'[b] = m
        /\ hashKey'[b] = IF hashVal[b] = NoNode THEN m ELSE hashKey[b]
        /\ \A a \in Addrs \ {b} : hashVal'[a] = hashVal[a] /\ hashKey'[a] = hashKey[a]
        /\ overlapped' = IF \E n \in list : nodeIp[n] = b
                         THEN overlapped \cup {b} ELSE overlapped \ {b}
    BY <1>7, <1>t, <2>1 DEF callbackRegister, hashSet
  <2> HIDE DEF m, b
  <2>3. HashInv'
    <3>1. ASSUME NEW a \in Addrs, a # b, hashVal'[a] # NoNode
          PROVE  /\ hashVal'[a] \in list' /\ nodeIp'[hashVal'[a]] = a
                 /\ hashKey'[a] \in list' /\ nodeIp'[hashKey'[a]] = a
      BY <2>2, <3>1 DEF HashInv
    <3>2. /\ hashVal'[b] \in list' /\ nodeIp'[hashVal'[b]] = b
          /\ hashKey'[b] \in list' /\ nodeIp'[hashKey'[b]] = b
      BY <2>1, <2>2 DEF HashInv, m, b
    <3> QED BY <3>1, <3>2 DEF HashInv
  <2>4. ASSUME NEW n \in list', nodeIp'[n] \notin overlapped'
        PROVE  hashVal'[nodeIp'[n]] = n
    <3>1. CASE n = m
      BY <2>1, <2>2, <3>1 DEF b
    <3>2. CASE n # m
      <4>1. n \in list /\ nodeIp[n] \in Addrs
        BY <1>t, <2>2, <3>2
      <4>2. nodeIp[n] # b
        BY <2>2, <2>4, <4>1
      <4> QED BY <2>2, <2>4, <4>1, <4>2 DEF UniqueInv
    <3> QED BY <3>1, <3>2
  <2> QED BY <2>3, <2>4 DEF UniqueInv
<1>8. ASSUME NEW c \in Conns, callbackUnregister(c) PROVE HashInv' /\ UniqueInv'
  <2>1. UNCHANGED <<nodeIp, overlapped>>
    BY <1>8 DEF callbackUnregister
  <2>2. CASE UNCHANGED regVars
    BY <2>1, <2>2, <1>f
  <2>3. ASSUME NEW n \in list, hashDelete(n), list' = list \ {n}
        PROVE  HashInv' /\ UniqueInv'
    <3>1. /\ hashVal'[nodeIp[n]] = NoNode
          /\ \A a \in Addrs \ {nodeIp[n]} :
               hashVal'[a] = hashVal[a] /\ hashKey'[a] = hashKey[a]
      BY <1>t, <2>3 DEF hashDelete
    <3>2. HashInv'
      BY <1>t, <2>1, <2>3, <3>1 DEF HashInv
    <3>3. ASSUME NEW k \in list', nodeIp'[k] \notin overlapped'
          PROVE  hashVal'[nodeIp'[k]] = k
      <4>1. k \in list /\ k # n /\ nodeIp[k] \in Addrs
        BY <1>t, <2>3
      <4>2. hashVal[nodeIp[k]] = k /\ nodeIp[k] # nodeIp[n]
        BY <2>1, <3>3, <4>1 DEF UniqueInv
      <4> QED BY <2>1, <3>1, <4>1, <4>2
    <3> QED BY <3>2, <3>3 DEF UniqueInv
  <2> QED BY <1>8, <2>2, <2>3 DEF callbackUnregister
<1> QED
  BY <1>1, <1>2, <1>3, <1>4, <1>5, <1>6, <1>7, <1>8, StepCases DEF CallbackStep

(* Every step leaves quic_server_send_downlink with the connection it looked *)
(* up, or marks that connection as closed.                                  *)
LEMMA DownlinkNext ==
  ASSUME TypeInv, CallbackInv, ListInv, HashInv, DownlinkInv, Step
  PROVE  DownlinkInv'
<1> USE DEF srvVars, quicVars, nodeVars, regVars, dlVars, ubVars
<1>t. /\ conn \in [Conns -> ConnStates] /\ addr \in [Conns -> Addrs]
      /\ dl \in {"alloc", "send"} => dlConn \in Conns
      /\ dlAddr \in Addrs /\ dlStale \in BOOLEAN
  BY DEF TypeInv, TypeOK
<1>f. ASSUME UNCHANGED dlVars,
             \A d \in Conns : conn[d] \in {"up", "closing", "down"} =>
               addr'[d] = addr[d] /\ conn'[d] \in {"up", "closing", "down"}
      PROVE  DownlinkInv'
  BY <1>f, <1>t DEF DownlinkInv
<1>1. CASE ListnerStopped \/ stopRegistration \/ stopFinal
  BY <1>1, <1>f DEF ListnerStopped, stopRegistration, stopFinal
<1>2. CASE stopListener \/ stopShutdown
  BY <1>2, <1>f, <1>t DEF stopListener, stopShutdown
<1>3. CASE downlinkLookup
  <2>1. CASE hashVal[dlAddr] = NoNode
    BY <1>3, <2>1 DEF downlinkLookup, DownlinkInv
  <2>2. CASE hashVal[dlAddr] # NoNode
    <3>1. hashVal[dlAddr] \in list /\ nodeIp[hashVal[dlAddr]] = dlAddr
      BY <1>t, <2>2 DEF HashInv
    <3>2. /\ addr[nodeConn[hashVal[dlAddr]]] = dlAddr
          /\ conn[nodeConn[hashVal[dlAddr]]] \in {"up", "closing", "down"}
      BY <3>1 DEF ListInv
    <3>3. /\ dlConn' = nodeConn[hashVal[dlAddr]]
          /\ UNCHANGED <<conn, addr, dlAddr, dlStale>>
      BY <1>3, <2>2 DEF downlinkLookup
    <3> QED BY <3>2, <3>3 DEF DownlinkInv
  <2> QED BY <2>1, <2>2
<1>4. CASE downlinkDrop
  BY <1>4 DEF downlinkDrop, DownlinkInv
<1>5. CASE downlinkAlloc
  BY <1>5 DEF downlinkAlloc, DownlinkInv
<1>6. CASE downlinkSend
  BY <1>6 DEF downlinkSend, DownlinkInv
<1>7. ASSUME NEW a \in Addrs, downlinkStart(a) PROVE DownlinkInv'
  BY <1>7 DEF downlinkStart, DownlinkInv
<1>8. ASSUME NEW c \in Conns, NEW s \in SendCtxs, callbackSendFinal(c, s)
      PROVE  DownlinkInv'
  BY <1>8, <1>f DEF callbackSendFinal
<1>9. ASSUME NEW c \in Conns, NEW a \in Addrs, NEW w \in Workers,
             ListnerCallback(c, a, w)
      PROVE  DownlinkInv'
  <2>1. \A d \in Conns : conn[d] # "closed" => addr'[d] = addr[d] /\ conn'[d] = conn[d]
    BY <1>9, <1>t DEF ListnerCallback
  <2> QED BY <1>9, <2>1, <1>f DEF ListnerCallback
<1>10. ASSUME NEW c \in Conns, HandshakeDone(c) \/ ConnectionLost(c) \/ ShutdownDone(c)
       PROVE  DownlinkInv'
  <2>1. UNCHANGED <<addr, dlVars>>
    BY <1>10 DEF HandshakeDone, ConnectionLost, ShutdownDone
  <2>2. \A d \in Conns : conn[d] \in {"up", "closing", "down"} =>
          conn'[d] \in {"up", "closing", "down"}
    BY <1>10, <1>t DEF HandshakeDone, ConnectionLost, ShutdownDone
  <2> QED BY <2>1, <2>2, <1>f
<1>11. ASSUME NEW c \in Conns,
              \/ callbackAlloc(c) \/ callbackAdvance(c) \/ callbackNodeConn(c)
              \/ callbackNodeIp(c) \/ callbackRegister(c) \/ callbackUnregister(c)
       PROVE  DownlinkInv'
  <2>1. UNCHANGED <<conn, addr, dlVars>>
    BY <1>11 DEF callbackAlloc, callbackAdvance, callbackNodeConn, callbackNodeIp,
       callbackRegister, callbackUnregister
  <2> QED BY <2>1, <1>f
<1>12. ASSUME NEW c \in Conns, callbackClose(c) PROVE DownlinkInv'
  <2>1. /\ UNCHANGED <<addr, dl, dlAddr, dlConn>>
        /\ \A d \in Conns : d # c => conn'[d] = conn[d]
        /\ ~dlStale' /\ dl \in {"alloc", "send"} => ~dlStale /\ dlConn # c
    BY <1>12, <1>t DEF callbackClose
  <2> QED BY <1>t, <2>1 DEF DownlinkInv
<1> QED
  BY <1>1, <1>2, <1>3, <1>4, <1>5, <1>6, <1>7, <1>8, <1>9, <1>10, <1>11, <1>12
  DEF Step, CallbackStep, DownlinkStep, StopStep

-----------------------------------------------------------------------------
(* TypeInv is an invariant. *)
LEMMA TypeInvHolds == Spec => []TypeInv
<1>1. Init => TypeInv
  BY InitInv DEF Inv
<1>2. TypeInv /\ [Next]_vars => TypeInv'
  <2>1. TypeInv /\ UNCHANGED vars => TypeInv'
    BY DEF TypeInv, TypeOK, vars, srvVars, quicVars, nodeVars, regVars, dlVars, ubVars
  <2> QED BY <2>1, TypeNext DEF Next, Ended
<1> QED BY <1>1, <1>2, PTL DEF Spec

(* Inv is an invariant. *)
LEMMA InvHolds == Spec => []Inv
<1>1. Inv /\ [Next]_vars => Inv'
  <2> SUFFICES ASSUME Inv, [Next]_vars PROVE Inv'
    OBVIOUS
  <2>1. CASE UNCHANGED vars
    <3> USE <2>1 DEF vars, srvVars, quicVars, nodeVars, regVars, dlVars, ubVars
    <3>1. TypeInv' /\ CallbackInv' /\ raced' = raced
      BY DEF Inv, TypeInv, TypeOK, CallbackInv
    <3>2. Registry => Registry'
      BY DEF Registry, NodeInv, ListInv, HashInv, DownlinkInv, HeldInv, UniqueInv,
             InHand
    <3> QED BY <3>1, <3>2 DEF Inv
  <2>2. CASE Step
    <3>1. TypeInv' /\ CallbackInv'
      BY <2>2, TypeNext, CallbackNext DEF Inv
    <3>2. ASSUME ~raced' PROVE Registry'
      <4>1. TypeInv /\ CallbackInv /\ Registry
        BY <2>2, <3>2, RacedStays DEF Inv
      <4> QED BY <2>2, <3>2, <4>1, NodeNext, ListNext, HashNext, DownlinkNext
              DEF Registry
    <3> QED BY <3>1, <3>2 DEF Inv
  <2> QED BY <2>1, <2>2 DEF Next, Ended
<1> QED BY InitInv, <1>1, PTL DEF Spec

(* Every variable of the server keeps its type: in particular, each thread  *)
(* uses a node and a send context it has really been given.                 *)
THEOREM TypeCorrect == Spec => []TypeOK
<1>1. TypeInv => TypeOK
  BY DEF TypeInv
<1> QED BY TypeInvHolds, <1>1, PTL

(* Until accesses to quic_client_pool overlap, the table under              *)
(* quic_client_mutex never returns a connection of another gNB or one that  *)
(* has been closed (quic_server_send_downlink), however many workers run    *)
(* callbacks and however connections of one gNB overlap.                    *)
THEOREM RegistryConsistentHolds == Spec => []RegistryConsistent
<1>1. Inv => RegistryConsistent
  BY DEF Inv, Registry, ListInv, HashInv, RegistryConsistent
<1> QED BY InvHolds, <1>1, PTL

(* Until accesses to quic_client_pool overlap, the key ogs_hash_set keeps   *)
(* for an entry never points into a node that has gone back to the pool     *)
(* (ConnectionCallback).                                                    *)
THEOREM HashKeyAliveHolds == Spec => []HashKeyAlive
<1>1. Inv => HashKeyAlive
  BY DEF Inv, Registry, HashInv, HashKeyAlive
<1> QED BY InvHolds, <1>1, PTL

(* A close between the look-up and DatagramSend, or overlapping accesses to *)
(* quic_client_pool, are the only ways for quic_server_send_downlink to     *)
(* hold the connection of another gNB or a closed handle, although handles  *)
(* are reused.                                                              *)
THEOREM MisroutedOnlyAfterCloseHolds == Spec => []MisroutedOnlyAfterClose
<1>1. Inv => MisroutedOnlyAfterClose
  BY DEF Inv, Registry, DownlinkInv, MisroutedOnlyAfterClose
<1> QED BY InvHolds, <1>1, PTL

(* Overlapping accesses aside, the table misses a registered gNB only if it *)
(* registered again before its older connection was cleaned up              *)
(* (ConnectionCallback, SHUTDOWN_COMPLETE).                                 *)
THEOREM UnknownOnlyAfterOverlapHolds == Spec => []UnknownOnlyAfterOverlap
<1>1. Inv => UnknownOnlyAfterOverlap
  BY ConstAssumption DEF Inv, TypeInv, TypeOK, Registry, UniqueInv,
     UnknownOnlyAfterOverlap
<1> QED BY InvHolds, <1>1, PTL

(* Only overlapping accesses to quic_client_pool can give a linked node     *)
(* another connection's handle or another gNB's address: with them the      *)
(* claim fails (the run upf_race), without them it is proved here.          *)
THEOREM NodeMatchesUnlessRaced == Spec => [](~raced => NodeMatchesConnection)
<1>1. Inv => (~raced => NodeMatchesConnection)
  BY DEF Inv, Registry, ListInv, NodeMatchesConnection
<1> QED BY InvHolds, <1>1, PTL

(* The owners of a node: the ring once, the list, or one callback. *)
LEMMA OneOwner ==
  ASSUME Inv, ~raced, NEW n \in Nodes
  PROVE  Cardinality({i \in DOMAIN clientPool : clientPool[i] = n})
           + (IF n \in list THEN 1 ELSE 0)
           + Cardinality({c \in Conns : nodeOf[c] = n /\ cb[c] # "advance"}) = 1
<1> DEFINE A == {i \in DOMAIN clientPool : clientPool[i] = n}
           B == {c \in Conns : nodeOf[c] = n /\ cb[c] # "advance"}
<1>p. clientPool \in Seq(Nodes) /\ n # NoNode
  BY ConstAssumption DEF Inv, TypeInv, TypeOK
<1>c. Cardinality({}) = 0 /\ \A x : Cardinality({x}) = 1
  BY FS_EmptySet, FS_Singleton
<1>d. DOMAIN clientPool = 1 .. Len(clientPool)
  BY <1>p
<1>1. ASSUME NEW i \in DOMAIN clientPool, clientPool[i] = n
      PROVE  A = {i} /\ n \notin list
  BY <1>1, <1>p, <1>c, <1>d DEF Inv, Registry, NodeInv, InHand
<1>2. ASSUME NEW c \in Conns, nodeOf[c] = n, cb[c] # "advance"
      PROVE  A = {} /\ n \notin list /\ B = {c}
  <2>1. InHand(c)
    BY <1>2, <1>p DEF InHand
  <2>2. A = {} /\ n \notin list
    BY <1>2, <1>d, <2>1 DEF Inv, Registry, NodeInv
  <2>3. \A d \in Conns : nodeOf[d] = n /\ cb[d] # "advance" => InHand(d)
    BY <1>p DEF InHand
  <2>4. B = {c}
    BY <1>2, <2>1, <2>3 DEF Inv, Registry, NodeInv
  <2> QED BY <2>2, <2>4
<1>3. \/ n \in list \/ A # {} \/ B # {}
  BY <1>p, <1>c, <1>d DEF Inv, Registry, HeldInv
<1>4. CASE B # {}
  <2>1. PICK c \in Conns : nodeOf[c] = n /\ cb[c] # "advance"
    BY <1>4
  <2>2. A = {} /\ n \notin list /\ B = {c}
    BY <1>2, <2>1
  <2>3. Cardinality(A) = 0 /\ Cardinality(B) = 1
    BY <1>p, <1>c, <1>d, <2>2
  <2> HIDE DEF A, B
  <2>4. Cardinality(A) + (IF n \in list THEN 1 ELSE 0) + Cardinality(B) = 1
    BY <2>2, <2>3
  <2> QED BY <2>4 DEF A, B
<1>5. CASE B = {} /\ A # {}
  <2>1. PICK i \in DOMAIN clientPool : clientPool[i] = n
    BY <1>5
  <2>2. A = {i} /\ n \notin list
    BY <1>1, <2>1
  <2>3. Cardinality(A) = 1 /\ Cardinality(B) = 0
    BY <1>p, <1>c, <1>d, <1>5, <2>2
  <2> HIDE DEF A, B
  <2>4. Cardinality(A) + (IF n \in list THEN 1 ELSE 0) + Cardinality(B) = 1
    BY <2>2, <2>3
  <2> QED BY <2>4 DEF A, B
<1>6. CASE B = {} /\ A = {}
  <2>1. Cardinality(A) = 0 /\ Cardinality(B) = 0
    BY <1>p, <1>c, <1>d, <1>6
  <2> HIDE DEF A, B
  <2>2. Cardinality(A) + (IF n \in list THEN 1 ELSE 0) + Cardinality(B) = 1
    BY <1>3, <1>6, <2>1
  <2> QED BY <2>2 DEF A, B
<1> QED BY <1>4, <1>5, <1>6

(* Until an ogs_pool_alloc overlaps another access to quic_client_pool, a   *)
(* node is free, linked, or in the hands of one CONNECTED callback, for any *)
(* number of workers and of gNBs that come, go and overlap.                 *)
THEOREM NodeOwnershipHolds == Spec => []NodeOwnership
<1>1. Inv => NodeOwnership
  BY OneOwner DEF NodeOwnership
<1> QED BY InvHolds, <1>1, PTL

(* Overlapping accesses aside, the missing null test after ogs_pool_alloc   *)
(* bites only when every node of the pool is linked or in the hands of      *)
(* another CONNECTED callback.                                              *)
THEOREM NullNodeOnlyAtCapacityHolds == Spec => NullNodeOnlyAtCapacity
<1> DEFINE Full(c) == \A n \in Nodes : n \in list \/ \E d \in Conns \ {c} : nodeOf[d] = n
           A == \A c \in Conns : ~raced' /\ cb[c] = "alloc" /\ cb'[c] = "conn" => Full(c)
<1>1. Inv /\ [Next]_vars => [A]_vars
  <2> SUFFICES ASSUME Inv, Step, NEW c \in Conns, ~raced', cb[c] = "alloc", cb'[c] = "conn"
               PROVE  Full(c)
    BY DEF Next, Ended, vars
  <2>t. cb \in [Conns -> CbPcs] /\ nodeOf[c] = NoNode
    BY DEF Inv, TypeInv, TypeOK, CallbackInv
  <2>1. callbackAlloc(c)
    <3>1. ASSUME NEW d \in Conns, CallbackStep(d), d # c PROVE cb'[c] = cb[c]
      BY <2>t, <3>1 DEF CallbackStep, callbackAlloc, callbackAdvance, callbackNodeConn,
         callbackNodeIp, callbackRegister, callbackUnregister, callbackClose
    <3>2. CASE CallbackStep(c)
      BY <3>2 DEF CallbackStep, callbackAlloc, callbackAdvance, callbackNodeConn,
         callbackNodeIp, callbackRegister, callbackUnregister, callbackClose
    <3>3. ASSUME NEW d \in Conns, HandshakeDone(d) \/ ShutdownDone(d)
          PROVE  cb'[c] # "conn"
      BY <2>t, <3>3 DEF HandshakeDone, ShutdownDone
    <3>4. ASSUME NEW d \in Conns, ConnectionLost(d) PROVE cb'[c] = cb[c]
      BY <3>4 DEF ConnectionLost
    <3>5. ASSUME NEW d \in Conns, NEW a \in Addrs, NEW w \in Workers,
                 ListnerCallback(d, a, w)
          PROVE  cb'[c] = cb[c]
      BY <3>5 DEF ListnerCallback
    <3>6. CASE stopShutdown
      BY <3>6 DEF stopShutdown
    <3> QED BY <3>1, <3>2, <3>3, <3>4, <3>5, <3>6, StepCases
  <2>2. clientPool = <<>> /\ Len(clientPool) = 0
    BY <2>1, <2>t DEF callbackAlloc
  <2>3. Registry
    BY RacedStays DEF Inv
  <2> QED BY <2>2, <2>3, <2>t, ConstAssumption DEF Registry, HeldInv
<1>2. NullNodeOnlyAtCapacity <=> [][A]_vars
  BY DEF NullNodeOnlyAtCapacity
<1> QED BY <1>1, <1>2, InvHolds, PTL DEF Spec

-----------------------------------------------------------------------------
(* The owners of send contexts, and the end of the server *)

(* A step that moves no send context keeps its owner. *)
LEMMA CtxFrame ==
  ASSUME CtxInv, ~crashed, UNCHANGED <<sendPool, inflight, dlCtx>>,
         dl' = "send" <=> dl = "send"
  PROVE  CtxInv'
BY DEF CtxInv

(* Every step keeps one owner for each send context. *)
LEMMA CtxNext == ASSUME TypeInv, CtxInv, ~crashed, Step PROVE CtxInv'
<1> USE ConstAssumption
<1> USE DEF srvVars, quicVars, nodeVars, regVars, dlVars, ubVars
<1>t. /\ sendPool \subseteq SendCtxs /\ inflight \subseteq Conns \X SendCtxs
      /\ \A e \in inflight : e[1] \in Conns /\ e[2] \in SendCtxs /\ e = <<e[1], e[2]>>
      /\ dl \in {"alloc", "send"} => dlConn \in Conns
      /\ dl = "send" => dlCtx \in SendCtxs
      /\ dlCtx \in SendCtxs \cup {NoCtx}
  BY DEF TypeInv, TypeOK
<1>o. /\ dlCtx # NoCtx <=> dl = "send"
      /\ dlCtx \notin sendPool
      /\ \A e \in inflight :
           /\ e[2] \notin sendPool /\ e[2] # dlCtx
           /\ \A f \in inflight : e[2] = f[2] => e[1] = f[1]
      /\ \A s \in SendCtxs : \/ s \in sendPool \/ s = dlCtx
                             \/ \E c \in Conns : <<c, s>> \in inflight
  BY DEF CtxInv
<1>1. CASE ListnerStopped
  BY <1>1, CtxFrame DEF ListnerStopped
<1>2. CASE downlinkLookup
  BY <1>2, CtxFrame DEF downlinkLookup
<1>3. CASE downlinkDrop
  BY <1>3, CtxFrame DEF downlinkDrop
<1>4. CASE downlinkAlloc
  <2>1. PICK s \in sendPool : dlCtx' = s /\ sendPool' = sendPool \ {s}
    BY <1>4 DEF downlinkAlloc
  <2>2. dl' = "send" /\ inflight' = inflight /\ dlCtx = NoCtx /\ s # NoCtx
    BY <1>4, <1>o, <1>t, <2>1 DEF downlinkAlloc
  <2>3. \A e \in inflight : e[2] # s
    BY <1>o, <2>1
  <2> QED BY <1>t, <1>o, <2>1, <2>2, <2>3 DEF CtxInv
<1>5. CASE downlinkSend
  <2>1. dlConn \in Conns /\ dlCtx \in SendCtxs /\ dl' = "idle" /\ dlCtx' = NoCtx
    BY <1>5, <1>t DEF downlinkSend
  <2>2. CASE inflight' = inflight \cup {<<dlConn, dlCtx>>} /\ UNCHANGED sendPool
    <3>1. \A e \in inflight' : e \in inflight \/ e = <<dlConn, dlCtx>>
      BY <2>2
    <3>2. \A e \in inflight' :
            /\ e[2] \notin sendPool' /\ e[2] # dlCtx'
            /\ \A f \in inflight' : e[2] = f[2] => e[1] = f[1]
      BY <1>t, <1>o, <2>1, <2>2, <3>1
    <3>3. \A s \in SendCtxs : s \in sendPool' \/ \E c \in Conns : <<c, s>> \in inflight'
      BY <1>o, <2>1, <2>2
    <3> QED BY <1>t, <2>1, <2>2, <3>2, <3>3 DEF CtxInv
  <2>3. CASE sendPool' = sendPool \cup {dlCtx} /\ UNCHANGED inflight
    BY <1>t, <1>o, <2>1, <2>3 DEF CtxInv
  <2>4. CASE crashed'
    BY <2>4 DEF CtxInv
  <2> QED BY <1>5, <2>2, <2>3, <2>4 DEF downlinkSend
<1>6. CASE stopListener
  BY <1>6, CtxFrame DEF stopListener
<1>7. CASE stopShutdown
  BY <1>7, CtxFrame DEF stopShutdown
<1>8. CASE stopRegistration
  BY <1>8, CtxFrame DEF stopRegistration
<1>9. CASE stopFinal
  BY <1>9, CtxFrame DEF stopFinal
<1>10. ASSUME NEW c \in Conns, HandshakeDone(c) PROVE CtxInv'
  BY <1>10, CtxFrame DEF HandshakeDone
<1>11. ASSUME NEW c \in Conns, ConnectionLost(c) PROVE CtxInv'
  BY <1>11, CtxFrame DEF ConnectionLost
<1>12. ASSUME NEW c \in Conns, ShutdownDone(c) PROVE CtxInv'
  BY <1>12, CtxFrame DEF ShutdownDone
<1>13. ASSUME NEW c \in Conns, callbackAlloc(c) PROVE CtxInv'
  BY <1>13, CtxFrame DEF callbackAlloc
<1>14. ASSUME NEW c \in Conns, callbackAdvance(c) PROVE CtxInv'
  BY <1>14, CtxFrame DEF callbackAdvance
<1>15. ASSUME NEW c \in Conns, callbackNodeConn(c) PROVE CtxInv'
  BY <1>15, CtxFrame DEF callbackNodeConn
<1>16. ASSUME NEW c \in Conns, callbackNodeIp(c) PROVE CtxInv'
  BY <1>16, CtxFrame DEF callbackNodeIp
<1>17. ASSUME NEW c \in Conns, callbackRegister(c) PROVE CtxInv'
  BY <1>17, CtxFrame DEF callbackRegister
<1>18. ASSUME NEW c \in Conns, callbackUnregister(c) PROVE CtxInv'
  BY <1>18, CtxFrame DEF callbackUnregister
<1>19. ASSUME NEW c \in Conns, callbackClose(c) PROVE CtxInv'
  BY <1>19, CtxFrame DEF callbackClose
<1>20. ASSUME NEW c \in Conns, NEW s \in SendCtxs, callbackSendFinal(c, s)
       PROVE  CtxInv'
  <2>1. /\ <<c, s>> \in inflight /\ inflight' = inflight \ {<<c, s>>}
        /\ sendPool' = sendPool \cup {s} /\ UNCHANGED <<dl, dlCtx, crashed>>
    BY <1>20 DEF callbackSendFinal
  <2>2. s # dlCtx /\ \A e \in inflight : e[2] = s => e = <<c, s>>
    <3>1. <<c, s>>[1] = c /\ <<c, s>>[2] = s
      OBVIOUS
    <3>2. <<c, s>>[2] # dlCtx
      BY <1>o, <2>1
    <3>3. \A e \in inflight : e[2] = <<c, s>>[2] => e[1] = <<c, s>>[1]
      BY <1>o, <2>1
    <3> QED BY <1>t, <3>1, <3>2, <3>3
  <2>3. \A e \in inflight' : e[2] \notin sendPool' /\ e[2] # dlCtx'
    BY <1>o, <2>1, <2>2
  <2>4. \A r \in SendCtxs : \/ r \in sendPool' \/ r = dlCtx'
                           \/ \E d \in Conns : <<d, r>> \in inflight'
    BY <1>o, <2>1
  <2>5. dlCtx' \notin sendPool'
    BY <1>o, <2>1, <2>2
  <2> QED BY <1>o, <2>1, <2>3, <2>4, <2>5 DEF CtxInv
<1>21. ASSUME NEW c \in Conns, NEW a \in Addrs, NEW w \in Workers,
              ListnerCallback(c, a, w)
       PROVE  CtxInv'
  BY <1>21, CtxFrame DEF ListnerCallback
<1>22. ASSUME NEW a \in Addrs, downlinkStart(a) PROVE CtxInv'
  BY <1>22, CtxFrame DEF downlinkStart
<1> QED
  BY <1>1, <1>2, <1>3, <1>4, <1>5, <1>6, <1>7, <1>8, <1>9, <1>10, <1>11, <1>12,
     <1>13, <1>14, <1>15, <1>16, <1>17, <1>18, <1>19, <1>20, <1>21, <1>22
  DEF Step, CallbackStep, DownlinkStep, StopStep

LEMMA CtxInvHolds == Spec => []CtxInv
<1>1. Init => CtxInv
  BY ConstAssumption DEF Init, CtxInv
<1>2. TypeInv /\ CtxInv /\ [Next]_vars => CtxInv'
  <2> SUFFICES ASSUME TypeInv, CtxInv, [Next]_vars PROVE CtxInv'
    OBVIOUS
  <2>1. CASE ~crashed /\ Step
    BY <2>1, CtxNext
  <2>2. CASE UNCHANGED vars
    BY <2>2 DEF CtxInv, vars, quicVars, dlVars, ubVars
  <2> QED BY <2>1, <2>2 DEF Next, Ended
<1> QED BY <1>1, <1>2, TypeInvHolds, PTL DEF Spec

(* A send context is never freed twice and never lost, for any number of    *)
(* workers, connections and contexts.                                       *)
THEOREM SendCtxOwnershipHolds == Spec => []SendCtxOwnership
<1>1. TypeInv /\ CtxInv => SendCtxOwnership
  <2> SUFFICES ASSUME TypeInv, CtxInv, ~crashed, NEW s \in SendCtxs
               PROVE  (IF s \in sendPool THEN 1 ELSE 0) + (IF s = dlCtx THEN 1 ELSE 0)
                        + Cardinality({c \in Conns : <<c, s>> \in inflight}) = 1
    BY DEF SendCtxOwnership
  <2> DEFINE H == {c \in Conns : <<c, s>> \in inflight}
  <2>1. ASSUME NEW c \in Conns, <<c, s>> \in inflight
        PROVE  s \notin sendPool /\ s # dlCtx /\ H = {c}
    <3>1. <<c, s>>[2] \notin sendPool /\ <<c, s>>[2] # dlCtx
      BY <2>1 DEF CtxInv
    <3>2. \A d \in Conns : <<d, s>> \in inflight =>
            (<<c, s>>[2] = <<d, s>>[2] => <<c, s>>[1] = <<d, s>>[1])
      BY <2>1 DEF CtxInv
    <3> QED BY <2>1, <3>1, <3>2
  <2>2. CASE H = {}
    <3>1. \A c \in Conns : <<c, s>> \notin inflight
      BY <2>2
    <3>2. s \in sendPool \/ s = dlCtx
      BY <3>1 DEF CtxInv
    <3>3. ~(s \in sendPool /\ s = dlCtx)
      BY DEF CtxInv
    <3>4. Cardinality(H) = 0
      BY <2>2, FS_EmptySet
    <3> HIDE DEF H
    <3>5. (IF s \in sendPool THEN 1 ELSE 0) + (IF s = dlCtx THEN 1 ELSE 0)
            + Cardinality(H) = 1
      BY <3>2, <3>3, <3>4
    <3> QED BY <3>5 DEF H
  <2>3. CASE H # {}
    <3>1. PICK c \in Conns : <<c, s>> \in inflight
      BY <2>3
    <3>2. s \notin sendPool /\ s # dlCtx /\ H = {c}
      BY <2>1, <3>1
    <3>3. Cardinality(H) = 1
      BY <3>2, FS_Singleton
    <3> HIDE DEF H
    <3>4. (IF s \in sendPool THEN 1 ELSE 0) + (IF s = dlCtx THEN 1 ELSE 0)
            + Cardinality(H) = 1
      BY <3>2, <3>3
    <3> QED BY <3>4 DEF H
  <2> QED BY <2>2, <2>3
<1> QED BY <1>1, TypeInvHolds, CtxInvHolds, PTL

(* Every step keeps what StopQuicServer relies on. *)
LEMMA StopNext == ASSUME TypeInv, CallbackInv, StopInv, ~crashed, Step PROVE StopInv'
<1> USE ConstAssumption
<1> USE DEF srvVars, quicVars, nodeVars, regVars, dlVars, ubVars
<1>t. /\ conn \in [Conns -> ConnStates] /\ cb \in [Conns -> CbPcs]
      /\ inflight \subseteq Conns \X SendCtxs
      /\ \A e \in inflight : e[1] \in Conns /\ e[2] \in SendCtxs /\ e = <<e[1], e[2]>>
  BY DEF TypeInv, TypeOK
<1>1. CASE ListnerStopped
  BY <1>1, <1>t DEF ListnerStopped, StopInv, Open
<1>2. CASE downlinkLookup
  <2>1. srv = "running"
    BY <1>2 DEF downlinkLookup, StopInv
  <2> QED BY <1>2, <2>1 DEF downlinkLookup, StopInv
<1>3. CASE downlinkDrop
  <2>1. srv = "running"
    BY <1>3 DEF downlinkDrop, StopInv
  <2> QED BY <1>3, <2>1 DEF downlinkDrop, StopInv
<1>4. CASE downlinkAlloc
  <2>1. srv = "running"
    BY <1>4 DEF downlinkAlloc, StopInv
  <2> QED BY <1>4, <2>1 DEF downlinkAlloc, StopInv
<1>5. CASE downlinkSend
  <2>1. srv = "running"
    BY <1>5 DEF downlinkSend, StopInv
  <2>2. \A e \in inflight' : conn'[e[1]] \in {"handshake", "up", "closing"}
    BY <1>5 DEF downlinkSend, StopInv
  <2> QED BY <1>5, <2>1, <2>2 DEF downlinkSend, StopInv
<1>6. CASE stopListener
  BY <1>6, <1>t DEF stopListener, StopInv, Open
<1>7. CASE stopShutdown
  BY <1>7, <1>t DEF stopShutdown, StopInv, Open
<1>8. CASE stopRegistration
  BY <1>8, <1>t DEF stopRegistration, StopInv, Open
<1>9. CASE stopFinal
  BY <1>9, <1>t DEF stopFinal, StopInv, Open
<1>10. ASSUME NEW c \in Conns, HandshakeDone(c) PROVE StopInv'
  <2>1. srv \notin {"final", "stopped"}
    BY <1>10 DEF HandshakeDone, StopInv, Open, CallbackInv
  <2>2. \A e \in inflight : conn'[e[1]] \in {"handshake", "up", "closing"}
    BY <1>10, <1>t DEF HandshakeDone, StopInv
  <2> QED BY <1>10, <2>1, <2>2 DEF HandshakeDone, StopInv
<1>11. ASSUME NEW c \in Conns, ConnectionLost(c) PROVE StopInv'
  <2>1. srv \notin {"final", "stopped"}
    BY <1>11 DEF ConnectionLost, StopInv, Open, CallbackInv
  <2>2. \A e \in inflight : conn'[e[1]] \in {"handshake", "up", "closing"}
    BY <1>11, <1>t DEF ConnectionLost, StopInv
  <2> QED BY <1>11, <2>1, <2>2 DEF ConnectionLost, StopInv
<1>12. ASSUME NEW c \in Conns, ShutdownDone(c) PROVE StopInv'
  <2>1. srv \notin {"final", "stopped"}
    BY <1>12 DEF ShutdownDone, StopInv, Open
  <2>2. \A e \in inflight : e[1] # c
    BY <1>12, <1>t DEF ShutdownDone
  <2>3. \A e \in inflight : conn'[e[1]] \in {"handshake", "up", "closing"}
    BY <1>12, <1>t, <2>2 DEF ShutdownDone, StopInv
  <2> QED BY <1>12, <2>1, <2>3 DEF ShutdownDone, StopInv
<1>13. ASSUME NEW c \in Conns, callbackAlloc(c) PROVE StopInv'
  <2>1. srv \notin {"final", "stopped"}
    BY <1>13 DEF callbackAlloc, StopInv, Open, CallbackInv
  <2> QED BY <1>13, <2>1 DEF callbackAlloc, StopInv
<1>14. ASSUME NEW c \in Conns, callbackAdvance(c) PROVE StopInv'
  <2>1. srv \notin {"final", "stopped"}
    BY <1>14 DEF callbackAdvance, StopInv, Open, CallbackInv
  <2> QED BY <1>14, <2>1 DEF callbackAdvance, StopInv
<1>15. ASSUME NEW c \in Conns, callbackNodeConn(c) PROVE StopInv'
  <2>1. srv \notin {"final", "stopped"}
    BY <1>15 DEF callbackNodeConn, StopInv, Open, CallbackInv
  <2> QED BY <1>15, <2>1 DEF callbackNodeConn, StopInv
<1>16. ASSUME NEW c \in Conns, callbackNodeIp(c) PROVE StopInv'
  <2>1. srv \notin {"final", "stopped"}
    BY <1>16 DEF callbackNodeIp, StopInv, Open, CallbackInv
  <2> QED BY <1>16, <2>1 DEF callbackNodeIp, StopInv
<1>17. ASSUME NEW c \in Conns, callbackRegister(c) PROVE StopInv'
  <2>1. srv \notin {"final", "stopped"}
    BY <1>17 DEF callbackRegister, StopInv, Open, CallbackInv
  <2> QED BY <1>17, <2>1 DEF callbackRegister, StopInv
<1>18. ASSUME NEW c \in Conns, callbackUnregister(c) PROVE StopInv'
  <2>1. srv \notin {"final", "stopped"}
    BY <1>18 DEF callbackUnregister, StopInv, Open, CallbackInv
  <2> QED BY <1>18, <2>1 DEF callbackUnregister, StopInv
<1>19. ASSUME NEW c \in Conns, callbackClose(c) PROVE StopInv'
  <2>1. conn[c] = "down" /\ srv \notin {"final", "stopped"}
    BY <1>19 DEF callbackClose, StopInv, Open, CallbackInv
  <2>2. \A e \in inflight : conn'[e[1]] \in {"handshake", "up", "closing"}
    BY <1>19, <1>t, <2>1 DEF callbackClose, StopInv
  <2> QED BY <1>19, <2>1, <2>2 DEF callbackClose, StopInv
<1>20. ASSUME NEW c \in Conns, NEW s \in SendCtxs, callbackSendFinal(c, s)
       PROVE  StopInv'
  BY <1>20 DEF callbackSendFinal, StopInv, Open
<1>21. ASSUME NEW c \in Conns, NEW a \in Addrs, NEW w \in Workers,
              ListnerCallback(c, a, w)
       PROVE  StopInv'
  <2>1. \A e \in inflight : e[1] # c
    BY <1>21, <1>t DEF ListnerCallback, StopInv
  <2>2. \A e \in inflight : conn'[e[1]] \in {"handshake", "up", "closing"}
    BY <1>21, <1>t, <2>1 DEF ListnerCallback, StopInv
  <2> QED BY <1>21, <2>2 DEF ListnerCallback, StopInv
<1>22. ASSUME NEW a \in Addrs, downlinkStart(a) PROVE StopInv'
  BY <1>22, <1>t DEF downlinkStart, StopInv, Open
<1> QED
  BY <1>1, <1>2, <1>3, <1>4, <1>5, <1>6, <1>7, <1>8, <1>9, <1>10, <1>11, <1>12,
     <1>13, <1>14, <1>15, <1>16, <1>17, <1>18, <1>19, <1>20, <1>21, <1>22
  DEF Step, CallbackStep, DownlinkStep, StopStep

LEMMA StopInvHolds == Spec => []StopInv
<1>1. Init => StopInv
  BY DEF Init, StopInv
<1>2. Inv /\ StopInv /\ [Next]_vars => StopInv'
  <2> SUFFICES ASSUME Inv, StopInv, [Next]_vars PROVE StopInv'
    OBVIOUS
  <2>1. CASE ~crashed /\ Step
    BY <2>1, StopNext DEF Inv
  <2>2. CASE UNCHANGED vars
    BY <2>2 DEF StopInv, Open, vars, srvVars, quicVars, dlVars, ubVars
  <2> QED BY <2>1, <2>2 DEF Next, Ended
<1> QED BY <1>1, <1>2, InvHolds, PTL DEF Spec

(* StopQuicServer ends with every send context back in its pool and no      *)
(* connection or callback left, and with every node back too unless         *)
(* accesses to quic_client_pool have overlapped.                            *)
THEOREM StopReleasesAllHolds == Spec => []StopReleasesAll
<1>1. Inv /\ StopInv /\ CtxInv => StopReleasesAll
  <2> SUFFICES ASSUME Inv, StopInv, CtxInv, srv = "stopped"
               PROVE  /\ sendPool = SendCtxs
                      /\ \A c \in Conns : ~Open(c) /\ cb[c] = "idle"
                      /\ raced \/ RangeOf(clientPool) = Nodes
    BY DEF StopReleasesAll
  <2>1. /\ ~crashed /\ dl = "idle"
        /\ \A c \in Conns : ~Open(c) /\ cb[c] = "idle"
    BY DEF StopInv
  <2>t. /\ clientPool \in Seq(Nodes) /\ DOMAIN clientPool = 1 .. Len(clientPool)
        /\ sendPool \subseteq SendCtxs /\ nodeOf \in [Conns -> Nodes \cup {NoNode}]
    BY DEF Inv, TypeInv, TypeOK
  <2>2. ASSUME ~raced PROVE RangeOf(clientPool) = Nodes
    <3>1. list = {}
      BY <2>1, <2>2 DEF Inv, Registry, ListInv, Open
    <3>2. \A c \in Conns : nodeOf[c] = NoNode
      BY <2>1 DEF Inv, CallbackInv
    <3>3. \A n \in Nodes : \E i \in 1 .. Len(clientPool) : clientPool[i] = n
      BY <2>2, <3>1, <3>2, ConstAssumption DEF Inv, Registry, HeldInv
    <3> QED BY <2>t, <3>3 DEF RangeOf
  <2>3. \A c \in Conns, s \in SendCtxs : <<c, s>> \notin inflight
    <3>1. \A c \in Conns, s \in SendCtxs : <<c, s>> \in inflight =>
            conn[<<c, s>>[1]] \in {"handshake", "up", "closing"}
      BY DEF StopInv
    <3> QED BY <2>1, <3>1 DEF Open
  <2>4. dlCtx = NoCtx
    BY <2>1 DEF CtxInv
  <2>5. \A s \in SendCtxs : s \in sendPool
    BY <2>1, <2>3, <2>4, ConstAssumption DEF CtxInv
  <2> QED BY <2>1, <2>t, <2>2, <2>5
<1> QED BY <1>1, InvHolds, StopInvHolds, CtxInvHolds, PTL
=============================================================================
