------------------------------ MODULE GnbQuic ------------------------------
(***************************************************************************)
(* The gNB end of the N3 QUIC tunnel: QuicTask, UERANSIM/src/gnb/quic.      *)
(*                                                                         *)
(* Four kinds of threads meet in it:                                       *)
(*   - the GTP task's thread, which pushes uplink packets (NtsTask::push); *)
(*   - the QUIC task's own thread, which takes them and sends them;        *)
(*   - MsQuic's workers, which run connectionCallback, one call at a time  *)
(*     for each connection;                                                *)
(*   - the main thread, which starts the task and quits it.                *)
(* Sections under m_stateMutex are single steps where everything they      *)
(* touch is protected by it; what is read or written outside the mutex     *)
(* (m_connection) is a step of its own.                                    *)
(*                                                                         *)
(* MsQuic is not part of the repository: what it does is modelled from     *)
(* the way QuicTask uses it.                                               *)
(***************************************************************************)
EXTENDS Naturals, Sequences, FiniteSets

CONSTANTS
  Conns,        \* connection handles; bounds how many can be opened
  NoConn,       \* the null handle
  MaxPackets,   \* bound: uplink packets the GTP task pushes
  Blocks,       \* the blocks of SendContextPool (4096 in the code)
  Heap,         \* "allocated with ::operator new", not from the pool
  NoBlock       \* no SendContext exists for the packet

ASSUME ConstAssumption ==
  /\ NoConn \notin Conns
  /\ Heap \notin Blocks /\ NoBlock \notin Blocks /\ Heap # NoBlock
  /\ MaxPackets \in Nat

Packets == 1 .. MaxPackets

VARIABLES
  main,       \* where the main thread is: start(), run, the steps of quit()
  apiLevel,   \* how far onStart got: 1 API, 2 registration, 3 configuration,
              \* 4 credentials
  pushed,     \* packets the GTP thread has handed over (or was refused)
  gtp,        \* where the GTP thread is in NtsTask::push
  msgQueue,   \* NtsTask::msgQueue
  loop,       \* where the QUIC task's thread is
  cur,        \* the packet whose SendContext send() holds (0: none)
  handle,     \* the value of m_connection the thread passes to DatagramSend
  mutex,      \* who holds m_stateMutex: "free", "loop" or "cb"
  quicState,  \* m_quicState
  pending,    \* m_pendingContexts
  mConnection, \* m_connection
  ticket,     \* the connection the saved resumption ticket came from
  quitHandle, \* the value of m_connection onQuit() read
  conn,       \* MsQuic's view of each connection
  cb,         \* where each connection's callback is
  inflight,   \* <<c, p>>: connection c holds p's SendContext as ClientContext
  block,      \* where the live SendContext of a packet was allocated
  mPool,      \* the free blocks in SendContextPool::m_pool
  fault,      \* what went wrong so far (a history variable): a closed handle
              \* or a null API table used, a failure of connect()
  crashed     \* the process ended on undefined behaviour

mainVars == <<main, apiLevel, quitHandle>>
gtpVars  == <<pushed, gtp>>
loopVars == <<loop, cur, handle>>
taskVars == <<mutex, quicState, pending, mConnection, ticket>>
quicVars == <<conn, cb, inflight>>
poolVars == <<block, mPool>>
ubVars   == <<fault, crashed>>
vars == <<mainVars, gtpVars, msgQueue, loopVars, taskVars, quicVars, poolVars,
          ubVars>>

QuicStates == {"DISCONNECTED", "CONNECTING", "CONNECTED"}
ConnStates == {"none", "opened", "handshake", "up", "closing", "down", "closed"}
CbPcs      == {"idle", "connected", "flush", "ticket", "close", "null", "reset"}
LoopPcs    == {"poll", "take", "lock", "open", "start", "read", "call", "exit"}
MainPcs    == {"start", "run", "join", "test", "read", "shutdown",
               "registration", "api", "done"}
Faults     == {"send_closed", "shutdown_closed", "null_api", "connect"}

(* Connections that exist for MsQuic and have not been closed. *)
Open(c) == conn[c] \notin {"none", "closed"}

(* ConnectionOpen or ConnectionStart has failed in connect(). *)
connectFailed == "connect" \in fault

IsQuiting == main \notin {"start", "run"}

Live(p) == block[p] # NoBlock

RangeOf(s) == {s[i] : i \in DOMAIN s}

TypeOK ==
  /\ main \in MainPcs
  /\ apiLevel \in 0 .. 4
  /\ pushed \in 0 .. MaxPackets
  /\ gtp \in {"idle", "push"}
  /\ msgQueue \in Seq(Packets)
  /\ loop \in LoopPcs
  /\ cur \in Packets \cup {0}
  /\ handle \in Conns \cup {NoConn}
  /\ mutex \in {"free", "loop", "cb"}
  /\ quicState \in QuicStates
  /\ pending \in Seq(Packets)
  /\ mConnection \in Conns \cup {NoConn}
  /\ ticket \in Conns \cup {NoConn}
  /\ quitHandle \in Conns \cup {NoConn}
  /\ conn \in [Conns -> ConnStates]
  /\ cb \in [Conns -> CbPcs]
  /\ inflight \subseteq Conns \X Packets
  /\ block \in [Packets -> Blocks \cup {Heap, NoBlock}]
  /\ mPool \subseteq Blocks
  /\ fault \subseteq Faults
  /\ crashed \in BOOLEAN

Init ==
  /\ main = "start" /\ apiLevel = 0 /\ quitHandle = NoConn
  /\ pushed = 0 /\ gtp = "idle" /\ msgQueue = <<>>
  /\ loop = "poll" /\ cur = 0 /\ handle = NoConn
  /\ mutex = "free" /\ quicState = "DISCONNECTED" /\ pending = <<>>
  /\ mConnection = NoConn /\ ticket = NoConn
  /\ conn = [c \in Conns |-> "none"]
  /\ cb = [c \in Conns |-> "idle"]
  /\ inflight = {}
  /\ block = [p \in Packets |-> NoBlock]
  /\ mPool = Blocks
  /\ fault = {} /\ crashed = FALSE

-----------------------------------------------------------------------------
(* SendContext and its pool *)

(* A mutant: a block is not taken out of m_pool when it is handed out. *)
allocateWithoutPop(p) ==
  /\ block' \in IF mPool = {} THEN {[block EXCEPT ![p] = Heap]}
                ELSE {[block EXCEPT ![p] = b] : b \in mPool}
  /\ UNCHANGED mPool

(* SendContext's operator new: a free block of the pool, or the heap when   *)
(* there is none.                                                           *)
allocate(p) ==
  \/ /\ mPool = {}
     /\ block' = [block EXCEPT ![p] = Heap]
     /\ UNCHANGED mPool
  \/ \E b \in mPool :
       /\ block' = [block EXCEPT ![p] = b]
       /\ mPool' = mPool \ {b}

(* A mutant: every block goes to m_pool, wherever it was allocated. *)
deallocateUnchecked(D) ==
  /\ mPool' = mPool \cup {block[p] : p \in D}
  /\ block' = [p \in Packets |-> IF p \in D THEN NoBlock ELSE block[p]]

(* operator delete on the contexts of the packets in D: a block of the pool *)
(* goes back to it, another one to the heap.                                *)
deallocate(D) ==
  /\ mPool' = mPool \cup ({block[p] : p \in D} \cap Blocks)
  /\ block' = [p \in Packets |-> IF p \in D THEN NoBlock ELSE block[p]]

(* A mutant: the caller keeps the context MsQuic refused. *)
executeSendNoDelete(p, h) ==
  /\ inflight' = IF h # NoConn /\ conn[h] \in {"up", "closing"}
                 THEN inflight \cup {<<h, p>>} ELSE inflight
  /\ UNCHANGED <<poolVars, ubVars>>

(* DatagramSend on h, called with p's context. MsQuic either takes the      *)
(* context until a final send state, or refuses it and the caller deletes   *)
(* it; a connection that is down, or the null handle, always refuses. On a  *)
(* closed handle the call reads freed memory: it fails or ends the process. *)
executeSend(p, h) ==
  \/ /\ h # NoConn /\ conn[h] \in {"up", "closing"}
     /\ inflight' = inflight \cup {<<h, p>>}
     /\ UNCHANGED <<poolVars, ubVars>>
  \/ /\ deallocate({p})
     /\ fault' = IF h # NoConn /\ conn[h] = "closed"
                 THEN fault \cup {"send_closed"} ELSE fault
     /\ UNCHANGED <<inflight, crashed>>
  \/ /\ h # NoConn /\ conn[h] = "closed"
     /\ fault' = fault \cup {"send_closed"}
     /\ crashed' = TRUE
     /\ UNCHANGED <<inflight, poolVars>>

-----------------------------------------------------------------------------
(* The main thread: start() and quit() *)

(* onStart: the four calls in order; the first that fails ends it, and the  *)
(* task runs all the same.                                                  *)
onStart ==
  /\ main = "start"
  /\ main' = "run"
  /\ apiLevel' \in 0 .. 4
  /\ UNCHANGED <<gtpVars, msgQueue, loopVars, taskVars, quicVars, poolVars,
                 ubVars, quitHandle>>

(* NtsTask::quit: isQuiting is set, then the caller waits for the thread. *)
quit ==
  /\ main = "run"
  /\ main' = "join"
  /\ UNCHANGED <<apiLevel, quitHandle, gtpVars, msgQueue, loopVars, taskVars,
                 quicVars, poolVars, ubVars>>

(* The thread has ended; what is left in the queue is dropped. *)
quitJoined ==
  /\ main = "join" /\ loop = "exit"
  /\ msgQueue' = <<>>
  /\ main' = "test"
  /\ UNCHANGED <<apiLevel, quitHandle, gtpVars, loopVars, taskVars, quicVars,
                 poolVars, ubVars>>

(* onQuit tests m_connection, without the mutex ... *)
onQuitTest ==
  /\ main = "test"
  /\ main' = IF mConnection = NoConn THEN "registration" ELSE "read"
  /\ UNCHANGED <<apiLevel, quitHandle, gtpVars, msgQueue, loopVars, taskVars,
                 quicVars, poolVars, ubVars>>

(* ... reads it again for the call, when a callback may have cleared it ... *)
onQuitRead ==
  /\ main = "read"
  /\ quitHandle' = mConnection
  /\ main' = "shutdown"
  /\ UNCHANGED <<apiLevel, gtpVars, msgQueue, loopVars, taskVars, quicVars,
                 poolVars, ubVars>>

(* A mutant: the connection is left as it is. *)
onQuitNoShutdown ==
  /\ main = "shutdown"
  /\ main' = "registration"
  /\ UNCHANGED <<apiLevel, quitHandle, gtpVars, msgQueue, loopVars, taskVars,
                 quicVars, poolVars, ubVars>>

(* ... and shuts that connection down, which a callback may have closed;    *)
(* ConnectionShutdown ignores the null handle.                              *)
onQuitShutdown ==
  /\ main = "shutdown"
  /\ main' = "registration"
  /\ conn' = [c \in Conns |->
                IF c = quitHandle /\ conn[c] \in {"opened", "handshake", "up"}
                THEN "closing" ELSE conn[c]]
  /\ IF quitHandle # NoConn /\ conn[quitHandle] = "closed"
     THEN fault' = fault \cup {"shutdown_closed"} /\ crashed' \in BOOLEAN
     ELSE UNCHANGED ubVars
  /\ UNCHANGED <<apiLevel, quitHandle, gtpVars, msgQueue, loopVars, taskVars,
                 cb, inflight, poolVars>>

(* RegistrationClose waits until every connection of the registration has   *)
(* been closed.                                                             *)
onQuitRegistration ==
  /\ main = "registration"
  /\ \A c \in Conns : ~Open(c)
  /\ main' = "api"
  /\ UNCHANGED <<apiLevel, quitHandle, gtpVars, msgQueue, loopVars, taskVars,
                 quicVars, poolVars, ubVars>>

(* A mutant: MsQuicClose is left out. *)
onQuitNoClose ==
  /\ main = "api"
  /\ main' = "done"
  /\ UNCHANGED <<apiLevel, quitHandle, gtpVars, msgQueue, loopVars, taskVars,
                 quicVars, poolVars, ubVars>>

(* MsQuicClose waits for MsQuic's workers. *)
onQuitClose ==
  /\ main = "api"
  /\ \A c \in Conns : cb[c] = "idle"
  /\ main' = "done"
  /\ apiLevel' = 0
  /\ UNCHANGED <<quitHandle, gtpVars, msgQueue, loopVars, taskVars, quicVars,
                 poolVars, ubVars>>

-----------------------------------------------------------------------------
(* The GTP thread: quicTask->push(), which tests isQuiting before it takes  *)
(* the queue's mutex.                                                       *)

pushTest ==
  /\ main # "start" /\ gtp = "idle" /\ pushed < MaxPackets
  /\ IF IsQuiting THEN pushed' = pushed + 1 /\ UNCHANGED gtp
                  ELSE gtp' = "push" /\ UNCHANGED pushed
  /\ UNCHANGED <<mainVars, msgQueue, loopVars, taskVars, quicVars, poolVars,
                 ubVars>>

pushEnqueue ==
  /\ gtp = "push"
  /\ gtp' = "idle"
  /\ pushed' = pushed + 1
  /\ msgQueue' = Append(msgQueue, pushed + 1)
  /\ UNCHANGED <<mainVars, loopVars, taskVars, quicVars, poolVars, ubVars>>

-----------------------------------------------------------------------------
(* The QUIC task's thread: onLoop, send, connect *)

(* The loop of NtsTask::start and poll() test isQuiting, then take the      *)
(* first message, even if quit() has been called in between.                *)
loopTest ==
  /\ main # "start" /\ loop = "poll"
  /\ IF IsQuiting THEN loop' = "exit"
                  ELSE msgQueue # <<>> /\ loop' = "take"
  /\ UNCHANGED <<mainVars, gtpVars, msgQueue, cur, handle, taskVars, quicVars,
                 poolVars, ubVars>>

(* onLoop takes a packet and send() makes its SendContext. *)
onLoop ==
  /\ loop = "take"
  /\ cur' = Head(msgQueue)
  /\ msgQueue' = Tail(msgQueue)
  /\ allocate(Head(msgQueue))
  /\ loop' = "lock"
  /\ UNCHANGED <<mainVars, gtpVars, handle, taskVars, quicVars, ubVars>>

(* send() under m_stateMutex: open a connection, queue, or send. The mutex  *)
(* is kept across connect() and executeSend().                              *)
send ==
  /\ loop = "lock" /\ mutex = "free"
  /\ \/ /\ quicState = "DISCONNECTED"
        /\ quicState' = "CONNECTING"
        /\ pending' = Append(pending, cur)
        /\ cur' = 0
        /\ loop' = "open" /\ mutex' = "loop"
     \/ /\ quicState = "CONNECTING"
        /\ pending' = Append(pending, cur)
        /\ cur' = 0
        /\ loop' = "poll"
        /\ UNCHANGED <<mutex, quicState>>
     \/ /\ quicState = "CONNECTED"
        /\ loop' = "read" /\ mutex' = "loop"
        /\ UNCHANGED <<quicState, pending, cur>>
  /\ UNCHANGED <<mainVars, gtpVars, msgQueue, handle, mConnection, ticket,
                 quicVars, poolVars, ubVars>>

(* connect(), ConnectionOpen. Without an API table the call reads a null    *)
(* pointer; it may fail, and does without a registration. A failure is only *)
(* logged: m_quicState stays CONNECTING.                                    *)
connectOpen ==
  /\ loop = "open"
  /\ \/ /\ apiLevel = 0
        /\ fault' = fault \cup {"null_api"} /\ crashed' = TRUE
        /\ UNCHANGED <<loop, mutex, mConnection, conn>>
     \/ /\ apiLevel > 0
        /\ loop' = "poll" /\ mutex' = "free"
        /\ fault' = fault \cup {"connect"}
        /\ UNCHANGED <<mConnection, conn, crashed>>
     \/ /\ apiLevel >= 2
        /\ \E c \in Conns :
             /\ conn[c] = "none"
             /\ conn' = [conn EXCEPT ![c] = "opened"]
             /\ mConnection' = c
        /\ loop' = "start"
        /\ UNCHANGED <<mutex, ubVars>>
  /\ UNCHANGED <<mainVars, gtpVars, msgQueue, cur, handle, quicState, pending,
                 ticket, cb, inflight, poolVars>>

(* connect(), the resumption ticket (read here if one is saved) and         *)
(* ConnectionStart, which may fail and needs a configuration with           *)
(* credentials.                                                             *)
connectStart ==
  /\ loop = "start"
  /\ \/ fault' = fault \cup {"connect"} /\ UNCHANGED conn
     \/ /\ apiLevel = 4
        /\ conn' = [conn EXCEPT ![mConnection] = "handshake"]
        /\ UNCHANGED fault
  /\ loop' = "poll" /\ mutex' = "free"
  /\ UNCHANGED <<mainVars, gtpVars, msgQueue, cur, handle, quicState, pending,
                 mConnection, ticket, cb, inflight, poolVars, crashed>>

(* executeSend() from send(): m_connection is read ... *)
sendRead ==
  /\ loop = "read"
  /\ handle' = mConnection
  /\ loop' = "call"
  /\ UNCHANGED <<mainVars, gtpVars, msgQueue, cur, taskVars, quicVars,
                 poolVars, ubVars>>

(* ... and passed to DatagramSend. *)
sendCall ==
  /\ loop = "call"
  /\ executeSend(cur, handle)
  /\ cur' = 0 /\ handle' = NoConn
  /\ loop' = "poll" /\ mutex' = "free"
  /\ UNCHANGED <<mainVars, gtpVars, msgQueue, quicState, pending, mConnection,
                 ticket, conn, cb>>

-----------------------------------------------------------------------------
(* MsQuic *)

(* The handshake ends: the CONNECTED event is raised. *)
HandshakeDone(c) ==
  /\ conn[c] = "handshake" /\ cb[c] = "idle"
  /\ conn' = [conn EXCEPT ![c] = "up"]
  /\ cb' = [cb EXCEPT ![c] = "connected"]
  /\ UNCHANGED <<mainVars, gtpVars, msgQueue, loopVars, taskVars, inflight,
                 poolVars, ubVars>>

(* A mutant: the task reconnects from SHUTDOWN_INITIATED_* on. *)
ConnectionLostResets(c) ==
  /\ conn[c] \in {"handshake", "up"}
  /\ \E d \in Conns : conn[d] = "none"
  /\ conn' = [conn EXCEPT ![c] = "closing"]
  /\ quicState' = "DISCONNECTED"
  /\ UNCHANGED <<mainVars, gtpVars, msgQueue, loopVars, mutex, pending,
                 mConnection, ticket, cb, inflight, poolVars, ubVars>>

(* The transport or the peer ends the connection; the callback only logs    *)
(* SHUTDOWN_INITIATED_BY_*. Bound: the last handle is not lost this way.    *)
ConnectionLost(c) ==
  /\ conn[c] \in {"handshake", "up"}
  /\ \E d \in Conns : conn[d] = "none"
  /\ conn' = [conn EXCEPT ![c] = "closing"]
  /\ UNCHANGED <<mainVars, gtpVars, msgQueue, loopVars, taskVars, cb, inflight,
                 poolVars, ubVars>>

(* A connection that ends has given back every context (CANCELED), and then *)
(* raises SHUTDOWN_COMPLETE, its last event.                                *)
ShutdownDone(c) ==
  /\ conn[c] = "closing" /\ cb[c] = "idle"
  /\ ~ \E p \in Packets : <<c, p>> \in inflight
  /\ conn' = [conn EXCEPT ![c] = "down"]
  /\ cb' = [cb EXCEPT ![c] = "close"]
  /\ UNCHANGED <<mainVars, gtpVars, msgQueue, loopVars, taskVars, inflight,
                 poolVars, ubVars>>

-----------------------------------------------------------------------------
(* connectionCallback *)

(* A mutant: the queue is not flushed. *)
callbackConnectedNoFlush(c) ==
  /\ cb[c] = "connected" /\ mutex = "free"
  /\ quicState' = "CONNECTED"
  /\ cb' = [cb EXCEPT ![c] = "idle"]
  /\ UNCHANGED <<mainVars, gtpVars, msgQueue, loopVars, mutex, pending,
                 mConnection, ticket, conn, inflight, poolVars, ubVars>>

(* CONNECTED: take the mutex and publish the state ... *)
callbackConnected(c) ==
  /\ cb[c] = "connected" /\ mutex = "free"
  /\ mutex' = "cb"
  /\ quicState' = "CONNECTED"
  /\ cb' = [cb EXCEPT ![c] = "flush"]
  /\ UNCHANGED <<mainVars, gtpVars, msgQueue, loopVars, pending, mConnection,
                 ticket, conn, inflight, poolVars, ubVars>>

(* A mutant: a stack instead of a queue. *)
callbackFlushNewest(c) ==
  /\ cb[c] = "flush"
  /\ \/ /\ pending # <<>>
        /\ pending' = SubSeq(pending, 1, Len(pending) - 1)
        /\ executeSend(pending[Len(pending)], mConnection)
        /\ UNCHANGED <<mutex, cb>>
     \/ /\ pending = <<>>
        /\ mutex' = "free"
        /\ cb' = [cb EXCEPT ![c] = "idle"]
        /\ UNCHANGED <<pending, inflight, poolVars, ubVars>>
  /\ UNCHANGED <<mainVars, gtpVars, msgQueue, loopVars, quicState, mConnection,
                 ticket, conn>>

(* ... then send the queued contexts, oldest first, and release it. *)
callbackFlush(c) ==
  /\ cb[c] = "flush"
  /\ \/ /\ pending # <<>>
        /\ pending' = Tail(pending)
        /\ executeSend(Head(pending), mConnection)
        /\ UNCHANGED <<mutex, cb>>
     \/ /\ pending = <<>>
        /\ mutex' = "free"
        /\ cb' = [cb EXCEPT ![c] = "idle"]
        /\ UNCHANGED <<pending, inflight, poolVars, ubVars>>
  /\ UNCHANGED <<mainVars, gtpVars, msgQueue, loopVars, quicState, mConnection,
                 ticket, conn>>

(* A mutant: the handle is forgotten but not closed. *)
callbackNoClose(c) ==
  /\ cb[c] = "close"
  /\ cb' = [cb EXCEPT ![c] = IF mConnection = NoConn THEN "reset" ELSE "null"]
  /\ UNCHANGED <<mainVars, gtpVars, msgQueue, loopVars, taskVars, conn,
                 inflight, poolVars, ubVars>>

(* SHUTDOWN_COMPLETE: close m_connection, without the mutex ... *)
callbackClose(c) ==
  /\ cb[c] = "close"
  /\ IF mConnection = NoConn
     THEN cb' = [cb EXCEPT ![c] = "reset"] /\ UNCHANGED conn
     ELSE /\ conn' = [conn EXCEPT ![mConnection] = "closed"]
          /\ cb' = [cb EXCEPT ![c] = "null"]
  /\ UNCHANGED <<mainVars, gtpVars, msgQueue, loopVars, taskVars, inflight,
                 poolVars, ubVars>>

(* ... forget the handle ... *)
callbackNull(c) ==
  /\ cb[c] = "null"
  /\ mConnection' = NoConn
  /\ cb' = [cb EXCEPT ![c] = "reset"]
  /\ UNCHANGED <<mainVars, gtpVars, msgQueue, loopVars, mutex, quicState,
                 pending, ticket, conn, inflight, poolVars, ubVars>>

(* Mutants: the contexts stay queued; they are forgotten, not deleted; the  *)
(* state is not reset; the mutex is not taken.                              *)
callbackResetKeeps(c) ==
  /\ cb[c] = "reset" /\ mutex = "free"
  /\ quicState' = "DISCONNECTED"
  /\ cb' = [cb EXCEPT ![c] = "idle"]
  /\ UNCHANGED <<mainVars, gtpVars, msgQueue, loopVars, mutex, mConnection,
                 pending, ticket, conn, inflight, poolVars, ubVars>>

callbackResetForgets(c) ==
  /\ cb[c] = "reset" /\ mutex = "free"
  /\ quicState' = "DISCONNECTED"
  /\ pending' = <<>>
  /\ cb' = [cb EXCEPT ![c] = "idle"]
  /\ UNCHANGED <<mainVars, gtpVars, msgQueue, loopVars, mutex, mConnection,
                 ticket, conn, inflight, poolVars, ubVars>>

callbackResetNoState(c) ==
  /\ cb[c] = "reset" /\ mutex = "free"
  /\ deallocate(RangeOf(pending))
  /\ pending' = <<>>
  /\ cb' = [cb EXCEPT ![c] = "idle"]
  /\ UNCHANGED <<mainVars, gtpVars, msgQueue, loopVars, mutex, quicState,
                 mConnection, ticket, conn, inflight, ubVars>>

callbackResetNoMutex(c) ==
  /\ cb[c] = "reset"
  /\ quicState' = "DISCONNECTED"
  /\ deallocate(RangeOf(pending))
  /\ pending' = <<>>
  /\ cb' = [cb EXCEPT ![c] = "idle"]
  /\ UNCHANGED <<mainVars, gtpVars, msgQueue, loopVars, mutex, mConnection,
                 ticket, conn, inflight, ubVars>>

(* ... and, under the mutex, go back to DISCONNECTED and delete what is     *)
(* still queued.                                                            *)
callbackReset(c) ==
  /\ cb[c] = "reset" /\ mutex = "free"
  /\ quicState' = "DISCONNECTED"
  /\ deallocate(RangeOf(pending))
  /\ pending' = <<>>
  /\ cb' = [cb EXCEPT ![c] = "idle"]
  /\ UNCHANGED <<mainVars, gtpVars, msgQueue, loopVars, mutex, mConnection,
                 ticket, conn, inflight, ubVars>>

(* DATAGRAM_SEND_STATE_CHANGED with a final state (acknowledged, lost and   *)
(* discarded, canceled), which MsQuic reports once for every context it     *)
(* took: the context is deleted.                                            *)
callbackSendFinal(c, p) ==
  /\ cb[c] = "idle" /\ <<c, p>> \in inflight
  /\ inflight' = inflight \ {<<c, p>>}
  /\ deallocate({p})
  /\ UNCHANGED <<mainVars, gtpVars, msgQueue, loopVars, taskVars, conn, cb,
                 ubVars>>

(* RESUMPTION_TICKET_RECEIVED: a ticket that fits is copied into the        *)
(* member array, then its length is stored; a larger one is ignored. The    *)
(* UPF sends one for a connection.                                          *)
callbackTicket(c) ==
  /\ conn[c] = "up" /\ cb[c] = "idle" /\ ticket # c
  /\ cb' = [cb EXCEPT ![c] = "ticket"]
  /\ UNCHANGED <<mainVars, gtpVars, msgQueue, loopVars, taskVars, conn,
                 inflight, poolVars, ubVars>>

callbackTicketLength(c) ==
  /\ cb[c] = "ticket"
  /\ ticket' = c
  /\ cb' = [cb EXCEPT ![c] = "idle"]
  /\ UNCHANGED <<mainVars, gtpVars, msgQueue, loopVars, mutex, quicState,
                 pending, mConnection, conn, inflight, poolVars, ubVars>>

-----------------------------------------------------------------------------

MainStep == quitJoined \/ onQuitTest \/ onQuitRead \/ onQuitShutdown
            \/ onQuitRegistration \/ onQuitClose

GtpStep == pushTest \/ pushEnqueue

LoopStep == loopTest \/ onLoop \/ send \/ connectOpen \/ connectStart
            \/ sendRead \/ sendCall

CallbackStep(c) ==
  \/ callbackConnected(c) \/ callbackFlush(c)
  \/ callbackClose(c) \/ callbackNull(c) \/ callbackReset(c)
  \/ callbackTicketLength(c)

MsQuicStep(c) ==
  \/ HandshakeDone(c) \/ ConnectionLost(c) \/ ShutdownDone(c)
  \/ callbackTicket(c)
  \/ \E p \in Packets : callbackSendFinal(c, p)

(* After quit() there is nothing left to do but refuse packets; a process   *)
(* that ended on undefined behaviour does nothing at all; the main thread   *)
(* may wait in RegistrationClose (how long is QuitCompletes' question).     *)
Ended ==
  /\ crashed \/ main \in {"registration", "done"}
  /\ UNCHANGED vars

Step == onStart \/ quit \/ MainStep \/ GtpStep \/ LoopStep
        \/ \E c \in Conns : CallbackStep(c) \/ MsQuicStep(c)

Next == (~crashed /\ Step) \/ Ended

Spec == Init /\ [][Next]_vars

(* The scheduler runs every thread; MsQuic ends every handshake (with       *)
(* CONNECTED or by its timeout), reports a final state for every send and   *)
(* completes every shutdown. Nothing forces the gNB to quit, packets to     *)
(* arrive, a connection to fail or a ticket to come.                        *)
Fairness ==
  /\ WF_vars(~crashed /\ MainStep)
  /\ WF_vars(~crashed /\ pushEnqueue)
  /\ WF_vars(~crashed /\ LoopStep)
  /\ \A c \in Conns :
       /\ WF_vars(~crashed /\ CallbackStep(c))
       /\ WF_vars(~crashed /\ (HandshakeDone(c) \/ ShutdownDone(c)))
       /\ \A p \in Packets : WF_vars(~crashed /\ callbackSendFinal(c, p))

FairSpec == Spec /\ Fairness

-----------------------------------------------------------------------------
(* Properties *)

(* The threads that hold a pointer to p's SendContext: the pending queue,   *)
(* MsQuic, and send() itself.                                               *)
Owners(p) == {<<"pending", i>> : i \in {j \in DOMAIN pending : pending[j] = p}}
             \cup {<<"msquic", c>> : c \in {d \in Conns : <<d, p>> \in inflight}}
             \cup (IF cur = p THEN {<<"send", 0>>} ELSE {})

(* A SendContext has exactly one owner as long as it lives and none         *)
(* afterwards: it is never deleted twice (executeSend's failure path, the   *)
(* final send states, SHUTDOWN_COMPLETE), never used after its delete, and  *)
(* never leaked.                                                            *)
ContextOwnership ==
  ~crashed => \A p \in Packets : Cardinality(Owners(p)) = IF Live(p) THEN 1 ELSE 0

(* SendContextPool hands a block out to one context at a time: a block is   *)
(* in m_pool exactly when no live context uses it, and no two share one.    *)
PoolIntegrity ==
  \A b \in Blocks :
    /\ b \in mPool <=> \A p \in Packets : block[p] # b
    /\ \A p, q \in Packets : block[p] = b /\ block[q] = b => p = q

(* Whenever the mutex is free, packets wait in m_pendingContexts only while *)
(* the task is CONNECTING: both ways out of that state empty the queue, so  *)
(* no packet is overtaken or stranded there.                                *)
NoStrandedPending ==
  mutex # "cb" /\ quicState # "CONNECTING" => pending = <<>>

(* The packets reach MsQuic in the order in which the GTP task pushed them: *)
(* whatever still waits is younger than whatever was handed over.           *)
SendOrder ==
  \A c \in Conns, p \in Packets : <<c, p>> \in inflight =>
    \A q \in RangeOf(pending) \cup RangeOf(msgQueue) \cup ({cur} \ {0}) : p < q

(* m_connection never loses a connection: one that is open is the one       *)
(* m_connection holds, so at most one exists and onQuit can shut it down.   *)
SingleConnection ==
  \A c \in Conns : Open(c) => mConnection = c

(* DatagramSend is called on a closed handle only while SHUTDOWN_COMPLETE   *)
(* is between its ConnectionClose and the m_stateMutex it takes afterwards: *)
(* the race is confined to that window.                                     *)
ClosedSendOnlyInWindow ==
  loop = "call" /\ handle # NoConn /\ conn[handle] = "closed" =>
    cb[handle] \in {"null", "reset"}

(* The ticket bytes are never read by connect() while a callback writes     *)
(* them, although no mutex protects them.                                   *)
TicketStable ==
  loop = "start" => \A c \in Conns : cb[c] # "ticket"

(* When onQuit returns (GNodeB deletes the GTP task right after), MsQuic    *)
(* has no connection left, no callback is running and none will.            *)
QuitQuiet ==
  main = "done" => \A c \in Conns : ~Open(c) /\ cb[c] = "idle"

(* A failure of connect() is the only way to be stuck: until one happens,   *)
(* the task is CONNECTING only while MsQuic still owes it an event that     *)
(* leads out of that state.                                                 *)
ConnectingHasConnection ==
  quicState = "CONNECTING" /\ mutex = "free" /\ ~crashed /\ ~connectFailed =>
    \E c \in Conns : \/ conn[c] \in {"handshake", "up", "closing", "down"}
                     \/ cb[c] \in {"null", "reset"}

(* A failure of connect() is the only way to leak: until one happens, no    *)
(* SendContext outlives the task, and afterwards only those that were       *)
(* queued in m_pendingContexts do.                                          *)
QuitFreesContexts ==
  main = "done" => \A p \in Packets :
                     Live(p) => connectFailed /\ p \in RangeOf(pending)

(* A failure of connect() is the only thing that strands a packet: as long  *)
(* as none happens, every queued packet leaves m_pendingContexts.           *)
PendingResolved ==
  \A p \in Packets :
    p \in RangeOf(pending) ~> (p \notin RangeOf(pending) \/ crashed \/ connectFailed)

(* quit() returns: the thread ends, and RegistrationClose does not wait for *)
(* a connection nobody closes.                                              *)
QuitCompletes == IsQuiting ~> (main = "done" \/ crashed)
=============================================================================
