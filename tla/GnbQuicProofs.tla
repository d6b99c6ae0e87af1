--------------------------- MODULE GnbQuicProofs ---------------------------
(***************************************************************************)
(* What holds of GnbQuic for any number of connections, packets and blocks *)
(* and whichever MsQuic calls fail.                                        *)
(*                                                                         *)
(* Inv is about the threads, the mutex and the connections; ContextInv     *)
(* adds the packets: their order, the owners of their contexts, the pool.  *)
(***************************************************************************)
EXTENDS GnbQuic, FiniteSetTheorems, TLAPS

(* What TypeOK needs to be inductive: each thread holds what its next step  *)
(* uses.                                                                    *)
TypeInv ==
  /\ TypeOK
  /\ gtp = "push" => pushed < MaxPackets
  /\ loop = "take" => msgQueue # <<>>
  /\ loop \in {"lock", "read", "call"} => cur \in Packets

(* Who holds the mutex, and in which state. *)
MutexInv ==
  /\ loop \in {"open", "start", "read", "call"} <=> mutex = "loop"
  /\ loop \in {"open", "start"} => quicState = "CONNECTING"
  /\ \A c \in Conns : cb[c] = "flush" => mutex = "cb"
  /\ mutex = "cb" => quicState = "CONNECTED"

(* Each connection's callback agrees with the connection, m_connection and  *)
(* m_quicState; only one connection has a callback running.                 *)
CallbackInv ==
  /\ \A c \in Conns :
       /\ cb[c] \in {"connected", "flush", "ticket"} => conn[c] \in {"up", "closing"}
       /\ cb[c] = "close" <=> conn[c] = "down"
       /\ cb[c] = "null" => conn[c] = "closed" /\ mConnection = c
       /\ cb[c] = "reset" => conn[c] = "closed" /\ mConnection = NoConn
       /\ cb[c] # "idle" => quicState # "DISCONNECTED"
  /\ \A c, d \in Conns : cb[c] # "idle" /\ cb[d] # "idle" => c = d

(* m_connection holds the open connection, or one that is just being        *)
(* closed; none outside a connection attempt.                               *)
HandleInv ==
  /\ SingleConnection
  /\ mConnection # NoConn =>
       /\ conn[mConnection] # "none"
       /\ conn[mConnection] = "closed" => cb[mConnection] = "null"
       /\ quicState # "DISCONNECTED"
  /\ loop = "open" => mConnection = NoConn /\ \A c \in Conns : cb[c] = "idle"
  /\ loop = "start" => /\ mConnection # NoConn /\ conn[mConnection] = "opened"
                       /\ \A c \in Conns : cb[c] = "idle"
  /\ loop = "call" /\ handle # NoConn =>
       \/ mConnection = handle /\ Open(handle)
       \/ cb[handle] \in {"null", "reset"}

(* How far quit() has come. *)
QuitInv ==
  /\ main \in {"test", "read", "shutdown", "registration", "api", "done"} => loop = "exit"
  /\ main \in {"api", "done"} => \A c \in Conns : ~Open(c)
  /\ main = "done" => \A c \in Conns : cb[c] = "idle"

(* The inductive invariant. *)
Inv == TypeInv /\ MutexInv /\ CallbackInv /\ HandleInv /\ QuitInv
       /\ NoStrandedPending

-----------------------------------------------------------------------------

(* The helpers of SendContext keep the types of the pool's variables. *)
LEMMA AllocateType ==
  ASSUME TypeOK, NEW p \in Packets, allocate(p)
  PROVE  block' \in [Packets -> Blocks \cup {Heap, NoBlock}] /\ mPool' \subseteq Blocks
BY DEF TypeOK, allocate

LEMMA DeallocateType ==
  ASSUME TypeOK, NEW D \in SUBSET Packets, deallocate(D)
  PROVE  block' \in [Packets -> Blocks \cup {Heap, NoBlock}] /\ mPool' \subseteq Blocks
BY DEF TypeOK, deallocate

LEMMA ExecuteSendType ==
  ASSUME TypeOK, NEW p \in Packets, NEW h \in Conns \cup {NoConn},
         executeSend(p, h)
  PROVE  /\ block' \in [Packets -> Blocks \cup {Heap, NoBlock}]
         /\ mPool' \subseteq Blocks
         /\ inflight' \subseteq Conns \X Packets
         /\ fault' \subseteq Faults
         /\ crashed' \in BOOLEAN
<1>1. CASE deallocate({p}) /\ UNCHANGED <<inflight, crashed>>
           /\ fault' \subseteq fault \cup {"send_closed"}
  <2>1. {p} \in SUBSET Packets
    OBVIOUS
  <2> QED BY <1>1, <2>1, DeallocateType DEF TypeOK, Faults
<1>2. CASE UNCHANGED poolVars /\ inflight' \subseteq inflight \cup {<<h, p>>}
           /\ h # NoConn /\ fault' \subseteq fault \cup {"send_closed"}
           /\ crashed' \in BOOLEAN
  BY <1>2 DEF TypeOK, Faults, poolVars
<1> QED BY <1>1, <1>2 DEF executeSend, ubVars, TypeOK

(* The initial states satisfy the invariant. *)
LEMMA InitInv == Init => Inv
<1> SUFFICES ASSUME Init PROVE Inv
  OBVIOUS
<1>1. TypeInv
  <2>1. MaxPackets \in Nat /\ 0 \in 0 .. MaxPackets
    BY ConstAssumption
  <2>2. pending \in Seq(Packets) /\ msgQueue \in Seq(Packets)
    BY DEF Init
  <2>3. crashed \in BOOLEAN
    BY DEF Init
  <2> QED BY <2>1, <2>2, <2>3
    DEF Init, TypeInv, TypeOK, Packets, MainPcs, LoopPcs, QuicStates,
        ConnStates, CbPcs, Faults
<1>2. MutexInv /\ CallbackInv /\ QuitInv
  BY DEF Init, MutexInv, CallbackInv, QuitInv
<1>3. HandleInv /\ NoStrandedPending
  BY DEF Init, HandleInv, NoStrandedPending, SingleConnection, Open
<1> QED BY <1>1, <1>2, <1>3 DEF Inv

(* Every step keeps the types. *)
LEMMA TypeNext == TypeInv /\ Step => TypeInv'
<1> SUFFICES ASSUME TypeInv, Step PROVE TypeInv'
  OBVIOUS
<1> USE ConstAssumption
<1> USE DEF TypeInv, TypeOK, Packets, MainPcs, LoopPcs, QuicStates, ConnStates,
        CbPcs, Faults, mainVars, gtpVars, loopVars, taskVars, quicVars,
        poolVars, ubVars
<1>1. CASE onStart
  BY <1>1 DEF onStart
<1>2. CASE quit
  BY <1>2 DEF quit
<1>3. CASE quitJoined
  BY <1>3 DEF quitJoined
<1>28. CASE onQuitTest
  BY <1>28 DEF onQuitTest
<1>4. CASE onQuitRead
  BY <1>4 DEF onQuitRead
<1>5. CASE onQuitShutdown
  <2>1. conn' \in [Conns -> ConnStates]
    BY <1>5 DEF onQuitShutdown
  <2>2. fault' \subseteq Faults
    BY <1>5 DEF onQuitShutdown
  <2>3. crashed' \in BOOLEAN
    BY <1>5 DEF onQuitShutdown
  <2> QED BY <1>5, <2>1, <2>2, <2>3 DEF onQuitShutdown
<1>6. CASE onQuitRegistration
  BY <1>6 DEF onQuitRegistration
<1>7. CASE onQuitClose
  BY <1>7 DEF onQuitClose
<1>8. CASE pushTest
  BY <1>8 DEF pushTest, IsQuiting
<1>9. CASE pushEnqueue
  <2>1. pushed + 1 \in Packets /\ pushed' \in 0 .. MaxPackets
    BY <1>9 DEF pushEnqueue
  <2>2. msgQueue' \in Seq(Packets)
    BY <1>9, <2>1 DEF pushEnqueue
  <2>3. Len(msgQueue') = Len(msgQueue) + 1 /\ Len(msgQueue) \in Nat
    BY <1>9, <2>1 DEF pushEnqueue
  <2>4. msgQueue' # <<>>
    BY <2>3
  <2> QED BY <1>9, <2>1, <2>2, <2>4 DEF pushEnqueue
<1>10. CASE loopTest
  BY <1>10 DEF loopTest, IsQuiting
<1>11. CASE onLoop
  <2>1. Head(msgQueue) \in Packets /\ Tail(msgQueue) \in Seq(Packets)
    BY <1>11 DEF onLoop
  <2>2. /\ block' \in [Packets -> Blocks \cup {Heap, NoBlock}]
        /\ mPool' \subseteq Blocks
    BY <1>11, <2>1, AllocateType DEF onLoop
  <2> QED BY <1>11, <2>1, <2>2 DEF onLoop
<1>12. CASE send
  <2>1. cur \in Packets /\ Append(pending, cur) \in Seq(Packets)
    BY <1>12 DEF send
  <2>2. pending' \in Seq(Packets) /\ cur' \in Packets \cup {0}
        /\ (loop' = "read" => cur' \in Packets)
    BY <1>12, <2>1 DEF send
  <2>3. mutex' \in {"free", "loop", "cb"} /\ quicState' \in QuicStates
        /\ loop' \in {"open", "poll", "read"}
    BY <1>12 DEF send
  <2> QED BY <1>12, <2>2, <2>3 DEF send
<1>13. CASE connectOpen
  <2>1. CASE apiLevel = 0 /\ crashed' = TRUE
             /\ UNCHANGED <<loop, mutex, mConnection, conn>>
    <3>1. fault' \subseteq Faults /\ crashed' \in BOOLEAN
      BY <1>13, <2>1 DEF connectOpen
    <3> QED BY <1>13, <2>1, <3>1 DEF connectOpen
  <2>2. CASE loop' = "poll" /\ mutex' = "free"
             /\ fault' = fault \cup {"connect"}
             /\ UNCHANGED <<mConnection, conn, crashed>>
    BY <1>13, <2>2 DEF connectOpen
  <2>3. ASSUME NEW c \in Conns, conn' = [conn EXCEPT ![c] = "opened"],
               mConnection' = c, loop' = "start", UNCHANGED <<mutex, ubVars>>
        PROVE  TypeInv'
    BY <1>13, <2>3 DEF connectOpen
  <2> QED BY <1>13, <2>1, <2>2, <2>3 DEF connectOpen
<1>14. CASE connectStart
  <2>1. conn' \in [Conns -> ConnStates]
    BY <1>14 DEF connectStart
  <2>2. fault' \subseteq Faults
    BY <1>14 DEF connectStart
  <2> QED BY <1>14, <2>1, <2>2 DEF connectStart
<1>15. CASE sendRead
  BY <1>15 DEF sendRead
<1>16. CASE sendCall
  <2>1. cur \in Packets /\ handle \in Conns \cup {NoConn}
    BY <1>16 DEF sendCall
  <2>2. executeSend(cur, handle)
    BY <1>16 DEF sendCall
  <2>3. /\ block' \in [Packets -> Blocks \cup {Heap, NoBlock}]
        /\ mPool' \subseteq Blocks
        /\ inflight' \subseteq Conns \X Packets
        /\ fault' \subseteq Faults
        /\ crashed' \in BOOLEAN
    BY <2>1, <2>2, ExecuteSendType
  <2> QED BY <1>16, <2>3 DEF sendCall
<1>17. ASSUME NEW c \in Conns, HandshakeDone(c) PROVE TypeInv'
  BY <1>17 DEF HandshakeDone
<1>18. ASSUME NEW c \in Conns, ConnectionLost(c) PROVE TypeInv'
  BY <1>18 DEF ConnectionLost
<1>19. ASSUME NEW c \in Conns, ShutdownDone(c) PROVE TypeInv'
  BY <1>19 DEF ShutdownDone
<1>20. ASSUME NEW c \in Conns, callbackConnected(c) PROVE TypeInv'
  BY <1>20 DEF callbackConnected
<1>21. ASSUME NEW c \in Conns, callbackFlush(c) PROVE TypeInv'
  <2>1. CASE pending # <<>>
    <3>1. Head(pending) \in Packets /\ Tail(pending) \in Seq(Packets)
      BY <2>1
    <3>2. executeSend(Head(pending), mConnection)
      BY <1>21, <2>1 DEF callbackFlush
    <3>3. /\ block' \in [Packets -> Blocks \cup {Heap, NoBlock}]
          /\ mPool' \subseteq Blocks
          /\ inflight' \subseteq Conns \X Packets
          /\ fault' \subseteq Faults
          /\ crashed' \in BOOLEAN
      BY <3>1, <3>2, ExecuteSendType
    <3>4. /\ pending' \in Seq(Packets)
          /\ UNCHANGED <<mutex, cb, mainVars, gtpVars, msgQueue, loopVars,
                         quicState, mConnection, ticket, conn>>
      BY <1>21, <2>1, <3>1 DEF callbackFlush
    <3> QED BY <3>3, <3>4
  <2>2. CASE pending = <<>>
    <3>1. /\ UNCHANGED <<pending, inflight, poolVars, ubVars, mainVars, gtpVars,
                         msgQueue, loopVars, quicState, mConnection, ticket,
                         conn>>
          /\ mutex' = "free" /\ cb' = [cb EXCEPT ![c] = "idle"]
      BY <1>21, <2>2 DEF callbackFlush
    <3> QED BY <3>1
  <2> QED BY <2>1, <2>2
<1>22. ASSUME NEW c \in Conns, callbackClose(c) PROVE TypeInv'
  <2>1. conn' \in [Conns -> ConnStates] /\ cb' \in [Conns -> CbPcs]
    BY <1>22 DEF callbackClose
  <2> QED BY <1>22, <2>1 DEF callbackClose
<1>23. ASSUME NEW c \in Conns, callbackNull(c) PROVE TypeInv'
  BY <1>23 DEF callbackNull
<1>24. ASSUME NEW c \in Conns, callbackReset(c) PROVE TypeInv'
  <2>1. RangeOf(pending) \in SUBSET Packets
    BY DEF RangeOf
  <2>2. /\ block' \in [Packets -> Blocks \cup {Heap, NoBlock}]
        /\ mPool' \subseteq Blocks
    BY <1>24, <2>1, DeallocateType DEF callbackReset
  <2> QED BY <1>24, <2>2 DEF callbackReset
<1>25. ASSUME NEW c \in Conns, callbackTicket(c) PROVE TypeInv'
  BY <1>25 DEF callbackTicket
<1>26. ASSUME NEW c \in Conns, callbackTicketLength(c) PROVE TypeInv'
  BY <1>26 DEF callbackTicketLength
<1>27. ASSUME NEW c \in Conns, NEW p \in Packets, callbackSendFinal(c, p)
      PROVE  TypeInv'
  <2>1. /\ block' \in [Packets -> Blocks \cup {Heap, NoBlock}]
        /\ mPool' \subseteq Blocks
    BY <1>27, DeallocateType DEF callbackSendFinal
  <2> QED BY <1>27, <2>1 DEF callbackSendFinal
<1> QED
  BY <1>1, <1>2, <1>3, <1>4, <1>5, <1>6, <1>7, <1>8, <1>9, <1>10, <1>11,
     <1>12, <1>13, <1>14, <1>15, <1>16, <1>17, <1>18, <1>19, <1>20, <1>21,
     <1>22, <1>23, <1>24, <1>25, <1>26, <1>27, <1>28
  DEF Step, MainStep, GtpStep, LoopStep, CallbackStep, MsQuicStep

(* Every step keeps the rest of the invariant. *)
LEMMA CoreNext ==
  Inv /\ Step => (MutexInv /\ CallbackInv /\ HandleInv /\ QuitInv
                  /\ NoStrandedPending)'
<1> DEFINE Core == MutexInv /\ CallbackInv /\ HandleInv /\ QuitInv
                   /\ NoStrandedPending
<1> SUFFICES ASSUME Inv, Step PROVE Core'
  OBVIOUS
<1> USE ConstAssumption
<1> USE DEF Inv, MutexInv, CallbackInv, HandleInv, QuitInv, NoStrandedPending,
        SingleConnection, Open, TypeInv, TypeOK, Packets, MainPcs, LoopPcs, QuicStates, ConnStates,
        CbPcs, Faults, mainVars, gtpVars, loopVars, taskVars, quicVars,
        poolVars, ubVars
<1>1. CASE onStart
  BY <1>1 DEF onStart
<1>2. CASE quit
  BY <1>2 DEF quit
<1>3. CASE quitJoined
  BY <1>3 DEF quitJoined
<1>28. CASE onQuitTest
  BY <1>28 DEF onQuitTest
<1>4. CASE onQuitRead
  BY <1>4 DEF onQuitRead
<1>5. CASE onQuitShutdown
  BY <1>5 DEF onQuitShutdown
<1>6. CASE onQuitRegistration
  BY <1>6 DEF onQuitRegistration
<1>7. CASE onQuitClose
  BY <1>7 DEF onQuitClose
<1>8. CASE pushTest
  BY <1>8 DEF pushTest, IsQuiting
<1>9. CASE pushEnqueue
  BY <1>9 DEF pushEnqueue
<1>10. CASE loopTest
  BY <1>10 DEF loopTest, IsQuiting
<1>11. CASE onLoop
  BY <1>11 DEF onLoop
<1>12. CASE send
  BY <1>12 DEF send
<1>13. CASE connectOpen
  BY <1>13 DEF connectOpen
<1>14. CASE connectStart
  BY <1>14 DEF connectStart
<1>15. CASE sendRead
  BY <1>15 DEF sendRead
<1>16. CASE sendCall
  BY <1>16 DEF sendCall, executeSend
<1>17. ASSUME NEW c \in Conns, HandshakeDone(c) PROVE Core'
  <2>1. MutexInv' /\ QuitInv' /\ NoStrandedPending'
    BY <1>17 DEF HandshakeDone
  <2>2. CallbackInv'
    <3>1. mConnection = c /\ c # NoConn /\ quicState # "DISCONNECTED"
      BY <1>17 DEF HandshakeDone
    <3>2. ASSUME NEW d \in Conns, d # c PROVE cb[d] = "idle"
      BY <3>1, <3>2
    <3> QED BY <1>17, <3>1, <3>2 DEF HandshakeDone
  <2>3. HandleInv'
    BY <1>17 DEF HandshakeDone
  <2> QED BY <2>1, <2>2, <2>3
<1>18. ASSUME NEW c \in Conns, ConnectionLost(c) PROVE Core'
  BY <1>18 DEF ConnectionLost
<1>19. ASSUME NEW c \in Conns, ShutdownDone(c) PROVE Core'
  <2>1. MutexInv' /\ QuitInv' /\ NoStrandedPending'
    BY <1>19 DEF ShutdownDone
  <2>2. CallbackInv'
    <3>1. mConnection = c /\ c # NoConn /\ quicState # "DISCONNECTED"
      BY <1>19 DEF ShutdownDone
    <3>2. ASSUME NEW d \in Conns, d # c PROVE cb[d] = "idle"
      BY <3>1, <3>2
    <3> QED BY <1>19, <3>1, <3>2 DEF ShutdownDone
  <2>3. HandleInv'
    BY <1>19 DEF ShutdownDone
  <2> QED BY <2>1, <2>2, <2>3
<1>20. ASSUME NEW c \in Conns, callbackConnected(c) PROVE Core'
  BY <1>20 DEF callbackConnected
<1>21. ASSUME NEW c \in Conns, callbackFlush(c) PROVE Core'
  <2>1. CASE pending # <<>>
    <3>1. /\ cb[c] = "flush" /\ UNCHANGED <<mutex, cb, mainVars, loopVars, quicState,
                                           mConnection, conn>>
      BY <1>21, <2>1 DEF callbackFlush
    <3>2. mutex = "cb"
      BY <3>1
    <3> QED BY <3>1, <3>2
  <2>2. CASE pending = <<>>
    <3>1. /\ cb[c] = "flush" /\ mutex' = "free" /\ cb' = [cb EXCEPT ![c] = "idle"]
          /\ UNCHANGED <<main, loop, handle, pending, mConnection, quicState, conn>>
          /\ cb \in [Conns -> CbPcs] /\ mConnection \in Conns \cup {NoConn}
          /\ handle \in Conns \cup {NoConn} /\ mutex = "cb"
      BY <1>21, <2>2 DEF callbackFlush
    <3> HIDE DEF TypeInv, TypeOK, Packets, MainPcs, LoopPcs, QuicStates, ConnStates, CbPcs,
                 Faults, mainVars, gtpVars, loopVars, taskVars, quicVars, poolVars, ubVars
    <3>2. cb'[c] = "idle" /\ \A d \in Conns : d # c => cb'[d] = cb[d]
      BY <3>1
    <3>3. MutexInv' /\ QuitInv' /\ NoStrandedPending'
      BY <2>2, <3>1, <3>2
    <3>4. CallbackInv'
      BY <3>1, <3>2
    <3>5. HandleInv'
      BY <3>1, <3>2
    <3> QED BY <3>3, <3>4, <3>5
  <2> QED BY <2>1, <2>2
<1>22. ASSUME NEW c \in Conns, callbackClose(c) PROVE Core'
  <2>1. MutexInv' /\ QuitInv' /\ NoStrandedPending'
    BY <1>22 DEF callbackClose
  <2>2. CallbackInv'
    <3>1. CASE mConnection = NoConn
      BY <1>22, <3>1 DEF callbackClose
    <3>2. CASE mConnection # NoConn
      <4>1. c = mConnection
        BY <1>22 DEF callbackClose
      <4>2. /\ conn' = [conn EXCEPT ![c] = "closed"]
            /\ cb' = [cb EXCEPT ![c] = "null"]
            /\ UNCHANGED <<mConnection, quicState>>
        BY <1>22, <3>2, <4>1 DEF callbackClose
      <4>3. cb[c] = "close" /\ mConnection \in Conns
        BY <1>22, <4>1 DEF callbackClose
      <4> QED BY <4>1, <4>2, <4>3
    <3> QED BY <3>1, <3>2
  <2>3. HandleInv'
    <3>1. CASE mConnection = NoConn
      BY <1>22, <3>1 DEF callbackClose
    <3>2. CASE mConnection # NoConn
      <4>1. c = mConnection
        BY <1>22, <3>2 DEF callbackClose
      <4> QED BY <1>22, <3>2, <4>1 DEF callbackClose
    <3> QED BY <3>1, <3>2
  <2> QED BY <2>1, <2>2, <2>3
<1>23. ASSUME NEW c \in Conns, callbackNull(c) PROVE Core'
  BY <1>23 DEF callbackNull
<1>24. ASSUME NEW c \in Conns, callbackReset(c) PROVE Core'
  BY <1>24 DEF callbackReset
<1>25. ASSUME NEW c \in Conns, callbackTicket(c) PROVE Core'
  <2>1. /\ conn[c] = "up" /\ cb[c] = "idle" /\ cb' = [cb EXCEPT ![c] = "ticket"]
        /\ UNCHANGED <<main, loop, handle, mutex, pending, mConnection, quicState, conn>>
        /\ cb \in [Conns -> CbPcs] /\ mConnection \in Conns \cup {NoConn}
        /\ handle \in Conns \cup {NoConn}
    BY <1>25 DEF callbackTicket
  <2> HIDE DEF TypeInv, TypeOK, Packets, MainPcs, LoopPcs, QuicStates, ConnStates, CbPcs,
               Faults, mainVars, gtpVars, loopVars, taskVars, quicVars, poolVars, ubVars
  <2>2. cb'[c] = "ticket" /\ \A d \in Conns : d # c => cb'[d] = cb[d]
    BY <2>1
  <2>3. mConnection = c /\ c # NoConn
    BY <2>1
  <2>4. quicState # "DISCONNECTED" /\ loop \notin {"open", "start"}
    BY <2>1, <2>3
  <2>5. ASSUME NEW d \in Conns, d # c PROVE cb[d] = "idle"
    BY <2>1, <2>3, <2>5 DEF CbPcs
  <2>6. MutexInv'
    BY <2>1, <2>2
  <2>7. QuitInv' /\ NoStrandedPending'
    BY <2>1, <2>2
  <2>8. CallbackInv'
    BY <2>1, <2>2, <2>4, <2>5
  <2>9. HandleInv'
    BY <2>1, <2>2, <2>3, <2>4
  <2> QED BY <2>6, <2>7, <2>8, <2>9
<1>26. ASSUME NEW c \in Conns, callbackTicketLength(c) PROVE Core'
  BY <1>26 DEF callbackTicketLength
<1>27. ASSUME NEW c \in Conns, NEW p \in Packets, callbackSendFinal(c, p)
      PROVE  Core'
  BY <1>27 DEF callbackSendFinal
<1> QED
  BY <1>1, <1>2, <1>3, <1>4, <1>5, <1>6, <1>7, <1>8, <1>9, <1>10, <1>11,
     <1>12, <1>13, <1>14, <1>15, <1>16, <1>17, <1>18, <1>19, <1>20, <1>21,
     <1>22, <1>23, <1>24, <1>25, <1>26, <1>27, <1>28
  DEF Step, MainStep, GtpStep, LoopStep, CallbackStep, MsQuicStep

(* The invariant holds in every reachable state. *)
LEMMA InvHolds == Spec => []Inv
<1>1. Inv /\ [Next]_vars => Inv'
  <2> SUFFICES ASSUME Inv, [Next]_vars PROVE Inv'
    OBVIOUS
  <2>1. CASE Step
    <3>1. TypeInv'
      BY <2>1, TypeNext DEF Inv
    <3>2. (MutexInv /\ CallbackInv /\ HandleInv /\ QuitInv /\ NoStrandedPending)'
      BY <2>1, CoreNext
    <3> QED BY <3>1, <3>2 DEF Inv
  <2>2. CASE UNCHANGED vars
    BY <2>2 DEF Inv, TypeInv, TypeOK, MutexInv, CallbackInv, HandleInv, QuitInv,
       NoStrandedPending, SingleConnection, Open, vars, mainVars, gtpVars,
       loopVars, taskVars, quicVars, poolVars, ubVars
  <2> QED BY <2>1, <2>2 DEF Next, Ended
<1> QED BY <1>1, InitInv, PTL DEF Spec

(* QuicTask's variables always have their types: in particular every thread *)
(* holds the packet or the handle its next call uses.                       *)
THEOREM TypeCorrect == Spec => []TypeOK
<1>1. Inv => TypeOK
  BY DEF Inv, TypeInv
<1> QED BY <1>1, InvHolds, PTL

(* m_connection never loses an open connection, whichever MsQuic calls fail *)
(* and however callbacks, send() and onQuit() interleave.                   *)
THEOREM SingleConnectionHolds == Spec => []SingleConnection
<1>1. Inv => SingleConnection
  BY DEF Inv, HandleInv
<1> QED BY <1>1, InvHolds, PTL

(* Outside CONNECTING no packet waits in m_pendingContexts. *)
THEOREM NoStrandedPendingHolds == Spec => []NoStrandedPending
<1>1. Inv => NoStrandedPending
  BY DEF Inv
<1> QED BY <1>1, InvHolds, PTL

(* The use of a closed handle by DatagramSend is confined to the window the *)
(* SHUTDOWN_COMPLETE callback leaves between ConnectionClose and the mutex. *)
THEOREM ClosedSendOnlyInWindowHolds == Spec => []ClosedSendOnlyInWindow
<1>1. Inv => ClosedSendOnlyInWindow
  BY DEF Inv, HandleInv, ClosedSendOnlyInWindow, Open, TypeInv, TypeOK
<1> QED BY <1>1, InvHolds, PTL

(* connect() never reads a resumption ticket that is being written. *)
THEOREM TicketStableHolds == Spec => []TicketStable
<1>1. Inv => TicketStable
  BY DEF Inv, HandleInv, TicketStable
<1> QED BY <1>1, InvHolds, PTL

(* When onQuit returns, no connection and no callback is left. *)
THEOREM QuitQuietHolds == Spec => []QuitQuiet
<1>1. Inv => QuitQuiet
  BY DEF Inv, QuitInv, QuitQuiet
<1> QED BY <1>1, InvHolds, PTL


-----------------------------------------------------------------------------
(* The order of the packets and the owners of their contexts *)

Ascending(s) == \A i, j \in DOMAIN s : i < j => s[i] < s[j]

(* What waits: m_pendingContexts, the packet in send(), the task's queue. *)
Pending == RangeOf(pending)
Queued  == RangeOf(msgQueue)

(* The packets stand in the order in which they were pushed: first those    *)
(* MsQuic holds, then m_pendingContexts, then the one in send(), then the   *)
(* task's queue. send() calls DatagramSend itself only when nothing is      *)
(* pending.                                                                 *)
OrderInv ==
  /\ Ascending(pending) /\ Ascending(msgQueue)
  /\ cur # 0 <=> loop \in {"lock", "read", "call"}
  /\ loop \in {"read", "call"} => pending = <<>>
  /\ \A e \in inflight :
       /\ e[2] <= pushed
       /\ \A q \in Pending \cup Queued : e[2] < q
       /\ cur # 0 => e[2] < cur
  /\ \A p \in Pending :
       /\ p <= pushed
       /\ \A q \in Queued : p < q
       /\ cur # 0 => p < cur
  /\ cur <= pushed
  /\ \A q \in Queued : q <= pushed /\ cur < q

(* A context lives exactly while somebody holds it, and at most one         *)
(* connection does. (Undefined behaviour that ends the process may strand   *)
(* one.)                                                                    *)
Held(p) == p \in Pending \/ p = cur \/ \E c \in Conns : <<c, p>> \in inflight

OwnerInv ==
  ~crashed =>
    /\ \A p \in Packets : Live(p) <=> Held(p)
    /\ \A c, d \in Conns, p \in Packets :
         <<c, p>> \in inflight /\ <<d, p>> \in inflight => c = d

LEMMA AscendingEmpty == Ascending(<<>>) /\ RangeOf(<<>>) = {}
BY DEF Ascending, RangeOf

LEMMA AscendingAppend ==
  ASSUME NEW s \in Seq(Packets), NEW e \in Packets, Ascending(s),
         \A q \in RangeOf(s) : q < e
  PROVE  Ascending(Append(s, e)) /\ RangeOf(Append(s, e)) = RangeOf(s) \cup {e}
<1> DEFINE t == Append(s, e)
<1>1. /\ Len(s) \in Nat /\ DOMAIN s = 1 .. Len(s)
      /\ DOMAIN t = 1 .. Len(s) + 1
      /\ t[Len(s) + 1] = e
      /\ \A i \in 1 .. Len(s) : t[i] = s[i]
  OBVIOUS
<1>2. Ascending(t)
  <2> SUFFICES ASSUME NEW i \in DOMAIN t, NEW j \in DOMAIN t, i < j
               PROVE  t[i] < t[j]
    BY DEF Ascending
  <2>1. i \in 1 .. Len(s) /\ t[i] = s[i]
    BY <1>1
  <2>2. CASE j = Len(s) + 1
    BY <1>1, <2>1, <2>2 DEF RangeOf
  <2>3. CASE j \in 1 .. Len(s)
    BY <1>1, <2>1, <2>3 DEF Ascending
  <2> QED BY <1>1, <2>2, <2>3
<1>3. RangeOf(t) = RangeOf(s) \cup {e}
  <2>1. \A x : x \in RangeOf(t) <=> \E i \in 1 .. Len(s) + 1 : t[i] = x
    BY <1>1 DEF RangeOf
  <2>2. \A x : x \in RangeOf(s) <=> \E i \in 1 .. Len(s) : s[i] = x
    BY <1>1 DEF RangeOf
  <2>3. \A i \in 1 .. Len(s) + 1 : i = Len(s) + 1 \/ i \in 1 .. Len(s)
    BY <1>1
  <2>4. Len(s) + 1 \in 1 .. Len(s) + 1 /\ 1 .. Len(s) \subseteq 1 .. Len(s) + 1
    BY <1>1
  <2> HIDE DEF t
  <2> QED BY <1>1, <2>1, <2>2, <2>3, <2>4
<1> QED BY <1>2, <1>3

LEMMA AscendingTail ==
  ASSUME NEW s \in Seq(Packets), Ascending(s), s # <<>>
  PROVE  /\ Ascending(Tail(s))
         /\ Head(s) \in Packets /\ Head(s) \in RangeOf(s)
         /\ RangeOf(Tail(s)) = RangeOf(s) \ {Head(s)}
         /\ \A q \in RangeOf(Tail(s)) : Head(s) < q
<1> DEFINE t == Tail(s)
<1>1. /\ Len(s) \in Nat \ {0} /\ DOMAIN s = 1 .. Len(s)
      /\ DOMAIN t = 1 .. Len(s) - 1
      /\ Head(s) = s[1] /\ s[1] \in Packets
      /\ \A i \in 1 .. Len(s) - 1 : t[i] = s[i + 1]
  OBVIOUS
<1>2. \A i \in 1 .. Len(s) - 1 : i + 1 \in 1 .. Len(s) /\ 1 < i + 1
  BY <1>1
<1>3. 1 \in 1 .. Len(s)
  BY <1>1
<1>4. Ascending(t)
  <2> SUFFICES ASSUME NEW i \in DOMAIN t, NEW j \in DOMAIN t, i < j
               PROVE  t[i] < t[j]
    BY DEF Ascending
  <2>1. i + 1 < j + 1
    BY <1>1
  <2> QED BY <1>1, <1>2, <2>1 DEF Ascending
<1>5. \A i \in 1 .. Len(s) - 1 : s[1] < t[i]
  BY <1>1, <1>2, <1>3 DEF Ascending
<1>6. \A i \in 1 .. Len(s) : s[i] \in Packets
  BY <1>1
<1>7. \A q \in RangeOf(t) : s[1] < q
  BY <1>1, <1>5 DEF RangeOf
<1>8. RangeOf(t) = RangeOf(s) \ {s[1]}
  <2>1. \A x : x \in RangeOf(t) <=> \E i \in 1 .. Len(s) - 1 : t[i] = x
    BY <1>1 DEF RangeOf
  <2>2. \A x : x \in RangeOf(s) <=> \E i \in 1 .. Len(s) : s[i] = x
    BY <1>1 DEF RangeOf
  <2>3. \A i \in 1 .. Len(s) : i = 1 \/ i - 1 \in 1 .. Len(s) - 1
    BY <1>1
  <2>4. \A i \in 1 .. Len(s) : i # 1 => t[i - 1] = s[i]
    BY <1>1, <2>3
  <2>5. s[1] \notin RangeOf(t)
    BY <1>1, <1>7 DEF Packets
  <2> HIDE DEF t
  <2> QED BY <1>1, <1>2, <2>1, <2>2, <2>3, <2>4, <2>5
<1> QED BY <1>1, <1>3, <1>4, <1>7, <1>8 DEF RangeOf

LEMMA InitOrder == Init => OrderInv /\ OwnerInv /\ PoolIntegrity
<1> SUFFICES ASSUME Init PROVE OrderInv /\ OwnerInv /\ PoolIntegrity
  OBVIOUS
<1>1. Pending = {} /\ Queued = {} /\ Ascending(pending) /\ Ascending(msgQueue)
  BY AscendingEmpty DEF Init, Pending, Queued
<1>2. OrderInv
  BY <1>1 DEF Init, OrderInv
<1>3. OwnerInv
  BY <1>1 DEF Init, OwnerInv, Held, Live, Packets
<1>4. PoolIntegrity
  BY ConstAssumption DEF Init, PoolIntegrity
<1> QED BY <1>2, <1>3, <1>4

(* executeSend hands the packet to MsQuic or leaves inflight as it is. *)
LEMMA ExecuteSendInflight ==
  ASSUME NEW p, NEW h, executeSend(p, h)
  PROVE  \/ inflight' = inflight
         \/ h # NoConn /\ conn[h] \in {"up", "closing"} /\ inflight' = inflight \cup {<<h, p>>}
BY DEF executeSend

(* A step that moves no packet keeps the order. *)
LEMMA OrderFrame ==
  ASSUME OrderInv, UNCHANGED <<pending, msgQueue, cur, inflight, pushed>>,
         loop' \in {"lock", "read", "call"} <=> loop \in {"lock", "read", "call"},
         loop' \in {"read", "call"} => pending = <<>>
  PROVE  OrderInv'
<1>1. Pending' = Pending /\ Queued' = Queued
      /\ Ascending(pending)' /\ Ascending(msgQueue)'
  BY DEF OrderInv, Ascending, Pending, Queued, RangeOf
<1> QED BY <1>1 DEF OrderInv

(* Every step keeps the packets in order. *)
LEMMA OrderNext == Inv /\ OrderInv /\ Step => OrderInv'
<1> SUFFICES ASSUME Inv, OrderInv, Step PROVE OrderInv'
  OBVIOUS
<1> USE ConstAssumption
<1> USE DEF mainVars, gtpVars, loopVars, taskVars, quicVars, poolVars, ubVars
<1>t. /\ pending \in Seq(Packets) /\ msgQueue \in Seq(Packets)
      /\ pushed \in Nat /\ cur \in Nat /\ inflight \subseteq Conns \X Packets
      /\ \A p \in Packets : p \in Nat /\ p # 0
  BY DEF Inv, TypeInv, TypeOK, Packets
<1>r. Pending \subseteq Packets /\ Queued \subseteq Packets
  BY <1>t DEF Pending, Queued, RangeOf
<1>i. \A e \in inflight : e[2] \in Packets
  BY <1>t
<1>1. CASE onStart
  BY <1>1, OrderFrame DEF onStart, OrderInv
<1>2. CASE quit
  BY <1>2, OrderFrame DEF quit, OrderInv
<1>3. CASE quitJoined
  <2>1. Queued' = {} /\ Ascending(msgQueue)' /\ Pending' = Pending /\ pending' = pending
    BY <1>3, AscendingEmpty DEF quitJoined, Queued, Pending
  <2>2. Ascending(pending)'
    BY <2>1 DEF OrderInv, Ascending
  <2> QED BY <1>3, <2>1, <2>2 DEF quitJoined, OrderInv
<1>28. CASE onQuitTest
  BY <1>28, OrderFrame DEF onQuitTest, OrderInv
<1>4. CASE onQuitRead
  BY <1>4, OrderFrame DEF onQuitRead, OrderInv
<1>5. CASE onQuitShutdown
  BY <1>5, OrderFrame DEF onQuitShutdown, OrderInv
<1>6. CASE onQuitRegistration
  BY <1>6, OrderFrame DEF onQuitRegistration, OrderInv
<1>7. CASE onQuitClose
  BY <1>7, OrderFrame DEF onQuitClose, OrderInv
<1>8. CASE pushTest
  <2>1. pushed' \in Nat /\ pushed <= pushed'
    BY <1>8, <1>t DEF pushTest
  <2>2. UNCHANGED <<pending, msgQueue, cur, inflight, loop>>
    BY <1>8 DEF pushTest
  <2>3. Pending' = Pending /\ Queued' = Queued
        /\ Ascending(pending)' /\ Ascending(msgQueue)'
    BY <2>2 DEF OrderInv, Ascending, Pending, Queued, RangeOf
  <2>4. \A x \in Nat : x <= pushed => x <= pushed'
    BY <2>1, <1>t
  <2> QED BY <1>t, <1>r, <1>i, <2>2, <2>3, <2>4 DEF OrderInv
<1>9. CASE pushEnqueue
  <2>1. /\ pushed' = pushed + 1 /\ pushed + 1 \in Packets
        /\ msgQueue' = Append(msgQueue, pushed + 1)
        /\ UNCHANGED <<pending, cur, inflight, loop>>
    BY <1>9, <1>t DEF pushEnqueue, Inv, TypeInv, TypeOK, Packets
  <2>2. \A x \in Nat : x <= pushed => x <= pushed' /\ x < pushed + 1
    BY <2>1, <1>t
  <2>3. \A q \in Queued : q < pushed + 1
    BY <2>2, <1>t, <1>r DEF OrderInv
  <2>4. Ascending(msgQueue)' /\ Queued' = Queued \cup {pushed + 1}
    <3>1. \A q \in RangeOf(msgQueue) : q < pushed + 1
      BY <2>3 DEF Queued
    <3>2. Ascending(msgQueue)
      BY DEF OrderInv
    <3> QED BY <2>1, <3>1, <3>2, <1>t, AscendingAppend DEF Queued
  <2>5. Pending' = Pending /\ Ascending(pending)'
    BY <2>1 DEF OrderInv, Ascending, Pending
  <2>6. \A e \in inflight' : /\ e[2] <= pushed'
                             /\ \A q \in Pending' \cup Queued' : e[2] < q
                             /\ cur' # 0 => e[2] < cur'
    BY <1>t, <1>r, <1>i, <2>1, <2>2, <2>4, <2>5 DEF OrderInv
  <2>7. \A p \in Pending' : /\ p <= pushed'
                            /\ \A q \in Queued' : p < q
                            /\ cur' # 0 => p < cur'
    BY <1>t, <1>r, <2>1, <2>2, <2>4, <2>5 DEF OrderInv
  <2>8. cur' <= pushed' /\ \A q \in Queued' : q <= pushed' /\ cur' < q
    BY <1>t, <1>r, <2>1, <2>2, <2>4 DEF OrderInv
  <2> QED BY <2>1, <2>4, <2>5, <2>6, <2>7, <2>8 DEF OrderInv
<1>10. CASE loopTest
  BY <1>10, OrderFrame DEF loopTest, OrderInv
<1>11. CASE onLoop
  <2>1. msgQueue # <<>> /\ cur = 0
    BY <1>11 DEF onLoop, Inv, TypeInv, OrderInv
  <2> DEFINE h == Head(msgQueue)
  <2>2. /\ Ascending(Tail(msgQueue))
        /\ h \in Packets /\ h \in Queued
        /\ RangeOf(Tail(msgQueue)) = Queued \ {h}
        /\ \A q \in RangeOf(Tail(msgQueue)) : h < q
    BY <1>t, <2>1, AscendingTail DEF OrderInv, Queued
  <2>3. /\ cur' = h /\ loop' = "lock" /\ Queued' = Queued \ {h}
        /\ Ascending(msgQueue)' /\ UNCHANGED <<pending, inflight, pushed>>
    BY <1>11, <2>2 DEF onLoop, Queued
  <2>4. Pending' = Pending /\ Ascending(pending)'
    BY <2>3 DEF OrderInv, Ascending, Pending
  <2>5. \A q \in Queued' : h < q
    BY <2>2, <2>3
  <2> HIDE DEF h
  <2> QED BY <1>t, <1>r, <1>i, <2>2, <2>3, <2>4, <2>5 DEF OrderInv
<1>12. CASE send
  <2>1. cur \in Packets /\ cur # 0
    BY <1>12, <1>t DEF send, Inv, TypeInv
  <2>2. UNCHANGED <<msgQueue, inflight, pushed>> /\ Queued' = Queued
        /\ Ascending(msgQueue)'
    BY <1>12 DEF send, OrderInv, Ascending, Queued
  <2>3. CASE pending' = Append(pending, cur) /\ cur' = 0 /\ loop' \in {"open", "poll"}
    <3>1. \A q \in RangeOf(pending) : q < cur
      BY <2>1 DEF OrderInv, Pending
    <3>2. Ascending(pending)
      BY DEF OrderInv
    <3>3. Ascending(pending)' /\ Pending' = Pending \cup {cur}
      BY <1>t, <2>1, <2>3, <3>1, <3>2, AscendingAppend DEF Pending
    <3>4. \A q \in Queued : q \in Nat /\ 0 < q
      BY <1>t, <1>r
    <3>5. 0 <= pushed
      BY <1>t
    <3> QED BY <2>1, <2>2, <2>3, <3>3, <3>4, <3>5 DEF OrderInv
  <2>4. CASE quicState = "CONNECTED" /\ loop' = "read" /\ UNCHANGED <<pending, cur>>
    <3>1. pending = <<>>
      BY <1>12, <2>4 DEF send, Inv, NoStrandedPending
    <3>2. loop = "lock"
      BY <1>12 DEF send
    <3> QED BY <2>2, <2>4, <3>1, <3>2, OrderFrame DEF OrderInv
  <2> QED BY <1>12, <2>3, <2>4 DEF send
<1>13. CASE connectOpen
  BY <1>13, OrderFrame DEF connectOpen, OrderInv
<1>14. CASE connectStart
  BY <1>14, OrderFrame DEF connectStart, OrderInv
<1>15. CASE sendRead
  BY <1>15, OrderFrame DEF sendRead, OrderInv
<1>16. CASE sendCall
  <2>1. /\ pending = <<>> /\ cur \in Packets /\ cur # 0
        /\ cur' = 0 /\ loop' = "poll" /\ UNCHANGED <<pending, msgQueue, pushed>>
    BY <1>16, <1>t DEF sendCall, OrderInv, Inv, TypeInv
  <2>2. \A e \in inflight' : e \in inflight \/ e[2] = cur
    BY <1>16, ExecuteSendInflight DEF sendCall
  <2>3. Pending' = {} /\ Queued' = Queued
        /\ Ascending(pending)' /\ Ascending(msgQueue)'
    BY <2>1, AscendingEmpty DEF OrderInv, Ascending, Pending, Queued
  <2>4. \A q \in Queued : q \in Nat /\ 0 < q
    BY <1>t, <1>r
  <2>5. 0 <= pushed
    BY <1>t
  <2> QED BY <2>1, <2>2, <2>3, <2>4, <2>5 DEF OrderInv
<1>17. ASSUME NEW c \in Conns, HandshakeDone(c) PROVE OrderInv'
  BY <1>17, OrderFrame DEF HandshakeDone, OrderInv
<1>18. ASSUME NEW c \in Conns, ConnectionLost(c) PROVE OrderInv'
  BY <1>18, OrderFrame DEF ConnectionLost, OrderInv
<1>19. ASSUME NEW c \in Conns, ShutdownDone(c) PROVE OrderInv'
  BY <1>19, OrderFrame DEF ShutdownDone, OrderInv
<1>20. ASSUME NEW c \in Conns, callbackConnected(c) PROVE OrderInv'
  BY <1>20, OrderFrame DEF callbackConnected, OrderInv
<1>21. ASSUME NEW c \in Conns, callbackFlush(c) PROVE OrderInv'
  <2>1. CASE pending # <<>>
    <3> DEFINE h == Head(pending)
    <3>1. /\ Ascending(Tail(pending))
          /\ h \in Packets /\ h \in Pending
          /\ RangeOf(Tail(pending)) = Pending \ {h}
          /\ \A q \in RangeOf(Tail(pending)) : h < q
      BY <1>t, <2>1, AscendingTail DEF OrderInv, Pending
    <3>2. /\ pending' = Tail(pending) /\ executeSend(h, mConnection)
          /\ UNCHANGED <<msgQueue, cur, pushed, loop>>
      BY <1>21, <2>1 DEF callbackFlush
    <3>3. /\ Pending' = Pending \ {h} /\ Ascending(pending)'
          /\ \A q \in Pending' : h < q
      BY <3>1, <3>2 DEF Pending
    <3>4. \A e \in inflight' : e \in inflight \/ e[2] = h
      BY <3>2, ExecuteSendInflight
    <3>5. Queued' = Queued /\ Ascending(msgQueue)'
      BY <3>2 DEF OrderInv, Ascending, Queued
    <3>6. loop \notin {"read", "call"}
      BY <2>1 DEF OrderInv
    <3> HIDE DEF h
    <3> QED BY <3>1, <3>2, <3>3, <3>4, <3>5, <3>6 DEF OrderInv
  <2>2. CASE pending = <<>>
    BY <1>21, <2>2, OrderFrame DEF callbackFlush, OrderInv
  <2> QED BY <2>1, <2>2
<1>22. ASSUME NEW c \in Conns, callbackClose(c) PROVE OrderInv'
  BY <1>22, OrderFrame DEF callbackClose, OrderInv
<1>23. ASSUME NEW c \in Conns, callbackNull(c) PROVE OrderInv'
  BY <1>23, OrderFrame DEF callbackNull, OrderInv
<1>24. ASSUME NEW c \in Conns, callbackReset(c) PROVE OrderInv'
  <2>1. /\ Pending' = {} /\ Ascending(pending)' /\ pending' = <<>>
        /\ UNCHANGED <<msgQueue, cur, pushed, loop, inflight>>
    BY <1>24, AscendingEmpty DEF callbackReset, Pending
  <2>2. Queued' = Queued /\ Ascending(msgQueue)'
    BY <2>1 DEF OrderInv, Ascending, Queued
  <2> QED BY <2>1, <2>2 DEF OrderInv
<1>25. ASSUME NEW c \in Conns, callbackTicket(c) PROVE OrderInv'
  BY <1>25, OrderFrame DEF callbackTicket, OrderInv
<1>26. ASSUME NEW c \in Conns, callbackTicketLength(c) PROVE OrderInv'
  BY <1>26, OrderFrame DEF callbackTicketLength, OrderInv
<1>27. ASSUME NEW c \in Conns, NEW p \in Packets, callbackSendFinal(c, p)
      PROVE  OrderInv'
  <2>1. inflight' \subseteq inflight /\ UNCHANGED <<pending, msgQueue, cur, pushed, loop>>
    BY <1>27 DEF callbackSendFinal
  <2>2. Pending' = Pending /\ Queued' = Queued
        /\ Ascending(pending)' /\ Ascending(msgQueue)'
    BY <2>1 DEF OrderInv, Ascending, Pending, Queued
  <2> QED BY <2>1, <2>2 DEF OrderInv
<1> QED
  BY <1>1, <1>2, <1>3, <1>4, <1>5, <1>6, <1>7, <1>8, <1>9, <1>10, <1>11,
     <1>12, <1>13, <1>14, <1>15, <1>16, <1>17, <1>18, <1>19, <1>20, <1>21,
     <1>22, <1>23, <1>24, <1>25, <1>26, <1>27, <1>28
  DEF Step, MainStep, GtpStep, LoopStep, CallbackStep, MsQuicStep

(* operator new and operator delete keep the pool consistent and change the *)
(* life of the contexts they are called for only.                           *)
LEMMA AllocatePool ==
  ASSUME TypeOK, PoolIntegrity, NEW p \in Packets, ~Live(p), allocate(p)
  PROVE  /\ PoolIntegrity'
         /\ \A q \in Packets : Live(q)' <=> Live(q) \/ q = p
<1> USE ConstAssumption
<1>1. CASE mPool = {} /\ block' = [block EXCEPT ![p] = Heap] /\ UNCHANGED mPool
  BY <1>1 DEF TypeOK, PoolIntegrity, Live
<1>2. ASSUME NEW b \in mPool, block' = [block EXCEPT ![p] = b], mPool' = mPool \ {b}
      PROVE  /\ PoolIntegrity'
             /\ \A q \in Packets : Live(q)' <=> Live(q) \/ q = p
  <2>1. b \in Blocks /\ b # NoBlock /\ \A q \in Packets : block[q] # b
    BY <1>2 DEF TypeOK, PoolIntegrity
  <2>2. \A q \in Packets : block'[q] = IF q = p THEN b ELSE block[q]
    BY <1>2 DEF TypeOK
  <2>3. PoolIntegrity'
    <3> SUFFICES ASSUME NEW x \in Blocks
                 PROVE  /\ x \in mPool' <=> \A q \in Packets : block'[q] # x
                        /\ \A q, r \in Packets :
                             block'[q] = x /\ block'[r] = x => q = r
      BY DEF PoolIntegrity
    <3>1. CASE x = b
      BY <1>2, <2>1, <2>2, <3>1
    <3>2. CASE x # b
      BY <1>2, <2>1, <2>2, <3>2 DEF PoolIntegrity, Live
    <3> QED BY <3>1, <3>2
  <2> QED BY <2>1, <2>2, <2>3 DEF Live
<1> QED BY <1>1, <1>2 DEF allocate

LEMMA DeallocatePool ==
  ASSUME TypeOK, PoolIntegrity, NEW D \in SUBSET Packets, deallocate(D)
  PROVE  /\ PoolIntegrity'
         /\ \A q \in Packets : Live(q)' <=> Live(q) /\ q \notin D
<1> USE ConstAssumption
<1>1. \A q \in Packets : block'[q] = IF q \in D THEN NoBlock ELSE block[q]
  BY DEF deallocate
<1>2. \A b \in Blocks : b \in mPool' <=> b \in mPool \/ \E q \in D : block[q] = b
  BY DEF deallocate
<1>3. PoolIntegrity'
  BY <1>1, <1>2 DEF PoolIntegrity
<1> QED BY <1>1, <1>3 DEF Live

LEMMA ExecuteSendPool ==
  ASSUME TypeOK, PoolIntegrity, NEW p \in Packets, NEW h \in Conns \cup {NoConn},
         executeSend(p, h)
  PROVE  /\ PoolIntegrity'
         /\ \/ crashed'
            \/ /\ inflight' = inflight
               /\ \A q \in Packets : Live(q)' <=> Live(q) /\ q # p
            \/ /\ h \in Conns /\ inflight' = inflight \cup {<<h, p>>}
               /\ \A q \in Packets : Live(q)' <=> Live(q)
<1>1. CASE deallocate({p}) /\ inflight' = inflight
  <2>1. {p} \in SUBSET Packets
    OBVIOUS
  <2> QED BY <1>1, <2>1, DeallocatePool
<1>2. CASE h # NoConn /\ inflight' = inflight \cup {<<h, p>>} /\ UNCHANGED poolVars
  BY <1>2 DEF poolVars, PoolIntegrity, Live
<1>3. CASE crashed' /\ UNCHANGED poolVars
  BY <1>3 DEF poolVars, PoolIntegrity
<1> QED BY <1>1, <1>2, <1>3 DEF executeSend

(* A step that moves no context keeps its owner. *)
LEMMA OwnerFrame ==
  ASSUME OwnerInv, PoolIntegrity, ~crashed,
         UNCHANGED <<pending, cur, inflight, block, mPool>>
  PROVE  OwnerInv' /\ PoolIntegrity'
BY DEF OwnerInv, Held, Live, Pending, RangeOf, PoolIntegrity

(* Every step keeps one owner for each context, and the pool consistent. *)
LEMMA OwnerNext ==
  ASSUME Inv, OrderInv, OwnerInv, PoolIntegrity, ~crashed, Step
  PROVE  OwnerInv' /\ PoolIntegrity'
<1> USE ConstAssumption
<1> USE DEF mainVars, gtpVars, loopVars, taskVars, quicVars, poolVars, ubVars
<1>t. /\ pending \in Seq(Packets) /\ msgQueue \in Seq(Packets)
      /\ cur \in Nat /\ inflight \subseteq Conns \X Packets
      /\ \A p \in Packets : p \in Nat /\ p # 0
      /\ TypeOK
  BY DEF Inv, TypeInv, TypeOK, Packets
<1>r. Pending \subseteq Packets /\ Queued \subseteq Packets
  BY <1>t DEF Pending, Queued, RangeOf
<1>o. /\ \A p \in Packets : Live(p) <=> Held(p)
      /\ \A c, d \in Conns, p \in Packets :
           <<c, p>> \in inflight /\ <<d, p>> \in inflight => c = d
  BY DEF OwnerInv
<1>1. CASE onStart
  BY <1>1, OwnerFrame DEF onStart
<1>2. CASE quit
  BY <1>2, OwnerFrame DEF quit
<1>3. CASE quitJoined
  BY <1>3, OwnerFrame DEF quitJoined
<1>28. CASE onQuitTest
  BY <1>28, OwnerFrame DEF onQuitTest
<1>4. CASE onQuitRead
  BY <1>4, OwnerFrame DEF onQuitRead
<1>5. CASE onQuitShutdown
  BY <1>5, OwnerFrame DEF onQuitShutdown
<1>6. CASE onQuitRegistration
  BY <1>6, OwnerFrame DEF onQuitRegistration
<1>7. CASE onQuitClose
  BY <1>7, OwnerFrame DEF onQuitClose
<1>8. CASE pushTest
  BY <1>8, OwnerFrame DEF pushTest
<1>9. CASE pushEnqueue
  BY <1>9, OwnerFrame DEF pushEnqueue
<1>10. CASE loopTest
  BY <1>10, OwnerFrame DEF loopTest
<1>11. CASE onLoop
  <2>1. msgQueue # <<>> /\ cur = 0
    BY <1>11 DEF onLoop, Inv, TypeInv, OrderInv
  <2> DEFINE h == Head(msgQueue)
  <2>2. h \in Packets /\ h \in Queued
    BY <1>t, <2>1, AscendingTail DEF OrderInv, Queued
  <2>3. cur' = h /\ allocate(h) /\ UNCHANGED <<pending, inflight, crashed>>
    BY <1>11 DEF onLoop
  <2> HIDE DEF h
  <2>4. h \notin Pending /\ \A c \in Conns : <<c, h>> \notin inflight
    <3>1. ASSUME h \in Pending PROVE FALSE
      <4>1. h < h
        BY <2>2, <3>1 DEF OrderInv
      <4> QED BY <1>t, <2>2, <4>1
    <3>2. ASSUME NEW c \in Conns, <<c, h>> \in inflight PROVE FALSE
      <4>1. <<c, h>>[2] < h
        BY <2>2, <3>2 DEF OrderInv
      <4> QED BY <1>t, <2>2, <4>1
    <3> QED BY <3>1, <3>2
  <2>5. ~Live(h)
    BY <1>o, <1>t, <2>1, <2>2, <2>4 DEF Held
  <2>6. PoolIntegrity' /\ \A q \in Packets : Live(q)' <=> Live(q) \/ q = h
    BY <1>t, <2>2, <2>3, <2>5, AllocatePool
  <2>7. Pending' = Pending
    BY <2>3 DEF Pending
  <2>8. \A q \in Packets : Live(q)' <=> Held(q)'
    <3> SUFFICES ASSUME NEW q \in Packets PROVE Live(q)' <=> Held(q)'
      OBVIOUS
    <3>1. Held(q)' <=> (q \in Pending \/ q = h \/ \E c \in Conns : <<c, q>> \in inflight)
      BY <2>3, <2>7 DEF Held
    <3>2. Live(q) <=> (q \in Pending \/ \E c \in Conns : <<c, q>> \in inflight)
      BY <1>o, <1>t, <2>1 DEF Held
    <3> QED BY <2>6, <3>1, <3>2
  <2> QED BY <1>o, <2>3, <2>6, <2>8 DEF OwnerInv
<1>12. CASE send
  <2>1. UNCHANGED <<inflight, block, mPool, crashed>>
    BY <1>12 DEF send
  <2>2. cur \in Packets
    BY <1>12 DEF send, Inv, TypeInv
  <2>3. CASE pending' = Append(pending, cur) /\ cur' = 0
    <3>1. \A q \in RangeOf(pending) : q < cur
      BY <1>t, <2>2 DEF OrderInv, Pending
    <3>2. Ascending(pending)
      BY DEF OrderInv
    <3>3. Pending' = Pending \cup {cur}
      BY <1>t, <2>2, <2>3, <3>1, <3>2, AscendingAppend DEF Pending
    <3>4. \A q \in Packets : Held(q)' <=> Held(q)
      BY <1>t, <2>1, <2>3, <3>3 DEF Held
    <3>5. \A q \in Packets : Live(q)' <=> Live(q)
      BY <2>1 DEF Live
    <3>6. PoolIntegrity'
      BY <2>1 DEF PoolIntegrity
    <3> QED BY <1>o, <2>1, <3>4, <3>5, <3>6 DEF OwnerInv
  <2>4. CASE UNCHANGED <<pending, cur>>
    BY <2>1, <2>4, OwnerFrame
  <2> QED BY <1>12, <2>3, <2>4 DEF send
<1>13. CASE connectOpen
  BY <1>13, OwnerFrame DEF connectOpen
<1>14. CASE connectStart
  BY <1>14, OwnerFrame DEF connectStart
<1>15. CASE sendRead
  BY <1>15, OwnerFrame DEF sendRead
<1>16. CASE sendCall
  <2>1. /\ cur \in Packets /\ handle \in Conns \cup {NoConn}
        /\ executeSend(cur, handle) /\ cur' = 0 /\ UNCHANGED pending
    BY <1>16, <1>t DEF sendCall, Inv, TypeInv, TypeOK
  <2>2. /\ PoolIntegrity'
        /\ \/ crashed'
           \/ /\ inflight' = inflight
              /\ \A q \in Packets : Live(q)' <=> Live(q) /\ q # cur
           \/ /\ handle \in Conns /\ inflight' = inflight \cup {<<handle, cur>>}
              /\ \A q \in Packets : Live(q)' <=> Live(q)
    BY <1>t, <2>1, ExecuteSendPool
  <2>3. Pending' = Pending
    BY <2>1 DEF Pending
  <2>4. cur \notin Pending /\ \A c \in Conns : <<c, cur>> \notin inflight
    <3>1. ASSUME cur \in Pending PROVE FALSE
      <4>1. cur < cur
        BY <1>t, <2>1, <3>1 DEF OrderInv
      <4> QED BY <1>t, <4>1
    <3>2. ASSUME NEW c \in Conns, <<c, cur>> \in inflight PROVE FALSE
      <4>1. <<c, cur>>[2] < cur
        BY <1>t, <2>1, <3>2 DEF OrderInv
      <4> QED BY <1>t, <4>1
    <3> QED BY <3>1, <3>2
  <2>5. CASE inflight' = inflight /\ \A q \in Packets : Live(q)' <=> Live(q) /\ q # cur
    <3>1. \A q \in Packets : Held(q)' <=> Held(q) /\ q # cur
      BY <1>t, <2>1, <2>3, <2>4, <2>5 DEF Held
    <3> QED BY <1>o, <2>2, <2>5, <3>1 DEF OwnerInv
  <2>6. CASE handle \in Conns /\ inflight' = inflight \cup {<<handle, cur>>}
             /\ \A q \in Packets : Live(q)' <=> Live(q)
    <3>1. \A q \in Packets : Held(q)' <=> Held(q)
      BY <1>t, <2>1, <2>3, <2>4, <2>6 DEF Held
    <3>2. \A c, d \in Conns, p \in Packets :
            <<c, p>> \in inflight' /\ <<d, p>> \in inflight' => c = d
      BY <1>o, <2>4, <2>6
    <3> QED BY <1>o, <2>2, <2>6, <3>1, <3>2 DEF OwnerInv
  <2>7. CASE crashed'
    BY <2>2, <2>7 DEF OwnerInv
  <2> QED BY <2>2, <2>5, <2>6, <2>7
<1>17. ASSUME NEW c \in Conns, HandshakeDone(c) PROVE OwnerInv' /\ PoolIntegrity'
  BY <1>17, OwnerFrame DEF HandshakeDone
<1>18. ASSUME NEW c \in Conns, ConnectionLost(c) PROVE OwnerInv' /\ PoolIntegrity'
  BY <1>18, OwnerFrame DEF ConnectionLost
<1>19. ASSUME NEW c \in Conns, ShutdownDone(c) PROVE OwnerInv' /\ PoolIntegrity'
  BY <1>19, OwnerFrame DEF ShutdownDone
<1>20. ASSUME NEW c \in Conns, callbackConnected(c) PROVE OwnerInv' /\ PoolIntegrity'
  BY <1>20, OwnerFrame DEF callbackConnected
<1>21. ASSUME NEW c \in Conns, callbackFlush(c) PROVE OwnerInv' /\ PoolIntegrity'
  <2>1. CASE pending # <<>>
    <3> DEFINE h == Head(pending)
    <3>1. /\ h \in Packets /\ h \in Pending
          /\ RangeOf(Tail(pending)) = Pending \ {h}
      BY <1>t, <2>1, AscendingTail DEF OrderInv, Pending
    <3>2. /\ pending' = Tail(pending) /\ executeSend(h, mConnection)
          /\ UNCHANGED cur /\ mConnection \in Conns \cup {NoConn}
      BY <1>21, <1>t, <2>1 DEF callbackFlush, TypeOK
    <3>3. Pending' = Pending \ {h}
      BY <3>1, <3>2 DEF Pending
    <3> HIDE DEF h
    <3>4. /\ PoolIntegrity'
          /\ \/ crashed'
             \/ /\ inflight' = inflight
                /\ \A q \in Packets : Live(q)' <=> Live(q) /\ q # h
             \/ /\ mConnection \in Conns /\ inflight' = inflight \cup {<<mConnection, h>>}
                /\ \A q \in Packets : Live(q)' <=> Live(q)
      BY <1>t, <3>1, <3>2, ExecuteSendPool
    <3>5. h # cur /\ \A d \in Conns : <<d, h>> \notin inflight
      <4>1. ASSUME h = cur PROVE FALSE
        <5>1. h < h
          BY <1>t, <3>1, <4>1 DEF OrderInv
        <5> QED BY <1>t, <3>1, <5>1
      <4>2. ASSUME NEW d \in Conns, <<d, h>> \in inflight PROVE FALSE
        <5>1. <<d, h>>[2] < h
          BY <3>1, <4>2 DEF OrderInv
        <5> QED BY <1>t, <3>1, <5>1
      <4> QED BY <4>1, <4>2
    <3>6. CASE inflight' = inflight /\ \A q \in Packets : Live(q)' <=> Live(q) /\ q # h
      <4>1. \A q \in Packets : Held(q)' <=> Held(q) /\ q # h
        BY <3>2, <3>3, <3>5, <3>6 DEF Held
      <4> QED BY <1>o, <3>4, <3>6, <4>1 DEF OwnerInv
    <3>7. CASE mConnection \in Conns /\ inflight' = inflight \cup {<<mConnection, h>>}
               /\ \A q \in Packets : Live(q)' <=> Live(q)
      <4>1. \A q \in Packets : Held(q)' <=> Held(q)
        BY <3>1, <3>2, <3>3, <3>7 DEF Held
      <4>2. \A a, d \in Conns, p \in Packets :
              <<a, p>> \in inflight' /\ <<d, p>> \in inflight' => a = d
        BY <1>o, <3>5, <3>7
      <4> QED BY <1>o, <3>4, <3>7, <4>1, <4>2 DEF OwnerInv
    <3>8. CASE crashed'
      BY <3>4, <3>8 DEF OwnerInv
    <3> QED BY <3>4, <3>6, <3>7, <3>8
  <2>2. CASE pending = <<>>
    BY <1>21, <2>2, OwnerFrame DEF callbackFlush
  <2> QED BY <2>1, <2>2
<1>22. ASSUME NEW c \in Conns, callbackClose(c) PROVE OwnerInv' /\ PoolIntegrity'
  BY <1>22, OwnerFrame DEF callbackClose
<1>23. ASSUME NEW c \in Conns, callbackNull(c) PROVE OwnerInv' /\ PoolIntegrity'
  BY <1>23, OwnerFrame DEF callbackNull
<1>24. ASSUME NEW c \in Conns, callbackReset(c) PROVE OwnerInv' /\ PoolIntegrity'
  <2>1. /\ Pending' = {} /\ deallocate(Pending)
        /\ UNCHANGED <<cur, inflight, crashed>>
    BY <1>24, AscendingEmpty DEF callbackReset, Pending
  <2>2. PoolIntegrity' /\ \A q \in Packets : Live(q)' <=> Live(q) /\ q \notin Pending
    BY <1>t, <1>r, <2>1, DeallocatePool
  <2>3. ASSUME NEW p \in Pending
        PROVE  p # cur /\ \A d \in Conns : <<d, p>> \notin inflight
    <3>0. p \in Nat /\ p # 0
      BY <1>t, <1>r
    <3>1. ASSUME p = cur PROVE FALSE
      <4>1. p < p
        BY <3>0, <3>1 DEF OrderInv
      <4> QED BY <3>0, <4>1
    <3>2. ASSUME NEW d \in Conns, <<d, p>> \in inflight PROVE FALSE
      <4>1. <<d, p>>[2] < p
        BY <3>2 DEF OrderInv
      <4> QED BY <3>0, <4>1
    <3> QED BY <3>1, <3>2
  <2>4. \A q \in Packets : Held(q)' <=> Held(q) /\ q \notin Pending
    BY <2>1, <2>3 DEF Held
  <2> QED BY <1>o, <2>1, <2>2, <2>4 DEF OwnerInv
<1>25. ASSUME NEW c \in Conns, callbackTicket(c) PROVE OwnerInv' /\ PoolIntegrity'
  BY <1>25, OwnerFrame DEF callbackTicket
<1>26. ASSUME NEW c \in Conns, callbackTicketLength(c) PROVE OwnerInv' /\ PoolIntegrity'
  BY <1>26, OwnerFrame DEF callbackTicketLength
<1>27. ASSUME NEW c \in Conns, NEW p \in Packets, callbackSendFinal(c, p)
      PROVE  OwnerInv' /\ PoolIntegrity'
  <2>1. /\ <<c, p>> \in inflight /\ inflight' = inflight \ {<<c, p>>}
        /\ deallocate({p}) /\ {p} \in SUBSET Packets
        /\ UNCHANGED <<pending, cur, crashed>>
    BY <1>27 DEF callbackSendFinal
  <2>2. PoolIntegrity' /\ \A q \in Packets : Live(q)' <=> Live(q) /\ q # p
    BY <1>t, <2>1, DeallocatePool
  <2>3. p \notin Pending /\ p # cur
    <3>0. p \in Nat /\ p # 0 /\ <<c, p>>[2] = p
      BY <1>t
    <3>1. ASSUME p \in Pending PROVE FALSE
      <4>1. <<c, p>>[2] < p
        BY <2>1, <3>1 DEF OrderInv
      <4> QED BY <3>0, <4>1
    <3>2. ASSUME p = cur PROVE FALSE
      <4>1. <<c, p>>[2] < p
        BY <2>1, <3>0, <3>2 DEF OrderInv
      <4> QED BY <3>0, <4>1
    <3> QED BY <3>1, <3>2
  <2>4. Pending' = Pending
    BY <2>1 DEF Pending
  <2>5. \A q \in Packets : Held(q)' <=> Held(q) /\ q # p
    BY <1>o, <2>1, <2>3, <2>4 DEF Held
  <2> QED BY <1>o, <2>1, <2>2, <2>5 DEF OwnerInv
<1> QED
  BY <1>1, <1>2, <1>3, <1>4, <1>5, <1>6, <1>7, <1>8, <1>9, <1>10, <1>11,
     <1>12, <1>13, <1>14, <1>15, <1>16, <1>17, <1>18, <1>19, <1>20, <1>21,
     <1>22, <1>23, <1>24, <1>25, <1>26, <1>27, <1>28
  DEF Step, MainStep, GtpStep, LoopStep, CallbackStep, MsQuicStep

(* What MsQuic holds belongs to a connection that has not ended; whoever    *)
(* flushes owns the mutex; the task's thread waits for onStart; a process   *)
(* that has quit did not crash.                                             *)
EndInv ==
  /\ \A e \in inflight : conn[e[1]] \in {"up", "closing"}
  /\ mutex = "cb" => \E c \in Conns : cb[c] = "flush"
  /\ main = "start" => loop = "poll"
  /\ main = "done" => ~crashed

(* Until connect() fails, CONNECTING stands for a connection that has not   *)
(* been reset.                                                              *)
ConnectInv ==
  ~connectFailed /\ quicState = "CONNECTING" /\ loop \notin {"open", "start"} =>
    \E c \in Conns : \/ conn[c] \in {"handshake", "up", "closing", "down"}
                     \/ cb[c] \in {"null", "reset"}

(* Every step keeps what quit() relies on. *)
LEMMA EndNext == ASSUME Inv, EndInv, ~crashed, Step PROVE EndInv'
<1> USE ConstAssumption
<1> USE DEF mainVars, gtpVars, loopVars, taskVars, quicVars, poolVars, ubVars
<1>t. /\ conn \in [Conns -> ConnStates] /\ cb \in [Conns -> CbPcs]
      /\ inflight \subseteq Conns \X Packets
      /\ mConnection \in Conns \cup {NoConn}
      /\ \A e \in inflight : e[1] \in Conns /\ e[2] \in Packets /\ e = <<e[1], e[2]>>
  BY DEF Inv, TypeInv, TypeOK
<1>1. CASE onStart
  BY <1>1 DEF onStart, EndInv
<1>2. CASE quit
  BY <1>2 DEF quit, EndInv
<1>3. CASE quitJoined
  BY <1>3 DEF quitJoined, EndInv
<1>28. CASE onQuitTest
  BY <1>28 DEF onQuitTest, EndInv
<1>4. CASE onQuitRead
  BY <1>4 DEF onQuitRead, EndInv
<1>5. CASE onQuitShutdown
  BY <1>5, <1>t DEF onQuitShutdown, EndInv
<1>6. CASE onQuitRegistration
  BY <1>6 DEF onQuitRegistration, EndInv
<1>7. CASE onQuitClose
  BY <1>7 DEF onQuitClose, EndInv
<1>8. CASE pushTest
  BY <1>8 DEF pushTest, EndInv
<1>9. CASE pushEnqueue
  BY <1>9 DEF pushEnqueue, EndInv
<1>10. CASE loopTest
  BY <1>10 DEF loopTest, EndInv
<1>11. CASE onLoop
  BY <1>11 DEF onLoop, EndInv
<1>12. CASE send
  BY <1>12 DEF send, EndInv
<1>13. CASE connectOpen
  <2>1. main \notin {"start", "done"}
    BY <1>13 DEF connectOpen, EndInv, Inv, QuitInv
  <2>2. \A e \in inflight : conn'[e[1]] \in {"up", "closing"}
    BY <1>13, <1>t DEF connectOpen, EndInv
  <2>3. mutex = "loop"
    BY <1>13 DEF connectOpen, Inv, MutexInv
  <2> QED BY <1>13, <2>1, <2>2, <2>3 DEF connectOpen, EndInv
<1>14. CASE connectStart
  <2>1. main # "start"
    BY <1>14 DEF connectStart, EndInv
  <2>2. \A e \in inflight : conn'[e[1]] \in {"up", "closing"}
    BY <1>14, <1>t DEF connectStart, EndInv, Inv, HandleInv
  <2> QED BY <1>14, <2>1, <2>2 DEF connectStart, EndInv
<1>15. CASE sendRead
  BY <1>15 DEF sendRead, EndInv
<1>16. CASE sendCall
  <2>1. main \notin {"start", "done"}
    BY <1>16 DEF sendCall, EndInv, Inv, QuitInv
  <2>2. \A e \in inflight' : conn[e[1]] \in {"up", "closing"}
    BY <1>16, ExecuteSendInflight DEF sendCall, EndInv
  <2> QED BY <1>16, <2>1, <2>2 DEF sendCall, EndInv
<1>17. ASSUME NEW c \in Conns, HandshakeDone(c) PROVE EndInv'
  <2>1. \A e \in inflight : conn'[e[1]] \in {"up", "closing"}
    BY <1>17, <1>t DEF HandshakeDone, EndInv
  <2>2. \A d \in Conns : cb[d] = "flush" => cb'[d] = "flush"
    BY <1>17, <1>t DEF HandshakeDone
  <2> QED BY <1>17, <2>1, <2>2 DEF HandshakeDone, EndInv
<1>18. ASSUME NEW c \in Conns, ConnectionLost(c) PROVE EndInv'
  BY <1>18, <1>t DEF ConnectionLost, EndInv
<1>19. ASSUME NEW c \in Conns, ShutdownDone(c) PROVE EndInv'
  <2>1. \A e \in inflight : e[1] # c
    BY <1>19, <1>t DEF ShutdownDone
  <2>2. \A e \in inflight : conn'[e[1]] \in {"up", "closing"}
    BY <1>19, <1>t, <2>1 DEF ShutdownDone, EndInv
  <2>3. \A d \in Conns : cb[d] = "flush" => cb'[d] = "flush"
    BY <1>19, <1>t DEF ShutdownDone
  <2> QED BY <1>19, <2>2, <2>3 DEF ShutdownDone, EndInv
<1>20. ASSUME NEW c \in Conns, callbackConnected(c) PROVE EndInv'
  BY <1>20, <1>t DEF callbackConnected, EndInv
<1>21. ASSUME NEW c \in Conns, callbackFlush(c) PROVE EndInv'
  <2>1. main # "done"
    BY <1>21 DEF callbackFlush, Inv, QuitInv
  <2>2. \A e \in inflight' : conn[e[1]] \in {"up", "closing"}
    BY <1>21, ExecuteSendInflight DEF callbackFlush, EndInv
  <2> QED BY <1>21, <2>1, <2>2 DEF callbackFlush, EndInv
<1>22. ASSUME NEW c \in Conns, callbackClose(c) PROVE EndInv'
  <2>1. conn[c] = "down" /\ mConnection = c
    BY <1>22 DEF callbackClose, Inv, CallbackInv, HandleInv, SingleConnection, Open
  <2>2. \A e \in inflight : e[1] # c
    BY <2>1 DEF EndInv
  <2>3. \A e \in inflight : conn'[e[1]] \in {"up", "closing"}
    BY <1>22, <1>t, <2>1, <2>2 DEF callbackClose, EndInv
  <2>4. \A d \in Conns : cb[d] = "flush" => cb'[d] = "flush"
    BY <1>22, <1>t DEF callbackClose
  <2> QED BY <1>22, <2>3, <2>4 DEF callbackClose, EndInv
<1>23. ASSUME NEW c \in Conns, callbackNull(c) PROVE EndInv'
  BY <1>23, <1>t DEF callbackNull, EndInv
<1>24. ASSUME NEW c \in Conns, callbackReset(c) PROVE EndInv'
  BY <1>24, <1>t DEF callbackReset, EndInv
<1>25. ASSUME NEW c \in Conns, callbackTicket(c) PROVE EndInv'
  BY <1>25, <1>t DEF callbackTicket, EndInv
<1>26. ASSUME NEW c \in Conns, callbackTicketLength(c) PROVE EndInv'
  BY <1>26, <1>t DEF callbackTicketLength, EndInv
<1>27. ASSUME NEW c \in Conns, NEW p \in Packets, callbackSendFinal(c, p)
      PROVE  EndInv'
  BY <1>27 DEF callbackSendFinal, EndInv
<1> QED
  BY <1>1, <1>2, <1>3, <1>4, <1>5, <1>6, <1>7, <1>8, <1>9, <1>10, <1>11,
     <1>12, <1>13, <1>14, <1>15, <1>16, <1>17, <1>18, <1>19, <1>20, <1>21,
     <1>22, <1>23, <1>24, <1>25, <1>26, <1>27, <1>28
  DEF Step, MainStep, GtpStep, LoopStep, CallbackStep, MsQuicStep

(* The inductive invariant with the packets and their contexts in it. *)
ContextInv == Inv /\ OrderInv /\ OwnerInv /\ PoolIntegrity /\ EndInv

LEMMA ContextInvHolds == Spec => []ContextInv
<1>1. Init => ContextInv
  <2>1. Init => EndInv
    BY DEF Init, EndInv
  <2> QED BY <2>1, InitInv, InitOrder DEF ContextInv
<1>2. ContextInv /\ [Next]_vars => ContextInv'
  <2> SUFFICES ASSUME ContextInv, [Next]_vars PROVE ContextInv'
    OBVIOUS
  <2>1. CASE ~crashed /\ Step
    <3>1. TypeInv'
      BY <2>1, TypeNext DEF Inv, ContextInv
    <3>2. (MutexInv /\ CallbackInv /\ HandleInv /\ QuitInv /\ NoStrandedPending)'
      BY <2>1, CoreNext DEF ContextInv
    <3>3. OrderInv'
      BY <2>1, OrderNext DEF ContextInv
    <3>4. OwnerInv' /\ PoolIntegrity'
      BY <2>1, OwnerNext DEF ContextInv
    <3>5. EndInv'
      BY <2>1, EndNext DEF ContextInv
    <3> QED BY <3>1, <3>2, <3>3, <3>4, <3>5 DEF ContextInv, Inv
  <2>2. CASE UNCHANGED vars
    <3> USE <2>2 DEF vars, mainVars, gtpVars, loopVars, taskVars, quicVars,
                     poolVars, ubVars
    <3>1. Inv'
      BY DEF ContextInv, Inv, TypeInv, TypeOK, MutexInv, CallbackInv, HandleInv,
         QuitInv, NoStrandedPending, SingleConnection, Open
    <3>2. OrderInv'
      BY OrderFrame DEF ContextInv, OrderInv
    <3>3. OwnerInv' /\ PoolIntegrity' /\ EndInv'
      BY DEF ContextInv, OwnerInv, Held, Live, Pending, RangeOf, PoolIntegrity,
         EndInv
    <3> QED BY <3>1, <3>2, <3>3 DEF ContextInv
  <2> QED BY <2>1, <2>2 DEF Next, Ended
<1> QED BY <1>1, <1>2, PTL DEF Spec

(* SendContextPool hands a block out to one context at a time, for any      *)
(* number of blocks, whether contexts come from the pool or the heap.       *)
THEOREM PoolIntegrityHolds == Spec => []PoolIntegrity
<1>1. ContextInv => PoolIntegrity
  BY DEF ContextInv
<1> QED BY <1>1, ContextInvHolds, PTL

(* The packets reach MsQuic in the order in which the GTP task pushed them, *)
(* however sends, flushes and reconnections interleave.                     *)
THEOREM SendOrderHolds == Spec => []SendOrder
<1>1. ContextInv => SendOrder
  <2> SUFFICES ASSUME ContextInv, NEW c \in Conns, NEW p \in Packets,
                      <<c, p>> \in inflight,
                      NEW q \in Pending \cup Queued \cup ({cur} \ {0})
               PROVE  p < q
    BY DEF SendOrder, Pending, Queued
  <2>1. <<c, p>>[2] = p
    OBVIOUS
  <2> QED BY <2>1 DEF ContextInv, OrderInv
<1> QED BY <1>1, ContextInvHolds, PTL

(* Every live SendContext has exactly one owner and every dead one none, so *)
(* none is deleted twice, used after its delete or leaked, for any number   *)
(* of connections, packets and reconnections.                               *)
THEOREM ContextOwnershipHolds == Spec => []ContextOwnership
<1>1. ContextInv => ContextOwnership
  <2> SUFFICES ASSUME ContextInv, ~crashed, NEW p \in Packets
               PROVE  Cardinality(Owners(p)) = IF Live(p) THEN 1 ELSE 0
    BY DEF ContextOwnership
  <2> DEFINE A == {<<"pending", i>> : i \in {j \in DOMAIN pending : pending[j] = p}}
             B == {<<"msquic", c>> : c \in {d \in Conns : <<d, p>> \in inflight}}
             C == IF cur = p THEN {<<"send", 0>>} ELSE {}
  <2>1. Owners(p) = A \cup B \cup C
    BY DEF Owners
  <2>t. /\ p \in Nat /\ p # 0 /\ pending \in Seq(Packets)
        /\ DOMAIN pending \subseteq Nat
    BY DEF ContextInv, Inv, TypeInv, TypeOK, Packets
  <2>2. p \notin Pending => A = {}
    BY DEF Pending, RangeOf
  <2>3. (\A c \in Conns : <<c, p>> \notin inflight) => B = {}
    OBVIOUS
  <2>4. p # cur => C = {}
    OBVIOUS
  <2>5. p \in Pending => p # cur /\ \A c \in Conns : <<c, p>> \notin inflight
    <3> SUFFICES ASSUME p \in Pending
                 PROVE  p # cur /\ \A c \in Conns : <<c, p>> \notin inflight
      OBVIOUS
    <3>1. cur # 0 => p < cur
      BY DEF ContextInv, OrderInv
    <3>2. \A c \in Conns : <<c, p>> \in inflight => <<c, p>>[2] < p
      BY DEF ContextInv, OrderInv
    <3> QED BY <2>t, <3>1, <3>2
  <2>6. p = cur => \A c \in Conns : <<c, p>> \notin inflight
    <3>1. \A c \in Conns : <<c, p>> \in inflight => (cur # 0 => <<c, p>>[2] < cur)
      BY DEF ContextInv, OrderInv
    <3> QED BY <2>t, <3>1
  <2>7. Live(p) <=> Held(p)
    BY DEF ContextInv, OwnerInv
  <2>8. CASE p \in Pending
    <3>1. PICK i \in DOMAIN pending : pending[i] = p
      BY <2>8 DEF Pending, RangeOf
    <3>2. \A j \in DOMAIN pending : pending[j] = p => j = i
      <4> SUFFICES ASSUME NEW j \in DOMAIN pending, pending[j] = p PROVE j = i
        OBVIOUS
      <4>1. ~(i < j) /\ ~(j < i)
        BY <2>t, <3>1 DEF ContextInv, OrderInv, Ascending
      <4> QED BY <2>t, <4>1
    <3>3. A = {<<"pending", i>>}
      BY <3>1, <3>2
    <3>4. B = {} /\ C = {}
      BY <2>3, <2>4, <2>5, <2>8
    <3> HIDE DEF A, B, C
    <3>5. Owners(p) = {<<"pending", i>>}
      BY <2>1, <3>3, <3>4
    <3>6. Cardinality({<<"pending", i>>}) = 1
      BY FS_Singleton
    <3> QED BY <2>7, <2>8, <3>5, <3>6 DEF Held
  <2>9. CASE p = cur
    <3>1. A = {} /\ B = {} /\ C = {<<"send", 0>>}
      BY <2>2, <2>3, <2>5, <2>6, <2>9
    <3> HIDE DEF A, B, C
    <3>2. Owners(p) = {<<"send", 0>>}
      BY <2>1, <3>1
    <3>3. Cardinality({<<"send", 0>>}) = 1
      BY FS_Singleton
    <3> QED BY <2>7, <2>9, <3>2, <3>3 DEF Held
  <2>10. ASSUME NEW c \in Conns, <<c, p>> \in inflight
         PROVE  Cardinality(Owners(p)) = IF Live(p) THEN 1 ELSE 0
    <3>1. B = {<<"msquic", c>>}
      BY <2>10 DEF ContextInv, OwnerInv
    <3>2. A = {} /\ C = {}
      BY <2>2, <2>4, <2>5, <2>6, <2>10
    <3> HIDE DEF A, B, C
    <3>3. Owners(p) = {<<"msquic", c>>}
      BY <2>1, <3>1, <3>2
    <3>4. Cardinality({<<"msquic", c>>}) = 1
      BY FS_Singleton
    <3> QED BY <2>7, <2>10, <3>3, <3>4 DEF Held
  <2>11. CASE ~Held(p)
    <3>1. A = {} /\ B = {} /\ C = {}
      BY <2>2, <2>3, <2>4, <2>11 DEF Held
    <3> HIDE DEF A, B, C
    <3>2. Owners(p) = {}
      BY <2>1, <3>1
    <3>3. Cardinality({}) = 0
      BY FS_EmptySet
    <3> QED BY <2>7, <2>11, <3>2, <3>3
  <2> QED BY <2>8, <2>9, <2>10, <2>11 DEF Held
<1> QED BY <1>1, ContextInvHolds, PTL

(* Every step keeps it: a connect() that fails leaves its mark. *)
LEMMA ConnectNext ==
  ASSUME Inv, EndInv, ConnectInv, ~crashed, Step PROVE ConnectInv'
<1> USE ConstAssumption
<1> USE DEF connectFailed, mainVars, gtpVars, loopVars, taskVars, quicVars, poolVars, ubVars
<1> DEFINE Busy(c) == \/ conn[c] \in {"handshake", "up", "closing", "down"}
                      \/ cb[c] \in {"null", "reset"}
<1>t. /\ conn \in [Conns -> ConnStates] /\ cb \in [Conns -> CbPcs]
      /\ mConnection \in Conns \cup {NoConn}
  BY DEF Inv, TypeInv, TypeOK
<1>1. CASE onStart
  BY <1>1 DEF onStart, ConnectInv
<1>2. CASE quit
  BY <1>2 DEF quit, ConnectInv
<1>3. CASE quitJoined
  BY <1>3 DEF quitJoined, ConnectInv
<1>28. CASE onQuitTest
  BY <1>28 DEF onQuitTest, ConnectInv
<1>4. CASE onQuitRead
  BY <1>4 DEF onQuitRead, ConnectInv
<1>5. CASE onQuitShutdown
  <2>1. fault \subseteq fault'
    BY <1>5 DEF onQuitShutdown
  <2>2. \A c \in Conns : Busy(c) => Busy(c)'
    BY <1>5, <1>t DEF onQuitShutdown
  <2> QED BY <1>5, <2>1, <2>2 DEF onQuitShutdown, ConnectInv
<1>6. CASE onQuitRegistration
  BY <1>6 DEF onQuitRegistration, ConnectInv
<1>7. CASE onQuitClose
  BY <1>7 DEF onQuitClose, ConnectInv
<1>8. CASE pushTest
  BY <1>8 DEF pushTest, ConnectInv
<1>9. CASE pushEnqueue
  BY <1>9 DEF pushEnqueue, ConnectInv
<1>10. CASE loopTest
  BY <1>10 DEF loopTest, ConnectInv
<1>11. CASE onLoop
  BY <1>11 DEF onLoop, ConnectInv
<1>12. CASE send
  BY <1>12 DEF send, ConnectInv
<1>13. CASE connectOpen
  <2>1. loop' \in {"open", "start"} \/ connectFailed'
    BY <1>13 DEF connectOpen
  <2> QED BY <2>1 DEF ConnectInv
<1>14. CASE connectStart
  <2>1. CASE fault' = fault \cup {"connect"}
    BY <2>1 DEF ConnectInv
  <2>2. CASE conn' = [conn EXCEPT ![mConnection] = "handshake"]
    <3>1. mConnection \in Conns
      BY <1>14, <1>t DEF connectStart, Inv, HandleInv
    <3>2. conn'[mConnection] = "handshake"
      BY <1>t, <2>2, <3>1
    <3> QED BY <3>1, <3>2 DEF ConnectInv
  <2> QED BY <1>14, <2>1, <2>2 DEF connectStart
<1>15. CASE sendRead
  BY <1>15 DEF sendRead, ConnectInv
<1>16. CASE sendCall
  <2>1. fault \subseteq fault'
    BY <1>16 DEF sendCall, executeSend
  <2> QED BY <1>16, <2>1 DEF sendCall, ConnectInv
<1>17. ASSUME NEW c \in Conns, HandshakeDone(c) PROVE ConnectInv'
  <2>1. \A d \in Conns : Busy(d) => Busy(d)'
    BY <1>17, <1>t DEF HandshakeDone
  <2> QED BY <1>17, <2>1 DEF HandshakeDone, ConnectInv
<1>18. ASSUME NEW c \in Conns, ConnectionLost(c) PROVE ConnectInv'
  <2>1. \A d \in Conns : Busy(d) => Busy(d)'
    BY <1>18, <1>t DEF ConnectionLost
  <2> QED BY <1>18, <2>1 DEF ConnectionLost, ConnectInv
<1>19. ASSUME NEW c \in Conns, ShutdownDone(c) PROVE ConnectInv'
  <2>1. \A d \in Conns : Busy(d) => Busy(d)'
    BY <1>19, <1>t DEF ShutdownDone
  <2> QED BY <1>19, <2>1 DEF ShutdownDone, ConnectInv
<1>20. ASSUME NEW c \in Conns, callbackConnected(c) PROVE ConnectInv'
  BY <1>20 DEF callbackConnected, ConnectInv
<1>21. ASSUME NEW c \in Conns, callbackFlush(c) PROVE ConnectInv'
  <2>1. quicState = "CONNECTED"
    BY <1>21 DEF callbackFlush, Inv, MutexInv
  <2> QED BY <1>21, <2>1 DEF callbackFlush, ConnectInv
<1>22. ASSUME NEW c \in Conns, callbackClose(c) PROVE ConnectInv'
  <2>1. Busy(c)'
    BY <1>22, <1>t DEF callbackClose
  <2> QED BY <1>22, <2>1 DEF callbackClose, ConnectInv
<1>23. ASSUME NEW c \in Conns, callbackNull(c) PROVE ConnectInv'
  <2>1. Busy(c)'
    BY <1>23, <1>t DEF callbackNull
  <2> QED BY <1>23, <2>1 DEF callbackNull, ConnectInv
<1>24. ASSUME NEW c \in Conns, callbackReset(c) PROVE ConnectInv'
  BY <1>24 DEF callbackReset, ConnectInv
<1>25. ASSUME NEW c \in Conns, callbackTicket(c) PROVE ConnectInv'
  <2>1. \A d \in Conns : Busy(d) => Busy(d)'
    BY <1>25, <1>t DEF callbackTicket
  <2> QED BY <1>25, <2>1 DEF callbackTicket, ConnectInv
<1>26. ASSUME NEW c \in Conns, callbackTicketLength(c) PROVE ConnectInv'
  <2>1. \A d \in Conns : Busy(d) => Busy(d)'
    BY <1>26, <1>t DEF callbackTicketLength
  <2> QED BY <1>26, <2>1 DEF callbackTicketLength, ConnectInv
<1>27. ASSUME NEW c \in Conns, NEW p \in Packets, callbackSendFinal(c, p)
      PROVE  ConnectInv'
  BY <1>27 DEF callbackSendFinal, ConnectInv
<1> QED
  BY <1>1, <1>2, <1>3, <1>4, <1>5, <1>6, <1>7, <1>8, <1>9, <1>10, <1>11,
     <1>12, <1>13, <1>14, <1>15, <1>16, <1>17, <1>18, <1>19, <1>20, <1>21,
     <1>22, <1>23, <1>24, <1>25, <1>26, <1>27, <1>28
  DEF Step, MainStep, GtpStep, LoopStep, CallbackStep, MsQuicStep

LEMMA ConnectInvHolds == Spec => []ConnectInv
<1>1. Init => ConnectInv
  BY DEF Init, ConnectInv
<1>2. ContextInv /\ ConnectInv /\ [Next]_vars => ConnectInv'
  <2> SUFFICES ASSUME ContextInv, ConnectInv, [Next]_vars PROVE ConnectInv'
    OBVIOUS
  <2>1. CASE ~crashed /\ Step
    BY <2>1, ConnectNext DEF ContextInv
  <2>2. CASE UNCHANGED vars
    BY <2>2 DEF vars, mainVars, gtpVars, loopVars, taskVars, quicVars, poolVars,
       ubVars, ConnectInv, connectFailed
  <2> QED BY <2>1, <2>2 DEF Next, Ended
<1> QED BY <1>1, <1>2, ContextInvHolds, PTL DEF Spec

(* Until connect() fails, the task is CONNECTING only while MsQuic owes it  *)
(* CONNECTED or SHUTDOWN_COMPLETE, whatever else fails or interleaves.      *)
THEOREM ConnectingHasConnectionHolds == Spec => []ConnectingHasConnection
<1>1. Inv /\ ConnectInv => ConnectingHasConnection
  BY DEF Inv, MutexInv, ConnectInv, ConnectingHasConnection
<1> QED BY <1>1, InvHolds, ConnectInvHolds, PTL

(* A SendContext outlives the task only if connect() has failed and left it *)
(* in m_pendingContexts: MsQuic has returned what it held, the thread has   *)
(* nothing in hand.                                                         *)
THEOREM QuitFreesContextsHolds == Spec => []QuitFreesContexts
<1>1. ContextInv /\ ConnectInv => QuitFreesContexts
  <2> SUFFICES ASSUME ContextInv, ConnectInv, main = "done", NEW p \in Packets,
                      Live(p)
               PROVE  connectFailed /\ p \in Pending
    BY DEF QuitFreesContexts, Pending
  <2>1. /\ ~crashed /\ loop = "exit"
        /\ \A c \in Conns : ~Open(c) /\ cb[c] = "idle"
    BY DEF ContextInv, EndInv, Inv, QuitInv
  <2>2. p # cur
    BY <2>1, ConstAssumption DEF ContextInv, OrderInv, Packets
  <2>3. \A c \in Conns : <<c, p>> \notin inflight
    <3>1. \A c \in Conns : <<c, p>> \in inflight => conn[<<c, p>>[1]] \in {"up", "closing"}
      BY DEF ContextInv, EndInv
    <3> QED BY <2>1, <3>1 DEF Open
  <2>4. p \in Pending
    BY <2>1, <2>2, <2>3 DEF ContextInv, OwnerInv, Held
  <2>5. mutex # "cb" /\ (quicState = "CONNECTING" => connectFailed)
    BY <2>1 DEF ContextInv, EndInv, ConnectInv, Open
  <2>6. quicState # "CONNECTING" => Pending = {}
    BY <2>5, AscendingEmpty DEF ContextInv, Inv, NoStrandedPending, Pending
  <2> QED BY <2>4, <2>5, <2>6
<1> QED BY <1>1, ContextInvHolds, ConnectInvHolds, PTL
=============================================================================
