# The QUIC N3 tunnel of quicup, in TLA+

The repository replaces GTP-U between a 5G gNB and its UPF by QUIC datagrams.
It is built from two forks, UERANSIM (the gNB) and Open5GS (the UPF); what is
its own is the tunnel: `QuicTask` in the gNB, `quic-server.c` in the UPF, and
the branches in the code around them that choose between `QUIC` and `GTPU`.
This directory specifies that part, checks it with TLC and proves its invariants
and its refinement with TLAPS.

## The system

    UE -- RLS -- GTP task --push--> QUIC task ==QUIC datagrams==> UPF QUIC server --> TUN
                  ^   ^                |                               |
     NGAP task ---+   +-- datagrams ---+       PFCP sessions <---------+ (route)
        ^
        | SCTP
       AMF

| Component | State | Operations | Hard because |
|---|---|---|---|
| gNB QUIC task (`gnb/quic`) | `m_quicState`, `m_connection`, `m_pendingContexts`, resumption ticket, block pool | start, send, connect, six kinds of MsQuic callbacks, quit | four kinds of threads; one mutex that covers the state but not the handle; connections that fail and come back |
| NTS tasks (`utils/nts`) | message queue, `isQuiting` | push, poll, take, start, quit | messages pushed while the task quits |
| gNB GTP task (`gnb/gtp`) | UE contexts, sessions, session tree, rate limits | four NGAP messages, uplink and downlink data | follows another task's decisions through a queue |
| gNB NGAP procedures (`gnb/ngap`) | UE contexts, their sessions, TEID counter | context setup, modification, release; session setup, release; radio-link failure | answers the AMF before the GTP task has acted |
| UPF QUIC server (`upf/quic-server.c`) | list, hash table and pool of clients; pool of send contexts | listener and connection callbacks, downlink send, stop | MsQuic workers, main thread and terminating thread; two mutexes that miss the pool; a gNB that reconnects early |
| UPF N3 routing (`upf/gtp-path.c`) | none of its own; reads and buffers in PFCP sessions | route uplink, route downlink | two transports; uplink runs on MsQuic's thread, next to the main thread's PFCP changes |
| UPF sessions and PFCP (`upf/n4-handler.c`, `upf/context.c`, `lib/pfcp`) | sessions, PDRs and their pool, FARs with buffered packets, tables by TEID and by UE address | session establishment, modification, deletion, restoration | requests that fail half-way, TEIDs shared by PDRs, sessions the SMF has forgotten |
| GTP-U codec (`gnb/gtp/proto`) | none | encode, decode | lengths and extension headers |

What makes them correct:

- *QUIC task:* a packet's buffer has one owner until it is freed once; packets
  keep their order; no packet waits where nothing will come for it; no
  connection is lost; quitting ends and leaves nothing behind.
- *UPF server:* what the table says of an address is true; nodes and send
  contexts are neither lost nor given out twice; a packet goes to the gNB it is
  meant for; stopping ends with everything given back.
- *GTP and NGAP tasks:* packets stay in their session; live sessions are found;
  limits follow the tables; both tasks come to agree on the sessions.
- *N3 routing and PFCP:* every table entry leads to a rule that exists and every
  rule is found; no PDR is lost; a packet leaves only for its own session's
  tunnel; an idle UE's packets are buffered in order and reported once.
- *The tunnel as a whole:* whatever happens to its connections, a packet arrives
  at most once and only where it was sent to.
- *Codec (not modelled):* decoding inverts encoding.

## Modules

| Module | Content |
|---|---|
| `GnbQuic` | the gNB's QUIC task, `NtsTask` as it uses it, MsQuic's client side |
| `GnbQuicProofs` | theorems about it |
| `UpfQuic` | the UPF's QUIC server with its pools and table, MsQuic's server side |
| `UpfQuicProofs` | theorems about it |
| `GnbGtp` | NGAP session and context procedures, the queue, the GTP task |
| `GnbGtpProofs` | theorems about it |
| `UpfN3` | the UPF's PFCP sessions and rules, and the path of packets through them |
| `UpfN3Proofs` | theorems about its rule lists, PDR pool and TEID table |
| `UpfN3PathProofs` | theorems about its address table, FARs, buffers and packets, on top of those |
| `SequenceFacts` | lemmas about the sequence operators of the library that the models use |
| `N3Channel` | abstract specification: what the N3 interface promises its users |
| `N3Tunnel` | gNBs and UPFs with the connections between them; implements `N3Channel` |
| `N3TunnelProofs` | theorems about it, the refinement included |
| `MCGnbQuic`, `MCUpfQuic`, `MCGnbGtp`, `MCUpfN3`, `MCN3Tunnel` | the same for TLC: symmetry, and the gNBs' addresses |

Definitions carry the source's names. A handler that is one critical section,
or that touches only its own task's data, is one action. A handler that leaves
its mutex, or that reads something it does not protect, is several, named after
the handler: `callbackClose`, `callbackNull` and `callbackReset` are the three
parts of `SHUTDOWN_COMPLETE` in `QuicTask::connectionCallback`. Definitions whose
comment begins with "A mutant" are faulty variants of the definition that
follows; they are part of no specification, and show that the property named for
them in `PROJECT.json` notices the fault.

### GnbQuic

The variables are the members of `QuicTask` (`quicState`, `pending`,
`mConnection`, `ticket`), the places where its threads are (`main`, `gtp`,
`loop`, `cb`), what MsQuic knows of each connection (`conn`, `inflight`) and where
the live `SendContext` of a packet was allocated (`block`, `mPool`). A packet is
its number in push order. `mutex` is a variable because `send()` keeps
`m_stateMutex` across `connect()` and `DatagramSend`, and the flush across a loop.

`connectionCallback` reads and clears `m_connection` outside the mutex, so
`sendRead` (read the handle) and `sendCall` (use it) are separate steps. `onQuit`
reads it twice, once to test it (`onQuitTest`) and once for the call
(`onQuitRead`). A call on a closed handle is undefined behaviour: it fails, or the
process ends (`crashed`). Every open, start and send call may fail. `fault` is
history: it remembers calls on closed handles and a failed `connect()`
(`connectFailed`).

### UpfQuic

A `quic_client_node_t` is a node with `nodeConn` and `nodeIp`; the list is a set
(nothing depends on its order); the hash table is `hashVal` together with
`hashKey`, because `ogs_hash_set` keeps the key pointer of the entry it
overwrites. A handle is free again once its connection is closed, and the listener
may give it to another gNB; `MaxAccepts` bounds how many connections are offered.

`quic_client_pool` is a ring, and its unprotected allocation is two steps
(`callbackAlloc`, `callbackAdvance`). Another worker can come between them: it reads
the same head, or the slot that has just been cleared, of two moves of the head
one may be lost, and the lost update of the pool's `avail` counter makes a later
`ogs_pool_free` do nothing. Two callbacks that have been given one node can link it
twice: the list then has a cycle (`listLoop`), and a walk over it that does not find
what it looks for never ends. That, and the null node that nothing tests, is `crashed`.

Three history variables delimit what the code promises. `raced`: an allocation
overlapped another access to the pool. `overlapped`: the addresses that registered
again while an older node of theirs was linked. `dlStale`: the connection
`quic_server_send_downlink` has looked up has been closed since. The properties hold
for any number of workers and any order of connections, and say that nothing but
these events does harm.

### GnbGtp

The NGAP task and the GTP task share only the queue, so each handler is one step.
An NGAP list is a sequence of PDU session ids; items refused by
`setupPduSessionResource` change nothing and are left out of it. `updateLimit`
keeps the limit of a bucket and not its tokens: a packet may be let through
or not (`handleUplinkData`, `deliverDownlink`). Uplink and downlink AMBR, which the code
treats alike, are one number. A resource's uplink tunnel is named by its
downlink TEID, which is unique. `teidOwner`, `out` and `radioFailed` are history:
which session a TEID was handed out for, the last packet that passed, and the UEs
that are set up and whose radio link has failed since, until the AMF releases them.

The AMF is the environment: it sets up the context of a UE before it sets up,
releases or modifies anything in it, as NGAP prescribes.

### UpfN3

A PDR is its slot in `ogs_pfcp_pdr_pool`; since the pool of TEIDs hands out and
takes back in step with it, the slot also stands for the TEID the UPF chooses.
`pdr_list` is a session's list in precedence order, `far` its FARs by FAR ID, each
with its buffer; `ipv4_hash` and `object_teid_hash` are the two tables. The list of
sessions is a set (`sess_list`): only the SMF's restart walks it, one session at a
time (`restoration_remove`), and the order makes no difference.

The main thread handles one request or packet at a time, so most handlers are
one step. The creation of PDRs is not: with QUIC a MsQuic worker routes uplink
packets meanwhile and takes no lock. `pdr_add` links a zeroed PDR,
`handle_create_pdr` fills it and moves it to its place, and `session_accepted`
or `session_refused` does the rest of the request. The worker's
`upf_n3_route_uplink` is `uplink_find`, `uplink_pick` and `uplink_use`. A use of a PDR
that is gone or half made is undefined behaviour and ends the behaviour, with
`ub` saying how.

The SMF is the environment. It sends what `smf/context.c`, `npcf-handler.c` and
`n4-build.c` build for an IPv4 session with one dedicated flow: the six PDRs
of `SessionPdrs` and `FlowPdrs`, activation by the gNB's answer or a path switch,
deactivation when the UE goes idle, removal of the flow, deletion. Requests may
be refused for want of PDRs, a deletion may get lost, and the SMF may restart.

Abstractions: SDF filters and the QFI check are the class of a packet (`Matches`); a
packet written to the TUN device changes no state and is left out; gNBs do not send on
the TEID that was given to the SMF (`cp2up`).

Two branches of the creating requests are left out, because the SMF of this
repository does not lead to them. `upf_sess_add_by_message` would find an existing
session (`upf/context.c:423`) if the SMF reused an F-SEID that the UPF still has.
`ogs_pfcp_pdr_add` would run out of PDR ids (`lib/pfcp/context.c:1314`) at the 17th
PDR of a session; the SMF draws its PDRs from a pool of the same size
(`OGS_MAX_NUM_OF_PDR`, 16) and asserts that it got them (`smf/context.c:2101`), so
that it would end before it could ask for one more. A session of the model has six.
The pool that does run empty is `ogs_pfcp_pdr_pool`, which all sessions share.

In QUIC mode no FAR has a GTP node, so a router solicitation stays in its FAR's
buffer, as in the code. A zeroed FAR (`ZeroFar`) is as `ogs_pfcp_far_add` leaves it.
`reports`, `idle`, `lastSent`, `n3out` and `smfIp` are history or the environment's.

### N3Channel and N3Tunnel

`N3Channel` has four steps: a packet is submitted for an end, packets are lost, a
packet arrives at the end it was submitted for, and a packet is given up
(`GiveUp`): from then on it is `stray`, and may arrive anywhere, though still at most
once. It is what the GTP task and the UPF's routing may rely on.

`N3Tunnel` puts the two QUIC ends together, with several gNBs and several UPFs. It takes
over the connection logic of `GnbQuic` and `UpfQuic` and has what neither of them
has: the other end. A gNB may give up a connection that its UPF still lists and open
a new one; a UPF may stop, or crash, and start while its gNBs believe themselves
connected (`serverRestart`); datagrams of a dead connection are still under way;
`connect()` may fail. As in the code, the destination of a downlink packet is an
address, and of an uplink packet a UPF.

What is split follows from what each end protects. The UPF's CONNECTED is
`serverAlloc`, `serverNode` and `serverRegister`, on any number of workers: two that
allocate at the same time, or one and a `SHUTDOWN_COMPLETE`, put the UPF into `raced`,
after which its table may hold any of its connections, closed ones too, for any
address (`Found`), until the UPF starts again. The downlink send is a look-up
(`downlinkLookup`) and a send (`downlinkSend`), between which the connection may be
closed and its handle may become another connection's (`handleReused`). On the gNB's side a
callback is one step: `GnbQuic` has it in pieces and shows that packets neither reach
another connection nor change their order by that (`SingleConnection`,
`NoStrandedPending`, `SendOrder`).

The refinement mapping is `Transit`, the packets in gNB queues, in the UPFs' hands and
in datagrams; `dest`, `got` and `stray` are shared. A packet becomes stray in one of
three places, and `ImplementsChannel` says that there is no fourth: an uplink packet for
another UPF than the connection's (`MarkStray`), a downlink packet looked up in a table
that a race has spoilt, and one whose handle is reused after the look-up.

### External assumptions about MsQuic

MsQuic is not in the repository. From the way the code uses it: the callbacks of
one connection never overlap, nor do those of one worker, on which a
connection stays; a context accepted by `DatagramSend` gets exactly one final
state, before `SHUTDOWN_COMPLETE`; `SHUTDOWN_COMPLETE` is a connection's last event;
`RegistrationClose` waits until every connection has been closed, and
`MsQuicClose` until the workers have ended.

## Runs

| Run | Expect | Instance | Shows |
|---|---|---|---|
| `gnb_safety` | pass | 3 connections, 4 packets, 2 blocks, calls may fail | ownership of contexts, pool, order, single connection, ticket, quit; what a failed `connect()` leaves |
| `gnb_live` | pass | 3 connections, 3 packets, 1 block, calls may fail | packets leave the queue unless `connect()` fails; quit returns |
| `upf_registry` | pass | 2 handles for 3 connections, 2 gNBs, 2 workers, 2 nodes, 1 send context | table, key pointers, both pools, downlink, stop |
| `upf_live` | pass | 2 handles for 3 connections, 1 gNB, 2 workers, 1 node | null nodes only at capacity; a quiet stop ends |
| `upf_race` | violation | 2 gNBs on 2 workers | both get the same node |
| `gtp_tables` | pass | 1 UE, 2 sessions, 3 TEIDs, radio-link failures, QUIC | packets stay in their session, the tree, uplink limits |
| `gtp_agree` | pass | 1 UE, 2 sessions, 3 TEIDs, radio-link failures, GTP-U | both tasks agree; setups arrive |
| `gtp_delete` | violation | 1 UE, 1 session | a deleted UE keeps its sessions |
| `n3_rules` | pass | 2 sessions, 2 UE addresses, 2 gNBs, 9 PDRs, buffers of 2, 2 packets, 3 creating requests, both transports | rule tables, PDR pool, addresses, where packets go, buffering, paging with GTP-U |
| `n3_dl` | violation | QUIC, 1 session, 2 packets | an idle UE is not paged |
| `n3_race` | violation | QUIC, 1 session, 2 creating requests | the worker uses a PDR the main thread has removed |
| `n3_tunnel` | pass | 2 gNBs, 2 UPFs, 3 connections, 3 packets | the tunnel implements `N3Channel` |

Bounds. Three connections let one be lost, a second one open and fail, and a
third one succeed; every handle is used once, so they also bound reconnections,
and `GnbQuic` never loses the last one, so that liveness is not an artefact of
running out of handles. Four packets against two blocks exercise both the pool
and the heap, and put packets into the message queue, the pending queue, `send()` and
MsQuic at once. On the UPF's side two handles for three connections let a handle be
reused, and at any time let two gNBs be connected or one twice; two workers give every
overlap of two callbacks; one send context reaches that pool's limit. Two nodes for
two open connections never run out, so that a null node in `upf_registry` comes from a
race; `upf_live` has one node, and reaches the limit of that pool. In `GnbGtp`, three TEIDs suffice for a session
that is set up, released or replaced, and set up again next to another one; two
queued messages (three in `gtp_agree`) for the GTP task to be behind by more
than one decision. UEs do not interact except through the TEID counter, and the
theorems cover any number of them. In `UpfN3`, nine PDRs
are fewer than the twelve of two full sessions, so requests are refused at each
of their steps; three creating requests build a session with its flow and a second
session, or replace a lost one; two packets against two buffers reach the
limit and, with the two downlink FARs, an order that could go wrong. In
`N3Tunnel`, three connections allow one gNB to replace a connection the UPF still
lists, or two gNBs to race for a node, or a handle to be reused, while the other gNB
or the other UPF has its own; the theorems lift the bounds.

Deadlock is checked in the runs of `GnbQuic`, `UpfQuic` and `GnbGtp`. The first two
have a stuttering action `Ended` for a process that has stopped or crashed, and for
`RegistrationClose`, which may wait as long as a peer likes; whether it does is
what the liveness properties ask. The `n3_*` configurations switch it off: packets,
connections and creating requests are used once, so a behaviour ends when they run out,
and `UpfN3` ends when `ub` says that the process did.

Fairness. Threads that can run are run (weak fairness on each thread's steps).
MsQuic ends handshakes, by success or its own timeout, completes shutdowns and
reports final send states. In `UpfQuic` these are strongly fair, because a worker that
is busy with other connections disables them again and again, and MsQuic's
queues do not starve one connection. Nothing is assumed about packets being sent,
connections being lost, tickets, the operator, the AMF or the radio link.

## What the violations show

1. `upf_race`: `ogs_pool_alloc` without the mutex (`quic-server.c:321`); two gNBs get
   one node.
2. `gtp_delete`: `PduSessionTree::insert` does not fill `mapByUeId`
   (`gtp/utils.cpp:22`), so deleting a UE's context removes none of its sessions.
3. `n3_dl`: with QUIC, a downlink packet is sent to the FAR's last address, or
   dropped, before the FAR's apply action is looked at (`gtp-path.c:351`): packets for
   an idle UE are not buffered, and the SMF is never asked to page it.
   `GtpuPagesOnce` shows that the GTP-U path does both.
4. `n3_race`: `upf_n3_route_uplink` runs on MsQuic's worker without a lock
   (`quic-server.c:294`); the PDR it has picked may be removed by a PFCP request before
   it is used, or be reused for a new one whose `far` is still null, which fails
   `ogs_assert(far)`.

## What the code does not promise

Some things go wrong in the code that no document, comment or test of the repository
rules out. They are not excluded from the models: history variables single them out,
the properties hold in every behaviour, and say that nothing else does the same harm.

| Event | History | Consequence | Properties that delimit it |
|---|---|---|---|
| `connect()` fails | `connectFailed` | it returns and leaves `CONNECTING` (`quic/task.cpp:156`, `170`); no event will come, every later packet is queued, and quit strands the queue | `ConnectingHasConnection`, `PendingResolved`, `QuitFreesContexts` |
| accesses to `quic_client_pool` overlap | `raced` | `upf_race`: a shared node, a null node, a spoilt list and table (`quic-server.c:321`) | `RegistryConsistent`, `HashKeyAlive`, `NodeOwnership`, `NullNodeOnlyAtCapacity`, `StopReleasesAll`, `ImplementsChannel` |
| a gNB registers again before its older connection is cleaned up | `overlapped` | the clean-up deletes the table's entry by address (`quic-server.c:363`); the gNB is unknown until it registers again | `UnknownOnlyAfterOverlap` |
| a connection is closed between look-up and `DatagramSend` | `dlStale`, `stray` | the call meets freed memory, or the connection of another gNB (`quic-server.c:251`) | `MisroutedOnlyAfterClose`, `ImplementsChannel` |
| a gNB has packets for a second UPF | `stray` | only the packet that opens the connection chooses where it goes (`quic/task.cpp:229`); the others follow it | `ImplementsChannel` |
| a UE's radio link fails | `radioFailed` | the GTP task drops a session that the NGAP task reports as set up (`ngap/radio.cpp:25`, `gtp/task.cpp:125`) | `SessionsAgree`, `SetupReachesTable` |

Two more are stated by what the properties ask. The UPF tells gNBs apart by address
(`quic-server.c:207`), so a downlink packet's destination is an address; which of two gNBs
behind it gets the packet is not asked. And the stop of the UPF's server is claimed for a
quiet stop only (`QuietStopCompletes`): a connection that is in its handshake while the
list is walked is not shut down (`quic-server.c:164`) and keeps `RegistrationClose` waiting
for as long as its peer likes.

Faults that the model contains and no run is about: `handleSessionRelease` clears
the UE's downlink limit where the session's is meant (`gtp/task.cpp:152`), so
`UplinkLimits` has no downlink counterpart; the initial context setup passes on
the AMBR the context had before the message (`ngap/context.cpp:68`); a context
modification does not divide by 8 (`ngap/context.cpp:266`). The TEID of a replaced session stays in the tree;
packets that still use it reach the replaced session's successor, which is the
same UE and session (`PacketsStayInSession`).

## Proofs

All theorems hold for any values of the constants that satisfy the modules'
`ConstAssumption` (distinct null values, finitely many nodes, natural bounds).
`TypeOK` alone is not inductive in any module: what a thread may do at a point
depends on what the others have left behind.

**GnbQuicProofs.** `TypeInv` adds to `TypeOK` what makes each step's data defined
(a held packet, a non-empty queue, a handle to shut down). `MutexInv` ties
the mutex to the program points of the task's thread and of a flushing
callback. `CallbackInv` says which states of a connection a callback at each
point goes with. `HandleInv` is the core: an open connection is the one in
`m_connection`, a new one is opened only when there is none, and a handle that
`send()` has read is that connection or one whose `SHUTDOWN_COMPLETE` has not
reached the mutex yet. `QuitInv` says what quit has waited for. From their
conjunction: `SingleConnection`, `NoStrandedPending`, `ClosedSendOnlyInWindow`,
`TicketStable`, `QuitQuiet`. So the unlocked accesses are, but for the one
window that `ClosedSendOnlyInWindow` delimits, harmless, because DISCONNECTED
is published under the mutex only after the old handle is gone.

The packets need a second layer, `ContextInv`. `OrderInv` lines up the places a packet
passes: MsQuic, the pending queue, `send()`, the message queue, each strictly younger
than the one before, the queues ascending; that gives `SendOrder`, and it
makes the places disjoint. `OwnerInv` says that a context is live exactly while
one of them holds it, and that MsQuic holds it for one connection, so the count in
`ContextOwnership` is one. It needs the order: a flush that takes the head
of a queue must not leave it in there a second time. `PoolIntegrity` is inductive with it.
`EndInv` says what MsQuic and the thread may still hold towards the end; with
`ConnectInv`, that until a `connect()` fails `CONNECTING` stands for a connection whose
event is still to come, it gives `QuitFreesContexts` and `ConnectingHasConnection`. Neither
assumes that calls succeed: a failed send, or a failed `onStart`, does no harm to them.

**UpfQuicProofs.** All theorems hold for any number of workers. `TypeInv` and
`CallbackInv`, which callbacks go with which state of a connection and that only CONNECTED
holds a node, hold always. `Registry` holds until an allocation overlaps another
access to the pool, and the invariant is `TypeInv /\ CallbackInv /\ (~raced => Registry)`.
Its parts: `NodeInv`, that the ring has no duplicates and is disjoint from the list and
from the nodes in callbacks' hands, which are distinct, and that one callback
at most is inside the allocation; `ListInv`, that linked nodes carry the handle and the
address of distinct live connections; `HashInv`, that an entry and its key belong to linked
nodes of that address; `DownlinkInv`, that the connection the main thread has looked up is
the destination's until it is closed; `HeldInv`, that no node is lost; `UniqueInv`, that
the table holds the linked node of every address that has not overlapped. Proving that
each of them survives needs that only the *overlap of two accesses* breaks the pool:
callbacks interleave freely, and two may fill their nodes at the same time. From the
invariant: `RegistryConsistent`, `HashKeyAlive`, `NodeOwnership`,
`MisroutedOnlyAfterClose`, `UnknownOnlyAfterOverlap`, and the action property
`NullNodeOnlyAtCapacity`. `NodeMatchesUnlessRaced` is the counterpart of `upf_race`: that race
is the only way to break `NodeMatchesConnection`. The key pointer survives because deleting
by address removes the entry as soon as *any* node of that address goes: the same line
that hides a gNB which has registered again.

`CtxInv` (free, held and in-flight send contexts are disjoint and are all there are) and
`StopInv` (how far the stop has come and what can still be there at each point) do not
depend on the nodes and hold with races too. They give `SendCtxOwnership` and, with
`HeldInv`, `StopReleasesAll`.

**GnbGtpProofs.** `CounterInv`: TEIDs above the counter were never handed out.
`QueueInv`: a queued setup carries a TEID that was handed out for its session.
`OwnerInv`: the tables and `out` agree with
`teidOwner`. `EmptyInv`, that `mapByUeId` is always empty, is what the
rate-limit theorem needs, since deleting a context then changes no session. From
them: `PacketsStayInSession`, `TreeFindsSessions`, `UplinkLimits`.

`SessionsAgree` speaks of an empty queue, so its invariant, `AgreeInv`, must look ahead
through a full one. `Present(q, ctx, u, n)` says that the GTP task will have a context for u
after n more messages; it holds at the end of the queue for every UE the AMF
has set up. Every session of the NGAP task is `Stored` with its last
TEID and no message about it is under way, or `Waiting`: some message brings that
TEID, will find the context, and is the last about the session. Pushing and
taking messages each have one lemma for `Present` and one for the sessions. A
radio-link failure pushes a release of a UE that stays set up, which is exactly what
`Present` excludes; so `AgreeInv` speaks of the UEs that are not in `radioFailed`, and the
proof shows that a failed UE's messages leave the others' sessions alone.

**UpfN3Proofs and UpfN3PathProofs.** Three layers, for any number of sessions,
PDRs, addresses, packets and requests. `RuleInv` is about the rules: a slot is in the pool or in one
list, once (`OwnInv`); `main` says how far a request has come, which PDR is still zeroed
and which ones go if it is refused (`MainInv`); a session has each PDR once, with
the FAR and the TEID its kind calls for (`IdInv`, `TeidInv`), in order of precedence
(`SortedInv`), which decides whose removal deletes a shared TEID's entry. It gives
`PdrOwnership` and `TeidTableMatchesRules`. `AddrInv` relates the UPF's addresses and
the table to what the SMF has given out, and gives `SessionFoundByAddress`.
`PathInv` adds what a packet meets: a FAR exists exactly as long as a PDR uses it
and is complete once its request has been accepted, its tunnel being its session's
(`FarInv`); with GTP-U its buffer is in order, newer than what was sent, and
non-empty exactly while the UE is idle and has been reported (`BufferInv`). It
gives `TypeOK`, `RulesHaveFar`, `RoutedToOwnTunnel`, `BufferedInOrder` and
`GtpuPagesOnce`. The facts about `Append`,
`RemoveFirst`, `InsertAt` and the smallest or largest element of a set are lemmas of
`SequenceFacts`; where they need induction they take a minimal counterexample
(`WFMin`).

**N3TunnelProofs.** For any number of gNBs, UPFs, connections and packets, any addresses
and any races, `EndInv` is inductive: `TypeOK`; `ConnInv`, that a connection has an owner
exactly when it has a peer and an end; `GnbEndConsistent`, that a gNB's state, queue and
connection agree; `TableInv`, that what a UPF has put under an address is a connection to
it from there. `IInv` adds where packets may be: a queued one is for the UPF of the gNB's
connection (`QueuedInv`), one in a UPF's hands for the address of the connection found
(`HeldInv`), a datagram for an end of its connection (`DatagramInv`), in each case
unless it is stray; and it is in one place only (`OncePerPacket`), so that
delivering it takes it out of transit. The refinement (`TunnelImplementsChannel`) has
one case per kind of action: the sends of the gNBs and the UPFs' look-ups are `Submit`,
also when the packet is dropped at once; `callbackConnected`, `callbackShutdown`,
`downlinkSend`, `serverRestart` and `datagramLost` are `Lose`; `handleReused` is `GiveUp`;
the two receptions are `Deliver`; the rest of what a UPF does with its connections is a
stutter. No assumption on the number of UPFs, on addresses or on workers is left.

Model-checked only: the liveness properties `PendingResolved`, `QuitCompletes`,
`QuietStopCompletes` and `SetupReachesTable`, because fairness is out of the prover's reach.
Every other property of a passing run is a theorem. There are no recursive operators.

## Not modelled

- The contents of packets and NGAP messages, tickets' sizes, wording and logs.
- The tokens of the rate limiter's buckets, GTP-U echo requests, `GtpTask`'s start and quit.
- A failing start of the UPF's server, after which the UPF does not run.
- The GTP-U codec: planned, below.
- In the UPF: QERs, URRs, BARs and their counters; IPv6, Ethernet, framed routes,
  multicast and the check of an uplink packet's source address; echo and error
  indications; the PFCP association, heartbeats and retransmission;
  the byte comparisons of SDF filters; TEIDs chosen by the SMF; the start and stop
  order of the UPF.
- RRC, RLS, SCTP, the UE, the other network functions: upstream code that the
  tunnel does not touch. Deployment and measurement scripts hold no protocol state.

## Plan

Done: `GnbQuic`, `UpfQuic`, `GnbGtp`, `UpfN3`, `N3Channel` and `N3Tunnel`
with their runs, and theorems for every invariant the runs check. Next, in this order:

1. Action properties and what follows from the invariants across modules: a
   connection of `GnbQuic` or `UpfQuic` as seen by `N3Tunnel`.
2. `TokenBucket`: capacity, refill and consumption against a reference over
   bounded times; the GTP-U codec's lengths and extension headers.
3. The rest of `NtsTask` (timers, `pushFront`) and the order in which the gNB's
   tasks quit.
