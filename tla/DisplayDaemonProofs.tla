------------------------ MODULE DisplayDaemonProofs ------------------------
(***************************************************************************)
(* Proofs about the display daemon, for any number of connections,         *)
(* screens, addresses and descriptors.                                     *)
(***************************************************************************)
EXTENDS DisplayDaemon, TLAPS

USE DEF Conns, MAX_FDS

\* The inductive invariant: the ownership of blocks and descriptors is what
\* makes ConnAt(producer) a connection in the two wakeup properties.
IInv == TypeOK /\ ClientsOwnSockets /\ NoLostFds /\ NoLostScreen

\* The initial state satisfies the inductive invariant.
LEMMA InitIInv == Init => IInv
<1> SUFFICES ASSUME Init PROVE IInv
    OBVIOUS
<1> USE NullAssumption, BoundAssumption DEF Init
<1>1. TypeOK
  <2>1. deposit \in [fds : 0..MAX_FDS, bundle : Bundles \cup {NULL}] BY DEF NoDeposit
  <2>2. batch \in Seq(Events) /\ backlog \in Seq(Conns) OBVIOUS
  <2>3. inq \in [Conns -> Seq(Msgs)] /\ sent \in [Conns -> Seq(Msgs)] OBVIOUS
  <2>4. sock \in [Fds -> Conns \cup {NULL}] /\ heap \in [Addr -> Fds \cup {NULL}] OBVIOUS
  <2>5. /\ link \in [Conns -> {"none", "backlog", "open", "closed"}]
        /\ peer \in [Conns -> BOOLEAN]
        /\ nmsgs \in [Conns -> 0..MaxMsgs]
    OBVIOUS
  <2> QED BY <2>1, <2>2, <2>3, <2>4, <2>5 DEF TypeOK
<1>2. SocketTable BY DEF SocketTable
<1>3. ClientsOwnSockets BY <1>2 DEF ClientsOwnSockets
<1>4. NoLostFds /\ NoLostScreen BY DEF NoLostFds, NoLostScreen
<1> QED BY <1>1, <1>3, <1>4 DEF IInv

\* Every message the daemon or a library builds is a message.
LEMMA MsgTypesOK ==
  /\ \A t \in MsgTypes : Plain(t) \in Msgs
  /\ \A t \in MsgTypes, n \in 0..MAX_FDS, b \in Bundles \cup {NULL} : WithFds(t, n, b) \in Msgs
  /\ \A s \in Screens \cup {NULL} : ScreenInfo(s) \in Msgs
BY DEF Plain, WithFds, ScreenInfo, Msgs, MsgTypes

\* An allocated client has an open connection.
LEMMA LiveConn ==
  ASSUME TypeOK, ClientsOwnSockets, NEW a \in live
  PROVE  /\ ConnAt(a) \in Conns
         /\ link[ConnAt(a)] = "open"
BY DEF TypeOK, ClientsOwnSockets, ConnAt

\* A log of sent messages stays one after send_all or send_fds.
LEMMA PostType ==
  ASSUME NEW log \in [Conns -> Seq(Msgs)], NEW k \in Conns, NEW m \in Msgs
  PROVE  Post(log, k, m) \in [Conns -> Seq(Msgs)]
BY DEF Post

\* The same for the notice to the consumer in try_deliver_fds.
LEMMA NotifyType ==
  ASSUME NEW log \in [Conns -> Seq(Msgs)], NEW k \in Conns \cup {NULL}
  PROVE  Notify(log, k) \in [Conns -> Seq(Msgs)]
BY PostType, MsgTypesOK DEF Notify, MsgTypes

\* The message at the head of a socket is a message, and so are the rest.
LEMMA HeadType ==
  ASSUME TypeOK, NEW k \in Conns, inq[k] # <<>>
  PROVE  /\ Msg(k) \in Msgs
         /\ [inq EXCEPT ![k] = Tail(@)] \in [Conns -> Seq(Msgs)]
         /\ Carried(Msg(k)) \in [fds : 0..MAX_FDS, bundle : Bundles \cup {NULL}]
<1>1. inq[k] \in Seq(Msgs) BY DEF TypeOK
<1>2. Head(inq[k]) \in Msgs /\ Tail(inq[k]) \in Seq(Msgs) BY <1>1
<1>3. [inq EXCEPT ![k] = Tail(@)] \in [Conns -> Seq(Msgs)] BY <1>2 DEF TypeOK
<1>4. Carried(Msg(k)) \in [fds : 0..MAX_FDS, bundle : Bundles \cup {NULL}]
  BY <1>2 DEF Carried, Msg, Msgs
<1> QED BY <1>2, <1>3, <1>4 DEF Msg

(* try_deliver_fds and Deposit: their types, and that they leave a producer *)
(* waiting only for good reason.                                            *)
LEMMA TryDeliver ==
  ASSUME TypeOK, ClientsOwnSockets,
         NEW d \in [fds : 0..MAX_FDS, bundle : Bundles \cup {NULL}],
         NEW k \in Conns \cup {NULL}, try_deliver_fds(d, k)
  PROVE  /\ deposit' \in [fds : 0..MAX_FDS, bundle : Bundles \cup {NULL}]
         /\ producer_waiting_fds' \in BOOLEAN
         /\ sent' \in [Conns -> Seq(Msgs)]
         /\ producer_waiting_fds' /\ producer # NULL /\ Complete(deposit')
              => ~peer[ConnAt(producer)]
<1>1. CASE producer = NULL \/ ~Complete(d) \/ ~peer[ConnAt(producer)]
  BY <1>1 DEF try_deliver_fds, TypeOK
<1>2. CASE ~(producer = NULL \/ ~Complete(d) \/ ~peer[ConnAt(producer)])
  <2>1. ConnAt(producer) \in Conns BY <1>2, LiveConn DEF ClientsOwnSockets
  <2>2. WithFds("FDS_READY", d.fds, d.bundle) \in Msgs BY MsgTypesOK DEF MsgTypes
  <2>3. Post(sent, ConnAt(producer), WithFds("FDS_READY", d.fds, d.bundle)) \in [Conns -> Seq(Msgs)]
    BY <2>1, <2>2, PostType DEF TypeOK
  <2>4. sent' \in [Conns -> Seq(Msgs)]
    BY <1>2, <2>3, NotifyType DEF try_deliver_fds
  <2>5. deposit' = NoDeposit /\ producer_waiting_fds' = FALSE
    BY <1>2 DEF try_deliver_fds
  <2>6. deposit' \in [fds : 0..MAX_FDS, bundle : Bundles \cup {NULL}] BY <2>5 DEF NoDeposit
  <2> QED BY <2>4, <2>5, <2>6
<1> QED BY <1>1, <1>2

\* The tail of both CONSUMER_HELLO handlers keeps no reachable producer waiting.
LEMMA DepositOK ==
  ASSUME TypeOK, ClientsOwnSockets, NoLostFds,
         NEW d \in [fds : 0..MAX_FDS, bundle : Bundles \cup {NULL}],
         NEW k \in Conns \cup {NULL}, Deposit(d, k)
  PROVE  /\ deposit' \in [fds : 0..MAX_FDS, bundle : Bundles \cup {NULL}]
         /\ producer_waiting_fds' \in BOOLEAN
         /\ sent' \in [Conns -> Seq(Msgs)]
         /\ producer_waiting_fds' => producer # NULL
         /\ producer_waiting_fds' /\ Complete(deposit') => ~peer[ConnAt(producer)]
<1>1. CASE producer_waiting_fds
  <2>1. try_deliver_fds(d, k) BY <1>1 DEF Deposit
  <2>2. producer # NULL BY <1>1 DEF NoLostFds
  <2> QED BY <2>1, <2>2, TryDeliver
<1>2. CASE ~producer_waiting_fds BY <1>2 DEF Deposit, TypeOK
<1> QED BY <1>1, <1>2

-----------------------------------------------------------------------------
(* The steps of the clients. *)

\* A client connects.
LEMMA ConnectStep == ASSUME IInv, NEW k \in Conns, Connect(k) PROVE IInv'
<1> USE NullAssumption, BoundAssumption DEF Connect, daemonVars
<1>1. TypeOK' BY DEF IInv, TypeOK
<1>2. SocketTable' BY DEF IInv, TypeOK, ClientsOwnSockets, SocketTable
<1>3. ClientsOwnSockets' BY <1>2 DEF IInv, TypeOK, ClientsOwnSockets, SocketTable
<1>4. NoLostFds' BY LiveConn DEF IInv, TypeOK, ClientsOwnSockets, NoLostFds, ConnAt, Complete
<1>5. NoLostScreen' BY DEF IInv, NoLostScreen
<1> QED BY <1>1, <1>3, <1>4, <1>5 DEF IInv

\* What a client may send is a message.
LEMMA RequestType ==
  ASSUME TypeOK, NEW k \in Conns, nmsgs[k] < MaxMsgs, NEW m \in Requests(k)
  PROVE  m \in Msgs
<1>1. <<k, nmsgs[k] + 1>> \in Bundles BY BoundAssumption DEF TypeOK, Bundles
<1>2. \A n \in HelloFds : WithFds("CONSUMER_HELLO", n, <<k, nmsgs[k] + 1>>) \in Msgs
  BY <1>1, BoundAssumption, MsgTypesOK DEF MsgTypes
<1>3. \A sc \in Screens : ScreenInfo(sc) \in Msgs BY MsgTypesOK
<1>4. \A t \in {"PRODUCER_HELLO", "PICKUP_FDS", "UNKNOWN", "OVERSIZED"} : Plain(t) \in Msgs
  BY MsgTypesOK DEF MsgTypes
<1> QED BY <1>2, <1>3, <1>4 DEF Requests

\* A client sends a message.
LEMMA SendStep == ASSUME IInv, NEW k \in Conns, NEW m \in Requests(k), Send(k, m) PROVE IInv'
<1> USE DEF daemonVars
<1>1. m \in Msgs BY RequestType DEF IInv, Send
<1>2. inq' \in [Conns -> Seq(Msgs)] BY <1>1 DEF Send, IInv, TypeOK
<1>3. nmsgs' \in [Conns -> 0..MaxMsgs] BY BoundAssumption DEF Send, IInv, TypeOK
<1>4. TypeOK' BY <1>2, <1>3 DEF Send, IInv, TypeOK
<1>5. ClientsOwnSockets' BY DEF Send, IInv, ClientsOwnSockets, SocketTable
<1>6. NoLostFds' BY DEF Send, IInv, NoLostFds, ConnAt, Complete
<1>7. NoLostScreen' BY DEF Send, IInv, NoLostScreen
<1> QED BY <1>4, <1>5, <1>6, <1>7 DEF IInv

\* A client hangs up: it can only make a waiting producer unreachable.
LEMMA HangupStep == ASSUME IInv, NEW k \in Conns, Hangup(k) PROVE IInv'
<1> USE DEF daemonVars
<1>1. TypeOK' BY DEF Hangup, IInv, TypeOK
<1>2. ClientsOwnSockets' BY DEF Hangup, IInv, ClientsOwnSockets, SocketTable
<1>3. NoLostFds' BY LiveConn DEF Hangup, IInv, TypeOK, ClientsOwnSockets, NoLostFds, ConnAt, Complete
<1>4. NoLostScreen' BY DEF Hangup, IInv, NoLostScreen
<1> QED BY <1>1, <1>2, <1>3, <1>4 DEF IInv

-----------------------------------------------------------------------------
(* The main loop. *)

\* epoll_wait fills the batch and forgets what freed blocks held.
LEMMA EpollWaitStep == ASSUME IInv, EpollWait PROVE IInv'
<1> USE DEF socketVars
<1>1. Ready \subseteq Events
  <2>1. \A a \in Addr, h \in BOOLEAN : [ptr |-> a, hup |-> h] \in Events BY DEF Events
  <2>2. [ptr |-> NULL, hup |-> FALSE] \in Events BY DEF Events
  <2>3. \A a \in live : [ptr |-> a, hup |-> ~peer[ConnAt(a)]] \in Events
    BY <2>1 DEF IInv, TypeOK
  <2> QED BY <2>2, <2>3 DEF Ready
<1>2. batch' \in Seq(Events)
  <2>1. PICK n \in 1..3 : \E order \in [1..n -> Ready] : batch' = order
    BY DEF EpollWait
  <2> QED BY <1>1, <2>1
<1>3. TypeOK' BY <1>2 DEF EpollWait, IInv, TypeOK
<1>4. \A a \in live : heap'[a] = heap[a] BY DEF EpollWait, IInv, TypeOK
<1>5. ClientsOwnSockets'
  <2>1. SocketTable' BY DEF EpollWait, IInv, ClientsOwnSockets, SocketTable
  <2>2. \A f \in Fds : sock[f] # NULL => f = greeting \/ \E a \in live : f = heap'[a]
    BY <1>4 DEF IInv, ClientsOwnSockets
  <2> QED BY <1>4, <2>1, <2>2 DEF EpollWait, IInv, ClientsOwnSockets
<1>6. NoLostFds'
  BY <1>4 DEF EpollWait, IInv, TypeOK, ClientsOwnSockets, NoLostFds, ConnAt, Complete
<1>7. NoLostScreen' BY DEF EpollWait, IInv, NoLostScreen
<1> QED BY <1>3, <1>5, <1>6, <1>7 DEF IInv

\* Taking the next event keeps the batch well formed.
LEMMA ServingType == ASSUME TypeOK, Serving PROVE batch' \in Seq(Events)
BY DEF TypeOK, Serving

\* accept gives a connection an unused descriptor.
LEMMA AcceptStep == ASSUME IInv, AcceptConnection PROVE IInv'
<1>1. PICK f \in Fds :
        /\ Serving /\ backlog # <<>> /\ sock[f] = NULL
        /\ sock' = [sock EXCEPT ![f] = Head(backlog)]
        /\ link' = [link EXCEPT ![Head(backlog)] = "open"]
        /\ backlog' = Tail(backlog)
        /\ greeting' = f
        /\ UNCHANGED <<running, consumer, producer, live, heap, stored_screen, deposit,
                       producer_waiting_screen, producer_waiting_fds,
                       peer, inq, sent, nmsgs>>
  BY DEF AcceptConnection, NewFd, Unused
<1> DEFINE k == Head(backlog)
<1>2. /\ k \in Conns /\ backlog' \in Seq(Conns)
      /\ k = backlog[1] /\ link[k] = "backlog"
      /\ Len(backlog') = Len(backlog) - 1
      /\ \A i \in 1..Len(backlog') : i + 1 \in 1..Len(backlog) /\ backlog'[i] = backlog[i + 1]
  BY <1>1 DEF IInv, TypeOK, ClientsOwnSockets, SocketTable
<1>3. TypeOK' BY <1>1, <1>2, ServingType DEF IInv, TypeOK
<1>4. greeting = NULL BY <1>1 DEF Serving
<1>5. \A g \in Fds : sock[g] # k
  BY <1>2 DEF IInv, ClientsOwnSockets
<1>6. SocketTable'
  <2>1. \A i \in 1..Len(backlog') : backlog'[i] # k /\ link'[backlog'[i]] = "backlog"
    BY <1>1, <1>2 DEF IInv, TypeOK, ClientsOwnSockets, SocketTable
  <2>2. \A i, j \in 1..Len(backlog') : backlog'[i] = backlog'[j] => i = j
    BY <1>2 DEF IInv, ClientsOwnSockets, SocketTable
  <2>3. \A g, h \in Fds : sock'[g] # NULL /\ sock'[g] = sock'[h] => g = h
    BY <1>1, <1>2, <1>5 DEF IInv, TypeOK, ClientsOwnSockets, SocketTable
  <2>4. greeting' # NULL => sock'[greeting'] # NULL
    BY <1>1, <1>2, NullAssumption DEF IInv, TypeOK
  <2> QED BY <2>1, <2>2, <2>3, <2>4 DEF SocketTable
<1>7. ClientsOwnSockets'
  <2>1. \A a \in live : heap[a] # f /\ sock'[heap[a]] = sock[heap[a]]
    BY <1>1 DEF IInv, TypeOK, ClientsOwnSockets
  <2>2. \A g \in Fds : sock'[g] # NULL => g = greeting' \/ \E a \in live' : g = heap'[a]
    <3> TAKE g \in Fds
    <3>1. g # f => sock'[g] = sock[g] BY <1>1 DEF IInv, TypeOK
    <3>2. g # f /\ sock[g] # NULL => \E a \in live : g = heap[a]
      BY <1>4, NullAssumption DEF IInv, ClientsOwnSockets
    <3> QED BY <1>1, <3>1, <3>2
  <2>3. \A j \in Conns : link'[j] = "open" <=> \E g \in Fds : sock'[g] = j
    BY <1>1, <1>2, <1>5, NullAssumption DEF IInv, TypeOK, ClientsOwnSockets
  <2> QED BY <1>1, <1>6, <2>1, <2>2, <2>3 DEF IInv, ClientsOwnSockets
<1>8. NoLostFds'
  BY <1>1 DEF IInv, TypeOK, ClientsOwnSockets, NoLostFds, ConnAt, Complete
<1>9. NoLostScreen' BY <1>1 DEF IInv, NoLostScreen
<1> QED BY <1>3, <1>7, <1>8, <1>9 DEF IInv

-----------------------------------------------------------------------------
(* Freeing a client r (or none, when r is NULL). *)

\* client_free closes one descriptor and breaks no other connection.
LEMMA FreeStep ==
  ASSUME TypeOK, ClientsOwnSockets, NEW r \in live \cup {NULL},
         sock' = FreeSock(r), link' = FreeLink(r), backlog' = backlog,
         greeting' \in {greeting, NULL}
  PROVE  /\ sock' \in [Fds -> Conns \cup {NULL}]
         /\ link' \in [Conns -> {"none", "backlog", "open", "closed"}]
         /\ SocketTable'
         /\ \A k \in Conns : link'[k] = "open" <=> \E f \in Fds : sock'[f] = k
         /\ r # NULL => sock'[heap[r]] = NULL
         /\ \A f \in Fds : r = NULL \/ f # heap[r] => sock'[f] = sock[f]
<1>1. CASE r = NULL
  <2>1. sock' = sock /\ link' = link BY <1>1 DEF FreeSock, FreeLink, TypeOK
  <2>2. SocketTable' BY <2>1 DEF ClientsOwnSockets, SocketTable
  <2> QED BY <1>1, <2>1, <2>2 DEF TypeOK, ClientsOwnSockets
<1>2. CASE r \in live
  <2>1. r # NULL /\ heap[r] \in Fds /\ heap[r] # greeting /\ ConnAt(r) \in Conns
        /\ link[ConnAt(r)] = "open"
    BY <1>2, LiveConn, NullAssumption DEF TypeOK, ClientsOwnSockets
  <2>2. sock' \in [Fds -> Conns \cup {NULL}] BY <2>1 DEF FreeSock, TypeOK
  <2>3. link' \in [Conns -> {"none", "backlog", "open", "closed"}]
    BY <2>1 DEF FreeLink, TypeOK
  <2>4. sock'[heap[r]] = NULL /\ \A f \in Fds : f # heap[r] => sock'[f] = sock[f]
    BY <2>1 DEF FreeSock
  <2>5. link'[ConnAt(r)] = "closed" /\ \A k \in Conns : k # ConnAt(r) => link'[k] = link[k]
    BY <2>1 DEF FreeLink
  <2>6. \A f \in Fds : f # heap[r] => sock[f] # ConnAt(r)
    BY <2>1, NullAssumption DEF ClientsOwnSockets, SocketTable, ConnAt
  <2>7. SocketTable'
    <3>1. \A f, g \in Fds : sock'[f] # NULL /\ sock'[f] = sock'[g] => f = g
      BY <2>4 DEF ClientsOwnSockets, SocketTable
    <3>2. greeting' # NULL => sock'[greeting'] # NULL
      BY <2>1, <2>4 DEF ClientsOwnSockets, SocketTable, TypeOK
    <3>3. \A i \in 1..Len(backlog') : link'[backlog'[i]] = "backlog"
      <4>1. \A i \in 1..Len(backlog) : backlog[i] \in Conns /\ link[backlog[i]] = "backlog"
        BY DEF ClientsOwnSockets, SocketTable, TypeOK
      <4> QED BY <2>1, <2>5, <4>1
    <3> QED BY <3>1, <3>2, <3>3 DEF ClientsOwnSockets, SocketTable
  <2>8. \A k \in Conns : link'[k] = "open" <=> \E f \in Fds : sock'[f] = k
    <3> TAKE k \in Conns
    <3>1. CASE k = ConnAt(r) BY <2>4, <2>5, <2>6, <3>1, NullAssumption
    <3>2. CASE k # ConnAt(r)
      <4>1. link'[k] = "open" <=> \E f \in Fds : sock[f] = k
        BY <2>5, <3>2 DEF ClientsOwnSockets
      <4>2. \A f \in Fds : sock[f] = k => sock'[f] = k BY <2>4, <3>2 DEF ConnAt
      <4>3. \A f \in Fds : sock'[f] = k => sock[f] = k BY <2>4, NullAssumption
      <4> QED BY <4>1, <4>2, <4>3
    <3> QED BY <3>1, <3>2
  <2> QED BY <2>1, <2>2, <2>3, <2>4, <2>7, <2>8
<1> QED BY <1>1, <1>2

\* handle_disconnect, for any pointer an event may carry.
LEMMA DisconnectStep ==
  ASSUME IInv, NEW c \in Addr, handle_disconnect(c),
         batch' \in Seq(Events), inq' \in [Conns -> Seq(Msgs)]
  PROVE  IInv'
<1>1. CASE c \in {consumer, producer}
  <2>0. c \in live /\ c # NULL BY <1>1, NullAssumption DEF IInv, ClientsOwnSockets
  <2>1. /\ sock' = FreeSock(c) /\ link' = FreeLink(c) /\ live' = live \ {c}
        /\ UNCHANGED <<running, heap, stored_screen, deposit, greeting, backlog, peer, sent, nmsgs>>
        /\ consumer' = IF c = consumer THEN NULL ELSE consumer
        /\ producer' = IF c = producer THEN NULL ELSE producer
    BY <1>1 DEF handle_disconnect
  <2>2. /\ producer_waiting_screen' = (c # producer /\ producer_waiting_screen)
        /\ producer_waiting_fds' = (c # producer /\ producer_waiting_fds)
    BY DEF handle_disconnect
  <2>3. /\ sock' \in [Fds -> Conns \cup {NULL}]
        /\ link' \in [Conns -> {"none", "backlog", "open", "closed"}]
        /\ SocketTable'
        /\ \A k \in Conns : link'[k] = "open" <=> \E f \in Fds : sock'[f] = k
        /\ sock'[heap[c]] = NULL
        /\ \A f \in Fds : f # heap[c] => sock'[f] = sock[f]
    BY <2>0, <2>1, FreeStep DEF IInv
  <2>4. TypeOK' BY <2>1, <2>2, <2>3 DEF IInv, TypeOK
  <2>5. \A a \in live' : heap[a] # heap[c] /\ sock'[heap[a]] = sock[heap[a]]
    BY <2>0, <2>1, <2>3 DEF IInv, ClientsOwnSockets
  <2>6. \A f \in Fds : sock'[f] # NULL => f = greeting' \/ \E a \in live' : f = heap'[a]
    BY <2>0, <2>1, <2>3 DEF IInv, ClientsOwnSockets
  <2>7. live' = {consumer', producer'} \ {NULL} /\ (consumer' # NULL => consumer' # producer')
    BY <1>1, <2>0, <2>1 DEF IInv, ClientsOwnSockets
  <2>8. ClientsOwnSockets'
    BY <2>1, <2>3, <2>5, <2>6, <2>7 DEF IInv, ClientsOwnSockets
  <2>9. NoLostFds'
    BY <2>1, <2>2, <2>5, <2>7 DEF IInv, NoLostFds, ConnAt, Complete, ClientsOwnSockets
  <2>10. NoLostScreen' BY <2>1, <2>2 DEF IInv, NoLostScreen
  <2> QED BY <2>4, <2>8, <2>9, <2>10 DEF IInv
<1>2. CASE c \notin {consumer, producer}
  <2>1. /\ UNCHANGED <<sock, link, live, running, heap, stored_screen, deposit, greeting,
                       backlog, peer, sent, nmsgs, consumer, producer>>
        /\ producer_waiting_screen' = producer_waiting_screen
        /\ producer_waiting_fds' = producer_waiting_fds
    BY <1>2 DEF handle_disconnect, IInv, TypeOK
  <2>2. TypeOK' BY <2>1 DEF IInv, TypeOK
  <2>3. ClientsOwnSockets' BY <2>1 DEF IInv, ClientsOwnSockets, SocketTable
  <2>4. NoLostFds' /\ NoLostScreen'
    BY <2>1 DEF IInv, NoLostFds, NoLostScreen, ConnAt, Complete
  <2> QED BY <2>2, <2>3, <2>4 DEF IInv
<1> QED BY <1>1, <1>2

\* An event with EPOLLHUP or EPOLLERR.
LEMMA ClientHupStep == ASSUME IInv, NEW c \in Addr, ClientHup(c) PROVE IInv'
BY DisconnectStep, ServingType DEF ClientHup, IInv, TypeOK

\* A read that fails.
LEMMA ClientGoneStep == ASSUME IInv, NEW c \in Addr, ClientGone(c) PROVE IInv'
BY DisconnectStep, ServingType DEF ClientGone, IInv, TypeOK

\* A read takes one well-formed message.
LEMMA ReadsType ==
  ASSUME IInv, NEW c \in Addr, NEW k \in Conns, Reads(c, k)
  PROVE  /\ batch' \in Seq(Events)
         /\ inq' \in [Conns -> Seq(Msgs)]
         /\ Msg(k) \in Msgs
         /\ Carried(Msg(k)) \in [fds : 0..MAX_FDS, bundle : Bundles \cup {NULL}]
BY ServingType, HeadType DEF Reads, IInv

\* A header with a size that is too large.
LEMMA OversizedStep ==
  ASSUME IInv, NEW c \in Addr, NEW k \in Conns, ClientOversized(c, k) PROVE IInv'
BY ReadsType, DisconnectStep DEF ClientOversized

-----------------------------------------------------------------------------
(* The remaining messages of a connected client. *)

\* CONSUMER_HELLO from the connected consumer.
LEMMA RedepositStep ==
  ASSUME IInv, NEW c \in Addr, NEW k \in Conns, ClientRedeposit(c, k) PROVE IInv'
<1> USE DEF ClientRedeposit
<1>1. /\ deposit' \in [fds : 0..MAX_FDS, bundle : Bundles \cup {NULL}]
      /\ producer_waiting_fds' \in BOOLEAN
      /\ sent' \in [Conns -> Seq(Msgs)]
      /\ producer_waiting_fds' => producer # NULL
      /\ producer_waiting_fds' /\ Complete(deposit') => ~peer[ConnAt(producer)]
  BY ReadsType, DepositOK DEF IInv
<1>2. TypeOK' BY <1>1, ReadsType DEF IInv, TypeOK
<1>3. ClientsOwnSockets' BY DEF IInv, ClientsOwnSockets, SocketTable
<1>4. NoLostFds' BY <1>1 DEF NoLostFds, ConnAt, Complete
<1>5. NoLostScreen' BY DEF IInv, NoLostScreen
<1> QED BY <1>2, <1>3, <1>4, <1>5 DEF IInv

\* PICKUP_FDS from the connected producer.
LEMMA PickupStep ==
  ASSUME IInv, NEW c \in Addr, NEW k \in Conns, ClientPickup(c, k) PROVE IInv'
<1> USE DEF ClientPickup
<1>0. ConsumerConn \in Conns \cup {NULL} /\ producer # NULL
  BY LiveConn, NullAssumption DEF IInv, ClientsOwnSockets, ConsumerConn
<1>1. /\ deposit' \in [fds : 0..MAX_FDS, bundle : Bundles \cup {NULL}]
      /\ producer_waiting_fds' \in BOOLEAN
      /\ sent' \in [Conns -> Seq(Msgs)]
      /\ producer_waiting_fds' /\ Complete(deposit') => ~peer[ConnAt(producer)]
  BY <1>0, TryDeliver DEF IInv, TypeOK
<1>2. TypeOK' BY <1>1, ReadsType DEF IInv, TypeOK
<1>3. ClientsOwnSockets' BY DEF IInv, ClientsOwnSockets, SocketTable
<1>4. NoLostFds' BY <1>0, <1>1 DEF NoLostFds, ConnAt, Complete
<1>5. NoLostScreen' BY DEF IInv, NoLostScreen
<1> QED BY <1>2, <1>3, <1>4, <1>5 DEF IInv

\* A message the daemon ignores.
LEMMA IgnoredStep ==
  ASSUME IInv, NEW c \in Addr, NEW k \in Conns, ClientIgnored(c, k) PROVE IInv'
<1> USE DEF ClientIgnored
<1>1. TypeOK' BY ReadsType DEF IInv, TypeOK
<1>2. ClientsOwnSockets' BY DEF IInv, ClientsOwnSockets, SocketTable
<1>3. NoLostFds' BY DEF IInv, NoLostFds, ConnAt, Complete
<1>4. NoLostScreen' BY DEF IInv, NoLostScreen
<1> QED BY <1>1, <1>2, <1>3, <1>4 DEF IInv

\* SCREEN_INFO, with and without the reset of the producer.
LEMMA ScreenInfoStep ==
  ASSUME IInv, NEW c \in Addr, NEW k \in Conns, ClientScreenInfo(c, k) PROVE IInv'
<1>1. /\ stored_screen' = Msg(k).screen /\ stored_screen' \in Screens \cup {NULL}
      /\ UNCHANGED <<running, consumer, heap, deposit, greeting, backlog, peer, nmsgs>>
  BY ReadsType DEF ClientScreenInfo, Msgs
<1>2. CASE stored_screen \notin {NULL, Msg(k).screen} /\ producer # NULL
  <2>1. /\ sock' = FreeSock(producer) /\ link' = FreeLink(producer)
        /\ live' = live \ {producer} /\ producer' = NULL
        /\ producer_waiting_screen' = FALSE /\ producer_waiting_fds' = FALSE
        /\ sent' = sent
    BY <1>2 DEF ClientScreenInfo, ScreenChanged
  <2>2. producer \in live BY <1>2 DEF IInv, ClientsOwnSockets
  <2>3. /\ sock' \in [Fds -> Conns \cup {NULL}]
        /\ link' \in [Conns -> {"none", "backlog", "open", "closed"}]
        /\ SocketTable'
        /\ \A j \in Conns : link'[j] = "open" <=> \E f \in Fds : sock'[f] = j
        /\ sock'[heap[producer]] = NULL
        /\ \A f \in Fds : f # heap[producer] => sock'[f] = sock[f]
    BY <1>1, <1>2, <2>1, <2>2, FreeStep DEF IInv
  <2>4. TypeOK'
    <3>1. batch' \in Seq(Events) /\ inq' \in [Conns -> Seq(Msgs)]
      BY ReadsType DEF ClientScreenInfo
    <3>2. live' \subseteq Addr /\ producer' \in Addr \cup {NULL} BY <2>1 DEF IInv, TypeOK
    <3> QED BY <1>1, <2>1, <2>3, <3>1, <3>2 DEF IInv, TypeOK
  <2>5. \A a \in live' : heap[a] # heap[producer] /\ sock'[heap[a]] = sock[heap[a]]
    BY <2>1, <2>2, <2>3 DEF IInv, ClientsOwnSockets
  <2>6. \A f \in Fds : sock'[f] # NULL => f = greeting' \/ \E a \in live' : f = heap'[a]
    BY <1>1, <2>1, <2>2, <2>3 DEF IInv, ClientsOwnSockets
  <2>7. live' = {consumer', producer'} \ {NULL} /\ (consumer' # NULL => consumer' # producer')
    BY <1>1, <1>2, <2>1 DEF IInv, ClientsOwnSockets
  <2>8. ClientsOwnSockets'
    BY <1>1, <2>1, <2>3, <2>5, <2>6, <2>7 DEF IInv, ClientsOwnSockets
  <2> QED BY <2>1, <2>4, <2>8 DEF IInv, NoLostFds, NoLostScreen
<1>3. CASE ~(stored_screen \notin {NULL, Msg(k).screen} /\ producer # NULL)
  <2>1. /\ sent' = IF producer_waiting_screen /\ producer # NULL
                   THEN Post(sent, ConnAt(producer), ScreenInfo(Msg(k).screen))
                   ELSE sent
        /\ producer_waiting_screen' = (producer_waiting_screen /\ producer = NULL)
        /\ UNCHANGED <<sock, link, live, producer, producer_waiting_fds>>
    BY <1>3 DEF ClientScreenInfo, ScreenChanged
  <2>2. sent' \in [Conns -> Seq(Msgs)]
    BY <1>1, <2>1, LiveConn, PostType, MsgTypesOK DEF IInv, TypeOK, ClientsOwnSockets
  <2>3. TypeOK' BY <1>1, <2>1, <2>2, ReadsType DEF ClientScreenInfo, IInv, TypeOK
  <2>4. ClientsOwnSockets' BY <1>1, <2>1 DEF IInv, ClientsOwnSockets, SocketTable
  <2>5. NoLostFds' BY <1>1, <2>1 DEF IInv, NoLostFds, ConnAt, Complete
  <2>6. NoLostScreen' BY <2>1 DEF IInv, NoLostScreen
  <2> QED BY <2>3, <2>4, <2>5, <2>6 DEF IInv
<1> QED BY <1>2, <1>3

-----------------------------------------------------------------------------
(* New connections. *)

\* The first message of a connection is well formed.
LEMMA GreetedType ==
  ASSUME IInv, NEW k \in Conns, Greeted(k)
  PROVE  /\ inq' \in [Conns -> Seq(Msgs)]
         /\ Carried(Msg(k)) \in [fds : 0..MAX_FDS, bundle : Bundles \cup {NULL}]
         /\ greeting \in Fds /\ k = sock[greeting] /\ greeting' = NULL
         /\ UNCHANGED <<running, batch, backlog, peer, nmsgs, stored_screen>>
BY HeadType DEF Greeted, IInv, TypeOK

(* A block a, not allocated before, gets the greeted descriptor and replaces *)
(* the client r; o is the client of the other role.                          *)
LEMMA ReplaceStep ==
  ASSUME IInv, NEW k \in Conns, Greeted(k),
         NEW r \in {consumer, producer}, NEW o \in {consumer, producer},
         {consumer, producer} = {r, o}, r # NULL => r # o,
         NEW a \in Addr \ live,
         live' = (live \ {r}) \cup {a}, heap' = [heap EXCEPT ![a] = greeting],
         sock' = FreeSock(r), link' = FreeLink(r)
  PROVE  /\ sock' \in [Fds -> Conns \cup {NULL}]
         /\ link' \in [Conns -> {"none", "backlog", "open", "closed"}]
         /\ heap' \in [Addr -> Fds \cup {NULL}]
         /\ SocketTable'
         /\ live' = {a, o} \ {NULL} /\ a # o
         /\ \A b \in live' : heap'[b] \in Fds /\ heap'[b] # greeting' /\ sock'[heap'[b]] # NULL
         /\ \A b, d \in live' : heap'[b] = heap'[d] => b = d
         /\ \A f \in Fds : sock'[f] # NULL => f = greeting' \/ \E b \in live' : f = heap'[b]
         /\ \A j \in Conns : link'[j] = "open" <=> \E f \in Fds : sock'[f] = j
         /\ o # NULL => ConnAt(o)' = ConnAt(o)
<1>1. /\ greeting \in Fds /\ k = sock[greeting] /\ greeting' = NULL /\ backlog' = backlog
      /\ greeting # NULL /\ sock[greeting] # NULL
  BY GreetedType, NullAssumption
<1>2. r \in live \cup {NULL} /\ o \in live \cup {NULL} /\ live = {r, o} \ {NULL}
  BY DEF IInv, ClientsOwnSockets
<1>3. /\ sock' \in [Fds -> Conns \cup {NULL}]
      /\ link' \in [Conns -> {"none", "backlog", "open", "closed"}]
      /\ SocketTable'
      /\ \A j \in Conns : link'[j] = "open" <=> \E f \in Fds : sock'[f] = j
      /\ r # NULL => sock'[heap[r]] = NULL
      /\ \A f \in Fds : r = NULL \/ f # heap[r] => sock'[f] = sock[f]
  BY <1>1, <1>2, FreeStep DEF IInv
<1>4. heap' \in [Addr -> Fds \cup {NULL}] /\ heap'[a] = greeting /\ \A b \in live : heap'[b] = heap[b]
  BY <1>1 DEF IInv, TypeOK
<1>5. live' = {a, o} \ {NULL} /\ a # o
  BY <1>2, NullAssumption
<1>6. o # NULL => /\ o \in live /\ heap'[o] = heap[o] /\ heap[o] \in Fds /\ heap[o] # greeting
                  /\ sock[heap[o]] # NULL /\ sock'[heap[o]] = sock[heap[o]]
  BY <1>2, <1>3, <1>4 DEF IInv, ClientsOwnSockets
<1>7. sock'[greeting] = sock[greeting]
  BY <1>1, <1>2, <1>3 DEF IInv, ClientsOwnSockets
<1>8. \A f \in Fds : sock'[f] # NULL => f = greeting' \/ \E b \in live' : f = heap'[b]
  <2> SUFFICES ASSUME NEW f \in Fds, sock'[f] # NULL PROVE \E b \in live' : f = heap'[b]
    OBVIOUS
  <2>1. r = NULL \/ f # heap[r] BY <1>3
  <2>2. f = greeting \/ \E b \in live : f = heap[b] BY <1>3, <2>1 DEF IInv, ClientsOwnSockets
  <2>3. f = greeting \/ (o # NULL /\ f = heap[o]) BY <1>2, <2>1, <2>2
  <2> QED BY <1>4, <1>5, <1>6, <2>3, NullAssumption
<1>9. \A b \in live' : heap'[b] \in Fds /\ heap'[b] # greeting' /\ sock'[heap'[b]] # NULL
  BY <1>1, <1>4, <1>5, <1>6, <1>7, NullAssumption
<1>10. \A b, d \in live' : heap'[b] = heap'[d] => b = d
  BY <1>4, <1>5, <1>6
<1> QED BY <1>3, <1>4, <1>5, <1>6, <1>8, <1>9, <1>10 DEF ConnAt

\* A new consumer replaces the old one.
LEMMA NewConsumerStep == ASSUME IInv, NEW k \in Conns, NewConsumer(k) PROVE IInv'
<1>1. PICK a \in Addr \ live :
        /\ consumer' = a
        /\ live' = (live \ {consumer}) \cup {a}
        /\ heap' = [heap EXCEPT ![a] = greeting]
  BY DEF NewConsumer, NewAddr, Unused
<1>2. /\ Greeted(k) /\ sock' = FreeSock(consumer) /\ link' = FreeLink(consumer)
      /\ Deposit(Carried(Msg(k)), k)
      /\ UNCHANGED <<producer, producer_waiting_screen>>
  BY DEF NewConsumer
<1>3. /\ deposit' \in [fds : 0..MAX_FDS, bundle : Bundles \cup {NULL}]
      /\ producer_waiting_fds' \in BOOLEAN
      /\ sent' \in [Conns -> Seq(Msgs)]
      /\ producer_waiting_fds' => producer # NULL
      /\ producer_waiting_fds' /\ Complete(deposit') => ~peer[ConnAt(producer)]
  BY <1>2, GreetedType, DepositOK DEF IInv
<1>4. /\ sock' \in [Fds -> Conns \cup {NULL}]
      /\ link' \in [Conns -> {"none", "backlog", "open", "closed"}]
      /\ heap' \in [Addr -> Fds \cup {NULL}]
      /\ SocketTable'
      /\ live' = {a, producer} \ {NULL} /\ a # producer
      /\ \A b \in live' : heap'[b] \in Fds /\ heap'[b] # greeting' /\ sock'[heap'[b]] # NULL
      /\ \A b, d \in live' : heap'[b] = heap'[d] => b = d
      /\ \A f \in Fds : sock'[f] # NULL => f = greeting' \/ \E b \in live' : f = heap'[b]
      /\ \A j \in Conns : link'[j] = "open" <=> \E f \in Fds : sock'[f] = j
      /\ producer # NULL => ConnAt(producer)' = ConnAt(producer)
  <2>1. consumer # NULL => consumer # producer BY DEF IInv, ClientsOwnSockets
  <2> QED BY <1>1, <1>2, <2>1, ReplaceStep
<1>5. TypeOK'
  <2>1. /\ inq' \in [Conns -> Seq(Msgs)] /\ greeting' = NULL
        /\ UNCHANGED <<running, batch, backlog, peer, nmsgs, stored_screen>>
    BY <1>2, GreetedType
  <2>2. live' \subseteq Addr BY <1>1 DEF IInv, TypeOK
  <2> QED BY <1>1, <1>2, <1>3, <1>4, <2>1, <2>2 DEF IInv, TypeOK
<1>6. ClientsOwnSockets' BY <1>1, <1>2, <1>4 DEF ClientsOwnSockets
<1>7. peer' = peer /\ stored_screen' = stored_screen BY <1>2, GreetedType
<1>8. NoLostFds' BY <1>2, <1>3, <1>4, <1>7 DEF NoLostFds, ConnAt, Complete
<1>9. NoLostScreen' BY <1>2, <1>7 DEF IInv, NoLostScreen
<1> QED BY <1>5, <1>6, <1>8, <1>9 DEF IInv

\* A new producer replaces the old one.
LEMMA NewProducerStep == ASSUME IInv, NEW k \in Conns, NewProducer(k) PROVE IInv'
<1>1. PICK a \in Addr \ live :
        /\ producer' = a
        /\ live' = (live \ {producer}) \cup {a}
        /\ heap' = [heap EXCEPT ![a] = greeting]
  BY DEF NewProducer, NewAddr, Unused
<1>2. /\ Greeted(k) /\ sock' = FreeSock(producer) /\ link' = FreeLink(producer)
      /\ producer_waiting_fds' = FALSE
      /\ producer_waiting_screen' = (stored_screen = NULL)
      /\ UNCHANGED <<consumer, deposit>>
  BY DEF NewProducer
<1>3. sent' \in [Conns -> Seq(Msgs)]
  BY PostType, MsgTypesOK DEF NewProducer, IInv, TypeOK
<1>4. /\ sock' \in [Fds -> Conns \cup {NULL}]
      /\ link' \in [Conns -> {"none", "backlog", "open", "closed"}]
      /\ heap' \in [Addr -> Fds \cup {NULL}]
      /\ SocketTable'
      /\ live' = {a, consumer} \ {NULL} /\ a # consumer
      /\ \A b \in live' : heap'[b] \in Fds /\ heap'[b] # greeting' /\ sock'[heap'[b]] # NULL
      /\ \A b, d \in live' : heap'[b] = heap'[d] => b = d
      /\ \A f \in Fds : sock'[f] # NULL => f = greeting' \/ \E b \in live' : f = heap'[b]
      /\ \A j \in Conns : link'[j] = "open" <=> \E f \in Fds : sock'[f] = j
  <2>1. producer # NULL => producer # consumer BY DEF IInv, ClientsOwnSockets
  <2>2. {consumer, producer} = {producer, consumer} OBVIOUS
  <2> QED BY <1>1, <1>2, <2>1, <2>2, ReplaceStep
<1>5. TypeOK'
  <2>1. /\ inq' \in [Conns -> Seq(Msgs)] /\ greeting' = NULL
        /\ UNCHANGED <<running, batch, backlog, peer, nmsgs, stored_screen>>
    BY <1>2, GreetedType
  <2>2. live' \subseteq Addr BY <1>1 DEF IInv, TypeOK
  <2> QED BY <1>1, <1>2, <1>3, <1>4, <2>1, <2>2 DEF IInv, TypeOK
<1>6. ClientsOwnSockets' BY <1>1, <1>2, <1>4 DEF ClientsOwnSockets
<1>7. stored_screen' = stored_screen BY <1>2, GreetedType
<1>8. NoLostFds' BY <1>2 DEF NoLostFds
<1>9. NoLostScreen' BY <1>1, <1>2, <1>7, NullAssumption DEF NoLostScreen
<1> QED BY <1>5, <1>6, <1>8, <1>9 DEF IInv

\* A connection without a proper greeting is closed.
LEMMA RejectStep == ASSUME IInv, RejectConnection PROVE IInv'
<1>1. /\ greeting # NULL /\ greeting' = NULL
      /\ link' = [link EXCEPT ![sock[greeting]] = "closed"]
      /\ sock' = [sock EXCEPT ![greeting] = NULL]
      /\ UNCHANGED <<running, consumer, producer, live, heap, stored_screen, deposit,
                     producer_waiting_screen, producer_waiting_fds, batch,
                     backlog, peer, inq, sent, nmsgs>>
  BY DEF RejectConnection
<1>2. /\ greeting \in Fds /\ sock[greeting] \in Conns /\ link[sock[greeting]] = "open"
      /\ \A f \in Fds : f # greeting => sock[f] # sock[greeting] /\ sock'[f] = sock[f]
      /\ sock'[greeting] = NULL
  BY <1>1 DEF IInv, TypeOK, ClientsOwnSockets, SocketTable
<1>3. TypeOK' BY <1>1, <1>2 DEF IInv, TypeOK
<1>4. SocketTable'
  <2>1. \A i \in 1..Len(backlog) : backlog[i] \in Conns /\ link[backlog[i]] = "backlog"
    BY DEF IInv, ClientsOwnSockets, SocketTable, TypeOK
  <2>2. \A i \in 1..Len(backlog) : link'[backlog[i]] = "backlog"
    BY <1>1, <1>2, <2>1 DEF IInv, TypeOK
  <2>3. \A f, g \in Fds : sock'[f] # NULL /\ sock'[f] = sock'[g] => f = g
    BY <1>2 DEF IInv, ClientsOwnSockets, SocketTable
  <2> QED BY <1>1, <2>2, <2>3 DEF IInv, ClientsOwnSockets, SocketTable
<1>5. ClientsOwnSockets'
  <2>1. \A a \in live : heap[a] \in Fds /\ heap[a] # greeting /\ sock'[heap[a]] = sock[heap[a]]
    BY <1>2 DEF IInv, ClientsOwnSockets
  <2>2. \A f \in Fds : sock'[f] # NULL => \E a \in live : f = heap[a]
    BY <1>2 DEF IInv, ClientsOwnSockets
  <2>3. \A k \in Conns : link'[k] = "open" <=> \E f \in Fds : sock'[f] = k
    <3> TAKE k \in Conns
    <3>1. CASE k = sock[greeting] BY <1>1, <1>2, <3>1, NullAssumption DEF IInv, TypeOK
    <3>2. CASE k # sock[greeting]
      <4>1. link'[k] = link[k] BY <1>1, <3>2 DEF IInv, TypeOK
      <4>2. \A f \in Fds : sock'[f] = k <=> sock[f] = k BY <1>2, <3>2, NullAssumption
      <4> QED BY <4>1, <4>2 DEF IInv, ClientsOwnSockets
    <3> QED BY <3>1, <3>2
  <2> QED BY <1>1, <1>4, <2>1, <2>2, <2>3, NullAssumption DEF IInv, ClientsOwnSockets
<1>6. NoLostFds'
  BY <1>1, <1>2 DEF IInv, ClientsOwnSockets, NoLostFds, ConnAt, Complete
<1>7. NoLostScreen' BY <1>1 DEF IInv, NoLostScreen
<1> QED BY <1>3, <1>5, <1>6, <1>7 DEF IInv

\* The end of main closes everything.
LEMMA ShutdownStep == ASSUME IInv, Shutdown PROVE IInv'
<1> USE DEF Shutdown
<1>1. deposit' \in [fds : 0..MAX_FDS, bundle : Bundles \cup {NULL}] BY DEF NoDeposit
<1>2. TypeOK'
  <2>1. /\ sock' \in [Fds -> Conns \cup {NULL}]
        /\ link' \in [Conns -> {"none", "backlog", "open", "closed"}]
        /\ backlog' \in Seq(Conns)
    BY DEF IInv, TypeOK
  <2> QED BY <1>1, <2>1 DEF IInv, TypeOK
<1>3. SocketTable' BY DEF IInv, ClientsOwnSockets, SocketTable
<1>4. ClientsOwnSockets' BY <1>3, NullAssumption DEF ClientsOwnSockets
<1> QED BY <1>2, <1>4 DEF IInv, NoLostFds, NoLostScreen

-----------------------------------------------------------------------------
\* Every step of the daemon and of its clients keeps the inductive invariant.
LEMMA NextIInv == ASSUME IInv, [Next]_vars PROVE IInv'
<1>1. CASE ClientStep
  BY <1>1, ConnectStep, SendStep, HangupStep DEF ClientStep
<1>2. CASE EpollWait BY <1>2, EpollWaitStep
<1>3. CASE AcceptConnection BY <1>3, AcceptStep
<1>4. CASE Greet BY <1>4, NewConsumerStep, NewProducerStep, RejectStep DEF Greet
<1>5. CASE ClientEvent
  BY <1>5, ClientHupStep, ClientGoneStep, OversizedStep, RedepositStep, ScreenInfoStep,
     PickupStep, IgnoredStep
  DEF ClientEvent
<1>6. CASE Shutdown BY <1>6, ShutdownStep
<1>7. CASE UNCHANGED vars
  <2> USE <1>7 DEF vars, daemonVars, socketVars
  <2>1. TypeOK' BY DEF IInv, TypeOK
  <2>2. ClientsOwnSockets' BY DEF IInv, ClientsOwnSockets, SocketTable
  <2>3. NoLostFds' /\ NoLostScreen' BY DEF IInv, NoLostFds, NoLostScreen, ConnAt, Complete
  <2> QED BY <2>1, <2>2, <2>3 DEF IInv
<1> QED BY <1>1, <1>2, <1>3, <1>4, <1>5, <1>6, <1>7 DEF Next, DaemonStep

(* The inductive invariant holds in every reachable state. *)
LEMMA SpecIInv == Spec => []IInv
BY InitIInv, NextIInv, PTL DEF Spec

(* Every variable of the daemon keeps its type: the deposit never holds more *)
(* descriptors than deposited_fds has room for.                              *)
THEOREM TypeCorrect == Spec => []TypeOK
<1>1. IInv => TypeOK BY DEF IInv
<1> QED BY <1>1, SpecIInv, PTL

(* The two client pointers own every block and every open descriptor:      *)
(* client_free, the replacement of a client and the reset on a screen      *)
(* change leave neither a leak nor a dangling pointer.                     *)
THEOREM SocketsOwned == Spec => []ClientsOwnSockets
<1>1. IInv => ClientsOwnSockets BY DEF IInv
<1> QED BY <1>1, SpecIInv, PTL

(* No lost wakeup: try_deliver_fds and the handlers that deposit a bundle    *)
(* never leave a reachable producer waiting for a bundle the daemon has.     *)
THEOREM FdsNotLost == Spec => []NoLostFds
<1>1. IInv => NoLostFds BY DEF IInv
<1> QED BY <1>1, SpecIInv, PTL

(* No lost wakeup: the SCREEN_INFO and PRODUCER_HELLO handlers leave a       *)
(* producer waiting for the screen only while none is stored.                *)
THEOREM ScreenNotLost == Spec => []NoLostScreen
<1>1. IInv => NoLostScreen BY DEF IInv
<1> QED BY <1>1, SpecIInv, PTL
=============================================================================
