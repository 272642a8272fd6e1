------------------------- MODULE DisplayLinkProofs -------------------------
(***************************************************************************)
(* Proofs about the display link, on top of the invariants of the daemon:  *)
(* the consumer leaves fallback only for a bundle that was taken, a frame  *)
(* is in one place, and the two programs implement FrameHandoff, whoever   *)
(* crashes, stops, times out or reconnects, and however often.             *)
(***************************************************************************)
EXTENDS DisplayLink, DisplayDaemonSentProofs, SequenceTheorems

-----------------------------------------------------------------------------
(* The daemon among the two programs. *)

\* A consumer says nothing that only a producer may say, so that the daemon never
\* takes its connection for the producer's; nothing was sent on an unused connection.
Roles ==
  /\ \A k \in Consumers : \A i \in DOMAIN inq[k] :
       inq[k][i].type \in {"CONSUMER_HELLO", "SCREEN_INFO"}
  /\ producer # NULL => ConnAt(producer) \notin Consumers
  /\ \A k \in Conns : link[k] = "none" => nmsgs[k] = 0

\* A message that names a bundle brings its descriptors.
Honest(m) == m.bundle # NULL => m.type = "FDS_READY" /\ m.fds > 0

\* Descriptors and the names of bundles go together, on the way to the daemon, on
\* deposit and on the way to a client.
Tagged ==
  /\ \A k \in Conns : \A i \in DOMAIN inq[k] : inq[k][i].bundle # NULL => inq[k][i].fds > 0
  /\ deposit.bundle # NULL => deposit.fds > 0
  /\ \A k \in Conns : \A i \in DOMAIN sent[k] : Honest(sent[k][i])

DaemonInv == IInv /\ ScreenInv /\ BundleInv /\ NoticeInv /\ Roles /\ Tagged

\* What a step of the link is to the daemon: a step of its own, ...
Serves == EpollWait \/ AcceptConnection \/ Greet \/ ClientEvent

\* ... a message of a client, ...
Queues(k, m) ==
  /\ inq' = [inq EXCEPT ![k] = Append(@, m)]
  /\ nmsgs' = [nmsgs EXCEPT ![k] = IF k \in Consumers THEN @ + 1 ELSE @]
  /\ UNCHANGED <<daemonVars, backlog, sock, link, peer, sent>>

LinkMsg(k, m) ==
  \/ k \in Consumers /\ (m = Hello(k) \/ \E s \in Screens : m = ScreenInfo(s))
  \/ k \in Producers /\ m \in {Plain("PRODUCER_HELLO"), Plain("PICKUP_FDS")}

\* ... or a client that closes its end.
Drops ==
  /\ peer' \in [Conns -> BOOLEAN]
  /\ \A k \in Conns : peer'[k] => peer[k]
  /\ UNCHANGED <<daemonVars, backlog, sock, link, inq, sent, nmsgs>>

\* The daemon's own steps and connects are steps of DisplayDaemon.
LEMMA ServesIsNext ==
  /\ Serves => Next
  /\ \A k \in Conns : Connect(k) => Next
BY DEF Serves, Next, DaemonStep, ClientStep

\* The daemon reads at most one message in a step, and sends none.
LEMMA ServesDrains ==
  ASSUME Serves
  PROVE  Drains /\ UNCHANGED <<nmsgs, peer>>
<1>1. ASSUME NEW k \in Conns, Greeted(k) PROVE Drains
  BY <1>1 DEF Greeted, Takes, Drains
<1>2. ASSUME NEW k \in Conns, NEW c, Reads(c, k) PROVE Drains
  BY <1>2 DEF Reads, Takes, Drains
<1>3. CASE EpollWait
  BY <1>3 DEF EpollWait, socketVars, Drains
<1>4. CASE AcceptConnection
  BY <1>4 DEF AcceptConnection, Drains
<1>5. CASE Greet
  BY <1>1, <1>5 DEF Greet, NewConsumer, NewProducer, Greeted, RejectConnection, Drains
<1>6. CASE ClientEvent
  BY <1>2, <1>6 DEF ClientEvent, ClientHup, ClientGone, ClientOversized, handle_disconnect,
     ClientRedeposit, ClientScreenInfo, ClientPickup, ClientIgnored, Drains
<1> QED BY <1>3, <1>4, <1>5, <1>6 DEF Serves

\* A connection is opened once and closed once.
LEMMA LinkGoesOn ==
  ASSUME IInv, Serves, NEW j \in Conns
  PROVE  /\ link'[j] = "none" <=> link[j] = "none"
         /\ link'[j] # "closed" => link[j] # "closed"
<1> USE DEF IInv, TypeOK
<1>0. ASSUME NEW k \in Conns, link[k] \in {"backlog", "open"}, NEW v \in {"open", "closed"},
             link' = [link EXCEPT ![k] = v]
      PROVE  /\ link'[j] = "none" <=> link[j] = "none"
             /\ link'[j] # "closed" => link[j] # "closed"
  BY <1>0
<1>1. ASSUME NEW a, a # NULL => ConnAt(a) \in Conns /\ link[ConnAt(a)] = "open", link' = FreeLink(a)
      PROVE  /\ link'[j] = "none" <=> link[j] = "none"
             /\ link'[j] # "closed" => link[j] # "closed"
  BY <1>1 DEF FreeLink
<1>2. /\ consumer # NULL => ConnAt(consumer) \in Conns /\ link[ConnAt(consumer)] = "open"
      /\ producer # NULL => ConnAt(producer) \in Conns /\ link[ConnAt(producer)] = "open"
  BY LiveConn DEF ClientsOwnSockets
<1>3. CASE EpollWait
  BY <1>3 DEF EpollWait, socketVars
<1>4. CASE AcceptConnection
  <2>1. backlog # <<>> /\ Head(backlog) \in Conns
    BY <1>4 DEF AcceptConnection
  <2>2. link[Head(backlog)] = "backlog"
    BY <2>1 DEF ClientsOwnSockets, SocketTable
  <2>3. link' = [link EXCEPT ![Head(backlog)] = "open"]
    BY <1>4 DEF AcceptConnection
  <2> QED BY <1>0, <2>1, <2>2, <2>3
<1>5. CASE RejectConnection
  <2>1. greeting # NULL /\ link' = [link EXCEPT ![sock[greeting]] = "closed"]
    BY <1>5 DEF RejectConnection
  <2> QED BY <1>0, <2>1, ClientConns
<1>6. CASE Greet
  BY <1>1, <1>2, <1>5, <1>6 DEF Greet, NewConsumer, NewProducer
<1>7. ASSUME NEW c, handle_disconnect(c)
      PROVE  /\ link'[j] = "none" <=> link[j] = "none"
             /\ link'[j] # "closed" => link[j] # "closed"
  <2>1. link' = link \/ (c \in {consumer, producer} /\ link' = FreeLink(c))
    BY <1>7 DEF handle_disconnect
  <2> QED BY <1>1, <1>2, <2>1
<1>8. CASE ClientEvent
  BY <1>1, <1>2, <1>7, <1>8 DEF ClientEvent, ClientHup, ClientGone, ClientOversized,
     ClientRedeposit, ClientScreenInfo, ClientPickup, ClientIgnored
<1> QED BY <1>3, <1>4, <1>6, <1>8 DEF Serves

-----------------------------------------------------------------------------
(* The daemon's invariants under the steps of the link. *)

\* A message of one of the two programs.
LEMMA LinkMsgShape ==
  ASSUME IInv, NEW k \in Conns, NEW m, LinkMsg(k, m), k \in Consumers => nmsgs[k] < MaxMsgs
  PROVE  /\ m \in Msgs
         /\ m.type = "SCREEN_INFO" => m.screen \in Screens
         /\ m.fds > 0 => k \in Consumers /\ m = Hello(k) /\ m.bundle = <<k, nmsgs[k] + 1>>
         /\ m.bundle # NULL => m.fds > 0
         /\ k \in Consumers => m.type \in {"CONSUMER_HELLO", "SCREEN_INFO"}
<1>0. ~(0 > 0) /\ 4 > 0 /\ 4 \in 0..MAX_FDS
  BY DEF MAX_FDS
<1>1. CASE k \in Consumers /\ m = Hello(k)
  <2>1. <<k, nmsgs[k] + 1>> \in Bundles
    BY <1>1, BoundAssumption DEF IInv, TypeOK, Bundles
  <2>2. m \in Msgs
    BY <1>0, <1>1, <2>1, MsgTypesOK DEF Hello, NewBundle, MsgTypes
  <2>3. m.type = "CONSUMER_HELLO" /\ m.fds = 4 /\ m.bundle = <<k, nmsgs[k] + 1>>
    BY <1>1 DEF Hello, NewBundle, WithFds
  <2> QED BY <1>0, <1>1, <2>2, <2>3
<1>2. ASSUME NEW s \in Screens, m = ScreenInfo(s), k \in Consumers
      PROVE  /\ m \in Msgs /\ m.type = "SCREEN_INFO" /\ m.screen = s /\ m.fds = 0 /\ m.bundle = NULL
  BY <1>2, MsgTypesOK DEF ScreenInfo
<1>3. ASSUME m \in {Plain("PRODUCER_HELLO"), Plain("PICKUP_FDS")}, k \in Producers
      PROVE  /\ m \in Msgs /\ m.type # "SCREEN_INFO" /\ m.fds = 0 /\ m.bundle = NULL
             /\ k \notin Consumers
  BY <1>3, MsgTypesOK, RolesAssumption DEF Plain, WithFds, MsgTypes
<1> QED BY <1>0, <1>1, <1>2, <1>3 DEF LinkMsg

\* A message keeps the types and the ownership of the daemon.
LEMMA QueuesIInv ==
  ASSUME IInv, NEW k \in Conns, NEW m \in Msgs, Queues(k, m), k \in Consumers => nmsgs[k] < MaxMsgs
  PROVE  IInv'
<1> USE DEF daemonVars, Queues
<1>1. inq' \in [Conns -> Seq(Msgs)]
  BY DEF IInv, TypeOK
<1>2. nmsgs' \in [Conns -> 0..MaxMsgs]
  BY BoundAssumption DEF IInv, TypeOK
<1>3. TypeOK'
  BY <1>1, <1>2 DEF IInv, TypeOK
<1>4. ClientsOwnSockets'
  BY DEF IInv, ClientsOwnSockets, SocketTable
<1>5. NoLostFds'
  BY DEF IInv, NoLostFds, ConnAt, Complete
<1>6. NoLostScreen'
  BY DEF IInv, NoLostScreen
<1> QED BY <1>3, <1>4, <1>5, <1>6 DEF IInv

\* So does a client that closes its end.
LEMMA DropsIInv == ASSUME IInv, Drops PROVE IInv'
<1> USE DEF daemonVars, Drops
<1>1. TypeOK'
  BY DEF IInv, TypeOK
<1>2. ClientsOwnSockets'
  BY DEF IInv, ClientsOwnSockets, SocketTable
<1>3. NoLostFds'
  BY LiveConn DEF IInv, TypeOK, ClientsOwnSockets, NoLostFds, ConnAt, Complete
<1>4. NoLostScreen'
  BY DEF IInv, NoLostScreen
<1> QED BY <1>1, <1>2, <1>3, <1>4 DEF IInv

\* Neither writes to a client: what was told, given and noticed stays.
LEMMA SilentStepsKeep ==
  ASSUME IInv, IInv', ScreenInv, NoticeInv, QueuedScreens',
         UNCHANGED <<daemonVars, sock, link, sent>>, \A k \in Conns : peer'[k] => peer[k]
  PROVE  ScreenInv' /\ NoticeInv' /\ Kept
<1>1. /\ UNCHANGED <<producer, consumer, heap, deposit, greeting, stored_screen,
                     producer_waiting_screen>>
      /\ UNCHANGED <<sock, link, sent>>
  BY DEF daemonVars
<1>2. SilentBeforeGreeting'
  BY <1>1 DEF ScreenInv, SilentBeforeGreeting
<1>3. Told(ConnAt(producer))' = Told(ConnAt(producer)) /\ ConnAt(producer)' = ConnAt(producer)
  BY <1>1 DEF Told, ConnAt
<1>4. producer # NULL => ConnAt(producer) \in Conns
  BY ClientConns
<1>5. NothingToTell'
  BY <1>1, <1>3 DEF ScreenInv, NothingToTell
<1>6. ScreenAgreement'
  <2> SUFFICES ASSUME producer # NULL
               PROVE  /\ Told(ConnAt(producer)) \subseteq {stored_screen}
                      /\ Told(ConnAt(producer)) = {} =>
                           producer_waiting_screen \/ ~peer'[ConnAt(producer)]
    BY <1>1, <1>3 DEF ScreenAgreement
  <2> QED BY <1>4 DEF ScreenInv, ScreenAgreement
<1>7. NoticeInv'
  BY <1>1 DEF NoticeInv, NoticeIsForOwnBundle, Own, Notices, Deliveries, BundleOf, Given, ConnAt
<1>8. Kept
  BY <1>1, LogOf DEF Kept
<1> QED BY <1>2, <1>5, <1>6, <1>7, <1>8 DEF ScreenInv

\* A message of one of the two programs keeps the daemon's invariants.
LEMMA QueuesDaemon ==
  ASSUME DaemonInv, NEW k \in Conns, NEW m, LinkMsg(k, m), Queues(k, m),
         k \in Consumers => nmsgs[k] < MaxMsgs, link[k] # "none"
  PROVE  DaemonInv'
<1>0. /\ m \in Msgs
      /\ m.type = "SCREEN_INFO" => m.screen \in Screens
      /\ m.fds > 0 => k \in Consumers /\ m.bundle = <<k, nmsgs[k] + 1>>
      /\ m.bundle # NULL => m.fds > 0
      /\ k \in Consumers => m.type \in {"CONSUMER_HELLO", "SCREEN_INFO"}
  BY LinkMsgShape DEF DaemonInv
<1>1. IInv'
  BY <1>0, QueuesIInv DEF DaemonInv
<1>2. /\ \A j \in Conns : j # k => inq'[j] = inq[j]
      /\ \A i \in DOMAIN inq'[k] : (i \in DOMAIN inq[k] /\ inq'[k][i] = inq[k][i]) \/ inq'[k][i] = m
  BY <1>0, QueueEffect DEF DaemonInv, IInv, Queues
<1>3. QueuedScreens'
  BY <1>0, <1>2 DEF DaemonInv, ScreenInv, QueuedScreens
<1>4. /\ UNCHANGED <<daemonVars, sock, link, sent, peer>>
      /\ UNCHANGED <<producer, heap, deposit>>
  BY DEF Queues, daemonVars
<1>5. ScreenInv' /\ NoticeInv' /\ Kept
  BY <1>1, <1>3, <1>4, SilentStepsKeep DEF DaemonInv
<1>6. /\ nmsgs'[k] = IF k \in Consumers THEN nmsgs[k] + 1 ELSE nmsgs[k]
      /\ \A j \in Conns : nmsgs[j] \in Nat /\ (j # k => nmsgs'[j] = nmsgs[j])
  BY BoundAssumption DEF Queues, DaemonInv, IInv, TypeOK
<1>7. \A j \in Conns : nmsgs[j] <= nmsgs'[j]
  BY <1>6
<1>8. BundleInv'
  BY <1>0, <1>1, <1>4, <1>5, <1>6, <1>7, QueueBundles DEF DaemonInv, Queues
<1>9. Roles'
  <2>1. ASSUME NEW j \in Consumers, NEW i \in DOMAIN inq'[j]
        PROVE  inq'[j][i].type \in {"CONSUMER_HELLO", "SCREEN_INFO"}
    BY <1>0, <1>2 DEF DaemonInv, Roles, Conns
  <2>2. producer' # NULL => ConnAt(producer)' \notin Consumers
    BY <1>4 DEF DaemonInv, Roles, ConnAt
  <2>3. \A j \in Conns : link'[j] = "none" => nmsgs'[j] = 0
    BY <1>4, <1>6 DEF DaemonInv, Roles
  <2> QED BY <2>1, <2>2, <2>3 DEF Roles
<1>10. Tagged'
  <2>1. \A j \in Conns : \A i \in DOMAIN inq'[j] : inq'[j][i].bundle # NULL => inq'[j][i].fds > 0
    BY <1>0, <1>2 DEF DaemonInv, Tagged
  <2> QED BY <1>4, <2>1 DEF DaemonInv, Tagged
<1> QED BY <1>1, <1>5, <1>8, <1>9, <1>10 DEF DaemonInv

\* So does a step that leaves the sockets alone or closes an end.
LEMMA DropsDaemon ==
  ASSUME DaemonInv, Drops \/ UNCHANGED vars
  PROVE  DaemonInv'
<1>1. IInv'
  BY DropsIInv, NextIInv DEF DaemonInv
<1>2. /\ UNCHANGED <<daemonVars, sock, link, sent>> /\ \A k \in Conns : peer'[k] => peer[k]
      /\ UNCHANGED <<producer, consumer, heap, deposit, inq, nmsgs>>
  BY DEF Drops, daemonVars, vars, socketVars
<1>3. QueuedScreens'
  BY <1>2 DEF DaemonInv, ScreenInv, QueuedScreens
<1>4. ScreenInv' /\ NoticeInv'
  BY <1>1, <1>2, <1>3, SilentStepsKeep DEF DaemonInv
<1>5. BundleInv'
  BY <1>2 DEF DaemonInv, BundleInv, InOrder, Older, BundlesInOrder, Unspent, Deliveries,
     BundleOf, Given
<1>6. Roles' /\ Tagged'
  BY <1>2 DEF DaemonInv, Roles, Tagged, ConnAt
<1> QED BY <1>1, <1>4, <1>5, <1>6 DEF DaemonInv

\* What is appended to a log of honest messages is honest.
LEMMA PostHonest ==
  ASSUME NEW log \in [Conns -> Seq(Msgs)], NEW k \in Conns, NEW m \in Msgs, Honest(m),
         \A j \in Conns : \A i \in DOMAIN log[j] : Honest(log[j][i])
  PROVE  /\ Post(log, k, m) \in [Conns -> Seq(Msgs)]
         /\ \A j \in Conns : \A i \in DOMAIN Post(log, k, m)[j] : Honest(Post(log, k, m)[j][i])
<1>1. Post(log, k, m) \in [Conns -> Seq(Msgs)]
  BY PostType
<1>2. CASE ~peer[k]
  BY <1>1, <1>2 DEF Post
<1>3. CASE peer[k]
  <2>1. Post(log, k, m) = [log EXCEPT ![k] = Append(log[k], m)]
    BY <1>3 DEF Post
  <2>2. log[k] \in Seq(Msgs)
    OBVIOUS
  <2>3. \A i \in DOMAIN Append(log[k], m) :
          (i \in DOMAIN log[k] /\ Append(log[k], m)[i] = log[k][i]) \/ Append(log[k], m)[i] = m
    BY <2>2
  <2>4. ASSUME NEW j \in Conns, NEW i \in DOMAIN Post(log, k, m)[j]
        PROVE  Honest(Post(log, k, m)[j][i])
    <3>1. CASE j # k
      BY <2>1, <3>1
    <3>2. CASE j = k
      <4>1. Post(log, k, m)[j] = Append(log[k], m)
        BY <2>1, <3>2
      <4>2. Post(log, k, m)[j][i] = m \/ (i \in DOMAIN log[k] /\ Post(log, k, m)[j][i] = log[k][i])
        BY <2>3, <4>1
      <4> QED BY <4>2
    <3> QED BY <3>1, <3>2
  <2> QED BY <1>1, <2>4
<1> QED BY <1>2, <1>3

\* The daemon names a bundle only where it sends it.
LEMMA WritesHonestly ==
  ASSUME IInv, IInv', Next, \A j \in Conns : \A i \in DOMAIN sent[j] : Honest(sent[j][i])
  PROVE  \A j \in Conns : \A i \in DOMAIN sent'[j] : Honest(sent'[j][i])
<1> DEFINE Goal == \A j \in Conns : \A i \in DOMAIN sent'[j] : Honest(sent'[j][i])
<1>0. sent \in [Conns -> Seq(Msgs)]
  BY DEF IInv, TypeOK
<1>1. CASE sent' = sent
  BY <1>1
<1>2. ASSUME NEW k \in Conns, NEW s \in Screens \cup {NULL}, sent' = Post(sent, k, ScreenInfo(s))
      PROVE  Goal
  <2>1. ScreenInfo(s) \in Msgs /\ Honest(ScreenInfo(s))
    BY MsgTypesOK DEF ScreenInfo, Honest
  <2>2. \A j \in Conns : \A i \in DOMAIN Post(sent, k, ScreenInfo(s))[j] :
          Honest(Post(sent, k, ScreenInfo(s))[j][i])
    BY <1>0, <2>1, PostHonest
  <2> QED BY <1>2, <2>2
<1>3. ASSUME NEW d \in DepositType, NEW n \in Conns \cup {NULL}, Delivery(d, n) PROVE Goal
  <2> DEFINE M == WithFds("FDS_READY", d.fds, d.bundle)
             mid == Post(sent, ConnAt(producer), M)
  <2>1. ConnAt(producer) \in Conns
    BY <1>3, ClientConns DEF Delivery, Delivers
  <2>2. M \in Msgs
    BY MsgTypesOK DEF MsgTypes, DepositType
  <2>3. Honest(M)
    BY <1>3 DEF Honest, WithFds, Delivery, Delivers, Complete, DepositType
  <2>4. /\ mid \in [Conns -> Seq(Msgs)]
        /\ \A j \in Conns : \A i \in DOMAIN mid[j] : Honest(mid[j][i])
    BY <1>0, <2>1, <2>2, <2>3, PostHonest
  <2>5. sent' = Notify(mid, n)
    BY <1>3 DEF Delivery, Delivers
  <2> HIDE DEF mid
  <2>6. Plain("FDS_READY") \in Msgs /\ Honest(Plain("FDS_READY"))
    BY MsgTypesOK DEF MsgTypes, Honest, Plain, WithFds
  <2>7. n \in Conns => \A j \in Conns : \A i \in DOMAIN Post(mid, n, Plain("FDS_READY"))[j] :
          Honest(Post(mid, n, Plain("FDS_READY"))[j][i])
    BY <2>4, <2>6, PostHonest
  <2>8. CASE n = NULL
    BY <2>4, <2>5, <2>8 DEF Notify
  <2>9. CASE n \in Conns /\ n # NULL
    <3>1. sent' = Post(mid, n, Plain("FDS_READY"))
      BY <2>5, <2>9 DEF Notify
    <3> QED BY <2>7, <2>9, <3>1
  <2> QED BY <2>8, <2>9
<1>4. ASSUME NEW k \in Conns, NewProducer(k) PROVE Goal
  <2>1. sent' = sent \/ (/\ stored_screen \in Screens \cup {NULL}
                         /\ sent' = Post(sent, k, ScreenInfo(stored_screen)))
    BY <1>4 DEF NewProducer, IInv, TypeOK
  <2> QED BY <1>1, <1>2, <2>1
<1>5. ASSUME NEW k \in Conns, NEW c \in Addr, ClientScreenInfo(c, k) PROVE Goal
  <2>1. Takes(k)
    BY <1>5 DEF ClientScreenInfo, Reads, Takes
  <2>2. Msg(k).screen \in Screens \cup {NULL}
    BY <2>1, TakeEffect DEF IInv, Msgs
  <2>3. sent' = sent \/ (/\ ConnAt(producer) \in Conns
                         /\ sent' = Post(sent, ConnAt(producer), ScreenInfo(Msg(k).screen)))
    BY <1>5, ClientConns DEF ClientScreenInfo
  <2> QED BY <1>1, <1>2, <2>2, <2>3
<1> QED BY <1>1, <1>3, <1>4, <1>5, Moves DEF Quiet, Send, Deposits

\* Where a deposit comes from.
LEMMA DepositSource ==
  ASSUME IInv, IInv', Next
  PROVE  \/ deposit' \in {deposit, NoDeposit}
         \/ \E k \in Conns : Takes(k) /\ deposit' = Carried(Msg(k)) /\ sent' = sent
<1>1. ASSUME NEW k \in Conns, NEW m, Send(k, m) PROVE deposit' = deposit
  BY <1>1 DEF Send, daemonVars
<1>2. ASSUME NEW k \in Conns, NewProducer(k) PROVE deposit' = deposit
  BY <1>2 DEF NewProducer
<1>3. ASSUME NEW k \in Conns, NEW c, ClientScreenInfo(c, k) PROVE deposit' = deposit
  BY <1>3 DEF ClientScreenInfo
<1> QED BY <1>1, <1>2, <1>3, Moves DEF Quiet, Deposits, Delivery

\* A step of the daemon and a connect keep the daemon's invariants, with both programs
\* in their roles.
LEMMA ServesDaemon ==
  ASSUME DaemonInv, Serves \/ \E k \in Conns : Connect(k)
  PROVE  DaemonInv'
<1>0. IInv /\ Next
  BY ServesIsNext DEF DaemonInv
<1>1. IInv'
  BY <1>0, NextIInv
<1>2. ScreenInv' /\ BundleInv' /\ NoticeInv'
  BY <1>0, <1>1, ScreenStep, BundleStep DEF DaemonInv
<1>3. Drains /\ nmsgs' = nmsgs
  <2>1. ASSUME NEW k \in Conns, Connect(k) PROVE Drains /\ nmsgs' = nmsgs
    BY <2>1 DEF Connect, Drains
  <2> QED BY <2>1, ServesDrains
<1>4. \A j \in Conns : \A i \in DOMAIN inq'[j] :
        \E h \in DOMAIN inq[j] : inq'[j][i] = inq[j][h]
  <2> SUFFICES ASSUME NEW j \in Conns, NEW i \in DOMAIN inq'[j]
               PROVE  \E h \in DOMAIN inq[j] : inq'[j][i] = inq[j][h]
    OBVIOUS
  <2>1. PICK s \in {0, 1} : i + s \in DOMAIN inq[j] /\ inq'[j][i] = inq[j][i + s]
    BY <1>3, DrainEffect DEF DaemonInv, IInv
  <2> QED BY <2>1
<1>5. Roles'
  <2>1. \A j \in Consumers : \A i \in DOMAIN inq'[j] :
          inq'[j][i].type \in {"CONSUMER_HELLO", "SCREEN_INFO"}
    BY <1>4 DEF DaemonInv, Roles, Conns
  <2>2. producer' # NULL => ConnAt(producer)' \notin Consumers
    <3>1. ASSUME NEW k \in Conns, NewProducer(k) PROVE k \notin Consumers
      <4>1. Takes(k) /\ Msg(k).type = "PRODUCER_HELLO"
        BY <3>1 DEF NewProducer, Greeted, Takes
      <4>2. 1 \in DOMAIN inq[k] /\ Msg(k) = inq[k][1]
        BY <4>1, TakeEffect DEF DaemonInv, IInv
      <4> QED BY <4>1, <4>2 DEF DaemonInv, Roles
    <3> QED BY <1>0, <1>1, <3>1, ProducerMoves DEF DaemonInv, Roles
  <2>3. \A j \in Conns : link'[j] = "none" => nmsgs'[j] = 0
    <3>1. ASSUME NEW k \in Conns, Connect(k), NEW j \in Conns, link'[j] = "none"
          PROVE  link[j] = "none"
      BY <3>1 DEF Connect, DaemonInv, IInv, TypeOK
    <3>2. ASSUME Serves, NEW j \in Conns, link'[j] = "none"
          PROVE  link[j] = "none"
      BY <1>0, <3>2, LinkGoesOn
    <3> QED BY <1>3, <3>1, <3>2 DEF DaemonInv, Roles
  <2> QED BY <2>1, <2>2, <2>3 DEF Roles
<1>6. Tagged'
  <2>1. \A j \in Conns : \A i \in DOMAIN inq'[j] : inq'[j][i].bundle # NULL => inq'[j][i].fds > 0
    BY <1>4 DEF DaemonInv, Tagged
  <2>2. deposit'.bundle # NULL => deposit'.fds > 0
    <3>1. NoDeposit.bundle = NULL
      BY DEF NoDeposit
    <3>2. ASSUME NEW k \in Conns, Takes(k), Carried(Msg(k)).bundle # NULL
          PROVE  Carried(Msg(k)).fds > 0
      <4>1. Msg(k) \in Msgs
        BY <3>2, TakeEffect DEF DaemonInv, IInv
      <4> QED BY <3>2, <4>1 DEF Carried, Msgs, MAX_FDS
    <3> QED BY <1>0, <1>1, <3>1, <3>2, DepositSource DEF DaemonInv, Tagged
  <2>3. \A j \in Conns : \A i \in DOMAIN sent'[j] : Honest(sent'[j][i])
    BY <1>0, <1>1, WritesHonestly DEF DaemonInv, Tagged
  <2> QED BY <2>1, <2>2, <2>3 DEF Tagged, Honest
<1> QED BY <1>1, <1>2, <1>5, <1>6 DEF DaemonInv

-----------------------------------------------------------------------------
(* Where the two programs are, and what they hold there. *)

\* The bundle b was handed to a producer.
Delivered(b) == \E d \in Deliveries : BundleOf(d) = b

\* The consumer has a connection from do_connect on and a bundle from the greeting
\* on, its own; only a context with both can be out of fallback, and only the wait
\* for a frame has one pending.
ConsumerCtl ==
  /\ c_conn # NULL => link[c_conn] # "none"
  /\ c_pc \in {"off", "connect"} => c_conn = NULL
  /\ c_pc \in {"hello", "screen", "draw", "push", "select", "await"} => c_conn # NULL
  /\ c_pc = "top" /\ c_conn = NULL => need_reconnect
  /\ c_bundle = NULL <=> c_conn = NULL \/ c_pc = "hello"
  /\ c_bundle # NULL => c_bundle[1] = c_conn
  /\ ~c_fallback => c_bundle # NULL /\ c_pc \in {"top", "draw", "push", "select", "await"}
  /\ c_pending => c_pc = "await" /\ ~c_fallback

\* What the consumer has sent on its connection: each fallback asks for a reconnect,
\* so that a third one finds no context to happen in.
Budget ==
  /\ c_pc = "hello" => nmsgs[c_conn] = 0
  /\ c_pc = "screen" => nmsgs[c_conn] <= 1
  /\ c_conn # NULL /\ c_pc \in {"top", "draw", "push", "select", "await"} =>
       \/ nmsgs[c_conn] <= 2
       \/ need_reconnect /\ nmsgs[c_conn] <= 3 /\ (c_fallback \/ c_pc # "draw")
       \/ need_reconnect /\ c_fallback /\ c_pc # "draw"

\* The producer keeps its connection while it runs; its bundle is one that it was
\* given, and goes with the fallback, and the buffers go with the bundle.
ProducerCtl ==
  /\ p_pc = "off" <=> p_conn = NULL
  /\ p_conn # NULL => peer[p_conn] /\ link[p_conn] # "none"
  /\ p_pc # "run" => p_fallback
  /\ p_fallback <=> p_bundle = NULL
  /\ p_fallback => ~p_bufs
  /\ p_ready => p_bufs
  /\ p_bundle # NULL => Delivered(p_bundle)

CtlInv == LinkTypeOK /\ ConsumerCtl /\ Budget /\ ProducerCtl

\* A connection is of one kind and is not NULL.
LEMMA ConnKinds ==
  /\ \A k \in Consumers : k \in Conns /\ k \notin Producers /\ k # NULL
  /\ \A k \in Producers : k \in Conns /\ k \notin Consumers /\ k # NULL
BY RolesAssumption, NullAssumption DEF Conns

\* A request is queued, or goes nowhere.
LEMMA RequestCases ==
  ASSUME NEW k, NEW m, Request(k, m)
  PROVE  \/ Linked(k) /\ Queues(k, m)
         \/ ~Linked(k) /\ UNCHANGED vars
BY DEF Request, Queues

\* There is room for another bundle whenever the library makes one.
LEMMA RoomForBundle ==
  ASSUME CtlInv, IInv, c_pc = "hello" \/ ~c_fallback
  PROVE  /\ c_conn \in Consumers /\ nmsgs[c_conn] \in Nat
         /\ c_pc = "hello" => nmsgs[c_conn] = 0
         /\ nmsgs[c_conn] < 4 /\ nmsgs[c_conn] < MaxMsgs
         /\ NewBundle(c_conn) \in Bundles /\ NewBundle(c_conn) # NULL
         /\ NewBundle(c_conn)[1] = c_conn /\ NewBundle(c_conn)[2] = nmsgs[c_conn] + 1
<1>1. c_conn \in Consumers /\ c_conn \in Conns
  BY ConnKinds DEF CtlInv, LinkTypeOK, ConsumerCtl
<1>2. nmsgs[c_conn] \in Nat
  BY <1>1, BoundAssumption DEF IInv, TypeOK
<1>3. nmsgs[c_conn] < 4 /\ (c_pc = "hello" => nmsgs[c_conn] = 0)
  BY <1>1, <1>2, ConnKinds DEF CtlInv, ConsumerCtl, Budget
<1>4. nmsgs[c_conn] < MaxMsgs
  BY <1>2, <1>3, LinkAssumption, BoundAssumption
<1>5. NewBundle(c_conn) \in Bundles
  BY <1>1, <1>2, <1>4, BoundAssumption DEF NewBundle, Bundles
<1>6. NewBundle(c_conn)[1] = c_conn /\ NewBundle(c_conn)[2] = nmsgs[c_conn] + 1
  BY DEF NewBundle
<1> QED BY <1>1, <1>2, <1>3, <1>4, <1>5, <1>6, NullAssumption

\* What the steps of the link are to the daemon.
LEMMA LinkKinds ==
  ASSUME CtlInv, IInv, LinkNext
  PROVE  \/ UNCHANGED vars
         \/ Drops
         \/ Serves
         \/ \E k \in Conns : Connect(k)
         \/ \E k \in Conns : \E m :
              /\ LinkMsg(k, m) /\ Queues(k, m) /\ link[k] # "none"
              /\ k \in Consumers => nmsgs[k] < MaxMsgs
<1> DEFINE Goal == \/ UNCHANGED vars
                   \/ \E k \in Conns : \E m :
                        /\ LinkMsg(k, m) /\ Queues(k, m) /\ link[k] # "none"
                        /\ k \in Consumers => nmsgs[k] < MaxMsgs
<1>0. c_conn # NULL => c_conn \in Consumers /\ c_conn \in Conns /\ nmsgs[c_conn] \in Nat
  BY ConnKinds, BoundAssumption DEF CtlInv, LinkTypeOK, IInv, TypeOK
<1>1. ASSUME NEW k \in Conns, NEW m, LinkMsg(k, m), Request(k, m), k \in Consumers => nmsgs[k] < MaxMsgs
      PROVE  Goal
  <2>1. Linked(k) => link[k] # "none"
    BY DEF Linked
  <2> QED BY <1>1, <2>1, RequestCases
<1>2. ASSUME Request(c_conn, Hello(c_conn)), c_pc = "hello" \/ ~c_fallback PROVE Goal
  BY <1>1, <1>2, RoomForBundle, ConnKinds DEF LinkMsg
<1>3. ASSUME CScreen PROVE Goal
  <2>1. PICK s \in Screens : Request(c_conn, ScreenInfo(s))
    BY <1>3 DEF CScreen
  <2>2. c_conn # NULL /\ nmsgs[c_conn] <= 1
    BY <1>3 DEF CScreen, CtlInv, ConsumerCtl, Budget
  <2>3. nmsgs[c_conn] < MaxMsgs
    BY <1>0, <2>2, LinkAssumption, BoundAssumption
  <2> QED BY <1>0, <1>1, <2>1, <2>2, <2>3 DEF LinkMsg
<1>4. ASSUME p_pc # "off", NEW m \in {Plain("PRODUCER_HELLO"), Plain("PICKUP_FDS")},
             Request(p_conn, m)
      PROVE  Goal
  <2>1. p_conn \in Producers /\ p_conn \in Conns /\ p_conn \notin Consumers
    BY <1>4, ConnKinds DEF CtlInv, LinkTypeOK, ProducerCtl
  <2> QED BY <1>1, <1>4, <2>1 DEF LinkMsg
<1>5. DropContext => Drops
  <2>1. peer \in [Conns -> BOOLEAN]
    BY DEF IInv, TypeOK
  <2> QED BY <2>1 DEF DropContext, Drops
<1>6. CTop => Goal \/ Drops
  BY <1>5 DEF CTop
<1>7. CConnect \/ PStart => \E k \in Conns : Connect(k)
  BY ConnKinds DEF CConnect, PStart, Fresh
<1>8. CHello => Goal
  BY <1>2 DEF CHello
<1>9. CExitFallback \/ CPush \/ CSelect \/ CRefreshDone \/ CStart => UNCHANGED vars
  BY DEF CExitFallback, CPush, CSelect, CRefreshDone, CStart
<1>10. enter_fallback => Goal
  BY <1>2 DEF enter_fallback
<1>11. CHangup \/ CAppHangup => Goal
  BY <1>10 DEF CHangup, CAppHangup
<1>12. PHello \/ PPickup \/ PRetry => Goal
  BY <1>4 DEF PHello, PPickup, PRetry
<1>13. PScreen \/ PTake \/ PReconnect \/ PTimeout \/ PRefused \/ PBufReady \/ PRepaint => UNCHANGED vars
  BY DEF PScreen, PTake, PReconnect, TakeFds, PTimeout, PRefused, PBufReady, PRepaint
<1>14. PFirstBuffer \/ PInput \/ PWindowEvent => UNCHANGED vars
  BY DEF PFirstBuffer, receive_dmabufs, EnterFallback, PInput, poll_display_event, PWindowEvent
<1>15. CWake \/ CSetSocketPath \/ CInput => UNCHANGED vars
  BY DEF CWake, CSetSocketPath, CInput
<1>16. CCrash => Drops
  BY <1>5 DEF CCrash
<1>17. PCrash => Drops
  <2>1. peer \in [Conns -> BOOLEAN]
    BY DEF IInv, TypeOK
  <2> QED BY <2>1 DEF PCrash, Drops
<1>18. ConsumerRuns => Goal \/ Drops \/ \E k \in Conns : Connect(k)
  BY <1>3, <1>6, <1>7, <1>8, <1>9, <1>11 DEF ConsumerRuns
<1>19. ProducerRuns => Goal
  BY <1>12, <1>13, <1>14 DEF ProducerRuns
<1>20. Disturb => Goal \/ Drops
  BY <1>14, <1>15, <1>16, <1>17 DEF Disturb
<1> QED BY <1>7, <1>9, <1>11, <1>18, <1>19, <1>20 DEF LinkNext, DaemonServes, Serves

\* So they keep the daemon's invariants.
LEMMA DaemonKept == ASSUME CtlInv, DaemonInv, [LinkNext]_linkVars PROVE DaemonInv'
<1>1. CASE UNCHANGED linkVars
  <2>1. UNCHANGED vars
    BY <1>1 DEF linkVars
  <2> QED BY <2>1, DropsDaemon
<1>2. CASE LinkNext
  BY <1>2, LinkKinds, DropsDaemon, ServesDaemon, QueuesDaemon DEF DaemonInv
<1> QED BY <1>1, <1>2

\* The type invariant by program.
ConsumerTypes ==
  /\ c_pc \in {"off", "top", "connect", "hello", "screen", "draw", "push", "select", "await"}
  /\ c_conn \in Consumers \cup {NULL} /\ c_bundle \in Bundles \cup {NULL}
  /\ c_fallback \in BOOLEAN /\ c_pending \in BOOLEAN /\ c_running \in BOOLEAN
  /\ need_reconnect \in BOOLEAN /\ c_read \in Nat
ProducerTypes ==
  /\ p_pc \in {"off", "hello", "screen", "pickup", "take", "run", "retry"}
  /\ p_conn \in Producers \cup {NULL} /\ p_bundle \in Bundles \cup {NULL}
  /\ p_fallback \in BOOLEAN /\ p_bufs \in BOOLEAN /\ p_ready \in BOOLEAN
  /\ p_again \in BOOLEAN /\ p_read \in Nat
ObjectTypes ==
  /\ buf_ready \in [Bundles -> BOOLEAN]
  /\ refresh \in [Bundles -> BOOLEAN]
  /\ data \in [Bundles -> Seq({"BUFS_READY", "INPUT_EVENT"})]

\* They say what LinkTypeOK says.
LEMMA LinkTypesSplit ==
  LinkTypeOK <=> ConsumerTypes /\ ProducerTypes /\ ObjectTypes /\ events \in 0..MaxEvents
BY DEF LinkTypeOK, ConsumerTypes, ProducerTypes, ObjectTypes

\* The next message that a client has not read.
LEMMA UnreadHead ==
  ASSUME IInv, NEW k \in Conns, NEW n \in Nat
  PROVE  /\ Len(sent[k]) \in Nat
         /\ Unread(k, n) # <<>> <=> n < Len(sent[k])
         /\ Unread(k, n) # <<>> => n + 1 \in DOMAIN sent[k] /\ Head(Unread(k, n)) = sent[k][n + 1]
<1>1. sent[k] \in Seq(Msgs)
  BY DEF IInv, TypeOK
<1> PICK q \in Seq(Msgs) : q = sent[k]
  BY <1>1
<1>2. /\ Len(q) \in Nat
      /\ SubSeq(q, n + 1, Len(q)) # <<>> <=> n < Len(q)
      /\ n < Len(q) => n + 1 \in DOMAIN q /\ Head(SubSeq(q, n + 1, Len(q))) = q[n + 1]
  <2>1. Len(q) \in Nat /\ DOMAIN q = 1..Len(q) /\ n + 1 \in Int /\ Len(q) \in Int
    OBVIOUS
  <2>2. CASE n < Len(q)
    <3>1. n + 1 \in 1..Len(q) /\ Len(q) \in (n + 1)..Len(q)
      BY <2>1, <2>2
    <3>2. Head(SubSeq(q, n + 1, Len(q))) = q[n + 1]
      BY <3>1, HeadTailOfSubSeq
    <3>3. \A i \in (n + 1)..Len(q) : q[i] \in Msgs
      BY <2>1
    <3>4. Len(SubSeq(q, n + 1, Len(q))) = IF n + 1 <= Len(q) THEN Len(q) - (n + 1) + 1 ELSE 0
      BY <2>1, <3>3, SubSeqProperties
    <3>5. Len(SubSeq(q, n + 1, Len(q))) # 0
      BY <2>1, <2>2, <3>4
    <3> QED BY <2>1, <2>2, <3>1, <3>2, <3>5
  <2>3. CASE ~(n < Len(q))
    <3>1. Len(q) < n + 1
      BY <2>1, <2>3
    <3>2. SubSeq(q, n + 1, Len(q)) = <<>>
      BY <2>1, <3>1, SubSeqEmpty
    <3> QED BY <2>1, <2>3, <3>2
  <2> QED BY <2>2, <2>3
<1> QED BY <1>2 DEF Unread

\* try_exit_fallback finds nothing, reads something else, or ends the fallback.
LEMMA ExitCases ==
  ASSUME CtlInv, IInv, CExitFallback
  PROVE  /\ c_pc = "draw" /\ c_fallback /\ c_conn \in Consumers /\ c_conn \in Conns
         /\ \/ c_pc' = "top" /\ c_fallback' = c_fallback /\ c_read' = c_read
            \/ c_pc' = "top" /\ c_fallback' /\ c_read' = c_read + 1 /\ c_read < Len(sent[c_conn])
            \/ c_pc' = "push" /\ ~c_fallback' /\ c_read' = c_read + 1 /\ c_read < Len(sent[c_conn])
         /\ c_fallback' \in BOOLEAN
<1>1. c_pc = "draw" /\ c_fallback /\ c_conn \in Consumers /\ c_conn \in Conns /\ c_read \in Nat
  BY ConnKinds DEF CExitFallback, CtlInv, LinkTypeOK, ConsumerCtl
<1>2. CASE Unread(c_conn, c_read) = <<>>
  <2>1. c_pc' = "top" /\ c_fallback' = c_fallback /\ c_read' = c_read
    BY <1>2 DEF CExitFallback
  <2>2. c_fallback \in BOOLEAN
    BY DEF CtlInv, LinkTypeOK
  <2> QED BY <1>1, <2>1, <2>2
<1>3. CASE Unread(c_conn, c_read) # <<>>
  <2>1. /\ c_read' = c_read + 1
        /\ c_fallback' = (Head(Unread(c_conn, c_read)).type # "FDS_READY")
        /\ c_pc' = IF c_fallback' THEN "top" ELSE "push"
    BY <1>3 DEF CExitFallback
  <2>2. c_fallback' \in BOOLEAN
    BY <2>1
  <2>3. c_read < Len(sent[c_conn])
    BY <1>1, <1>3, UnreadHead
  <2> QED BY <1>1, <2>1, <2>2, <2>3
<1> QED BY <1>2, <1>3

\* The steps of the daemon and the producer do not touch the consumer, nor what it
\* has sent.
LEMMA ProducerAlone ==
  ASSUME CtlInv, IInv, PStart \/ ProducerRuns \/ PCrash \/ PWindowEvent
  PROVE  UNCHANGED consumerVars /\ nmsgs' = nmsgs
<1>0. nmsgs \in [Conns -> 0..MaxMsgs]
  BY DEF IInv, TypeOK
<1>1. ASSUME NEW m, p_pc # "off", Request(p_conn, m) PROVE nmsgs' = nmsgs
  <2>1. p_conn \notin Consumers
    BY <1>1, ConnKinds DEF CtlInv, LinkTypeOK, ProducerCtl
  <2> QED BY <1>0, <1>1, <2>1, RequestCases DEF Queues, vars, socketVars
<1>2. PHello \/ PPickup \/ PRetry => UNCHANGED consumerVars /\ nmsgs' = nmsgs
  BY <1>1 DEF PHello, PPickup, PRetry
<1>3. PScreen \/ PTake \/ PReconnect \/ PTimeout \/ PRefused \/ PBufReady \/ PRepaint
        => UNCHANGED consumerVars /\ nmsgs' = nmsgs
  BY DEF PScreen, PTake, PReconnect, TakeFds, PTimeout, PRefused, PBufReady, PRepaint, vars,
     socketVars
<1>4. PFirstBuffer \/ PInput \/ PWindowEvent => UNCHANGED consumerVars /\ nmsgs' = nmsgs
  BY DEF PFirstBuffer, receive_dmabufs, EnterFallback, PInput, poll_display_event, PWindowEvent,
     vars, socketVars
<1>5. PStart => UNCHANGED consumerVars /\ nmsgs' = nmsgs
  BY DEF PStart, Connect
<1>6. PCrash => UNCHANGED consumerVars /\ nmsgs' = nmsgs
  BY DEF PCrash
<1> QED BY <1>2, <1>3, <1>4, <1>5, <1>6 DEF ProducerRuns

\* Steps that go on: connections stay in use and closed ones closed, the count of
\* messages grows, and what was delivered stays so.
LEMMA LinkGrows ==
  ASSUME CtlInv, DaemonInv, LinkNext
  PROVE  /\ \A k \in Conns : link[k] # "none" => link'[k] # "none"
         /\ \A k \in Conns : link'[k] # "closed" => link[k] # "closed"
         /\ \A k \in Conns : nmsgs[k] \in Nat /\ nmsgs'[k] \in Nat /\ nmsgs[k] <= nmsgs'[k]
         /\ Deliveries \subseteq Deliveries' /\ \A d \in Deliveries : BundleOf(d)' = BundleOf(d)
         /\ \A b : Delivered(b) => Delivered(b)'
<1>0. IInv /\ IInv' /\ DaemonInv'
  BY DaemonKept DEF DaemonInv
<1>1. \A k \in Conns : nmsgs[k] \in Nat /\ nmsgs'[k] \in Nat
  BY <1>0, BoundAssumption DEF IInv, TypeOK
<1>2. ASSUME Deliveries \subseteq Deliveries', \A d \in Deliveries : BundleOf(d)' = BundleOf(d)
      PROVE  \A b : Delivered(b) => Delivered(b)'
  BY <1>2 DEF Delivered
<1>3. CASE UNCHANGED <<link, nmsgs, sent>>
  <2>1. Kept
    BY <1>3, LogOf DEF Kept
  <2> QED BY <1>1, <1>2, <1>3, <2>1, KeptEffect
<1>4. CASE UNCHANGED vars \/ Drops
  BY <1>3, <1>4 DEF vars, socketVars, Drops
<1>5. ASSUME NEW k \in Conns, NEW m, Queues(k, m) PROVE \A j \in Conns : nmsgs[j] <= nmsgs'[j]
  BY <1>0, <1>1, <1>5 DEF Queues, IInv, TypeOK
<1>6. ASSUME NEW k \in Conns, NEW m, Queues(k, m)
      PROVE  Kept /\ UNCHANGED link
  BY <1>6, LogOf DEF Queues, Kept
<1>7. ASSUME Next
      PROVE  Deliveries \subseteq Deliveries' /\ \A d \in Deliveries : BundleOf(d)' = BundleOf(d)
  <2>1. ASSUME NEW d \in DepositType, NEW n \in Conns \cup {NULL}, Delivery(d, n)
        PROVE  Deliveries \subseteq Deliveries' /\ \A e \in Deliveries : BundleOf(e)' = BundleOf(e)
    <3>1. Delivers(d, n)
      BY <2>1 DEF Delivery
    <3>2. PICK pk \in Conns, x \in Nat : Handed(pk, x, d.bundle, n)
      BY <1>0, <3>1, DeliverEffect DEF DepositType
    <3> QED BY <3>2, HandedEffect
  <2> QED BY <1>0, <1>7, <2>1, KeptSteps, KeptEffect
<1>8. CASE Serves
  BY <1>0, <1>1, <1>2, <1>7, <1>8, ServesIsNext, ServesDrains, LinkGoesOn
<1>9. ASSUME NEW k \in Conns, Connect(k)
      PROVE  /\ \A j \in Conns : link[j] # "none" => link'[j] # "none"
             /\ \A j \in Conns : link'[j] # "closed" => link[j] # "closed"
             /\ nmsgs' = nmsgs
  BY <1>0, <1>9 DEF Connect, IInv, TypeOK
<1>10. CASE \E k \in Conns : Connect(k)
  BY <1>1, <1>2, <1>7, <1>9, <1>10, ServesIsNext
<1>11. CASE \E k \in Conns : \E m : Queues(k, m)
  BY <1>1, <1>2, <1>5, <1>6, <1>11, KeptEffect
<1> QED BY <1>0, <1>4, <1>8, <1>10, <1>11, LinkKinds

\* A request of the consumer changes its queue and its count at most.
LEMMA RequestEffect ==
  ASSUME IInv, NEW k \in Consumers, NEW m, Request(k, m)
  PROVE  /\ UNCHANGED <<daemonVars, deposit, backlog, sock, link, peer, sent>>
         /\ nmsgs[k] \in Nat
         /\ nmsgs'[k] = IF Linked(k) THEN nmsgs[k] + 1 ELSE nmsgs[k]
         /\ \A j \in Conns : j # k => nmsgs'[j] = nmsgs[j] /\ inq'[j] = inq[j]
<1>1. k \in Conns
  BY ConnKinds
<1>2. nmsgs \in [Conns -> 0..MaxMsgs] /\ inq \in [Conns -> Seq(Msgs)] /\ nmsgs[k] \in Nat
  BY <1>1, BoundAssumption DEF IInv, TypeOK
<1>3. UNCHANGED <<daemonVars, deposit, backlog, sock, link, peer, sent>>
  BY RequestCases DEF Queues, vars, socketVars, daemonVars
<1>4. CASE Linked(k) /\ Queues(k, m)
  BY <1>1, <1>2, <1>3, <1>4 DEF Queues
<1>5. CASE ~Linked(k) /\ UNCHANGED vars
  BY <1>2, <1>3, <1>5 DEF vars, socketVars
<1> QED BY <1>4, <1>5, RequestCases

ConsumerSide == ConsumerTypes /\ ConsumerCtl /\ Budget

\* A fallback gives the context a new bundle and asks for a reconnect.
LEMMA FallbackSide ==
  ASSUME CtlInv, IInv, enter_fallback, c_pc' \in {c_pc, "top"}
  PROVE  ConsumerSide'
<1>1. /\ c_conn \in Consumers /\ nmsgs[c_conn] \in Nat /\ nmsgs[c_conn] < 4
      /\ NewBundle(c_conn) \in Bundles /\ NewBundle(c_conn) # NULL
      /\ NewBundle(c_conn)[1] = c_conn
  BY RoomForBundle DEF enter_fallback
<1>2. /\ ~c_fallback /\ c_bundle' = NewBundle(c_conn) /\ c_fallback' = TRUE /\ c_pending' = FALSE
      /\ need_reconnect' = TRUE /\ UNCHANGED <<c_conn, c_read, c_running>>
  BY DEF enter_fallback
<1>3. link' = link /\ nmsgs'[c_conn] \in Nat /\ nmsgs'[c_conn] <= nmsgs[c_conn] + 1
  BY <1>1, RequestEffect DEF enter_fallback
<1>4. /\ c_pc \in {"top", "draw", "push", "select", "await"} /\ link[c_conn] # "none"
      /\ nmsgs[c_conn] <= 2 \/ (nmsgs[c_conn] <= 3 /\ c_pc # "draw")
  BY <1>1, <1>2, ConnKinds DEF CtlInv, ConsumerCtl, Budget
<1>5. ConsumerTypes'
  BY <1>1, <1>2, <1>4 DEF CtlInv, LinkTypeOK, ConsumerTypes
<1>6. ConsumerCtl'
  BY <1>1, <1>2, <1>3, <1>4, ConnKinds DEF ConsumerCtl
<1>7. Budget'
  BY <1>1, <1>2, <1>3, <1>4 DEF Budget
<1> QED BY <1>5, <1>6, <1>7 DEF ConsumerSide

\* The steps of the consumer keep it consistent.
LEMMA ConsumerSteps ==
  ASSUME CtlInv, DaemonInv,
         CStart \/ ConsumerRuns \/ CAppHangup \/ CWake \/ CSetSocketPath \/ CCrash
  PROVE  ConsumerSide'
<1>0. /\ ConsumerTypes /\ ConsumerCtl /\ Budget /\ IInv
      /\ c_conn # NULL => c_conn \in Consumers /\ c_conn \in Conns
      /\ \A b \in Bundles : b # NULL
  BY LinkTypesSplit, ConnKinds, NullAssumption DEF CtlInv, DaemonInv, ConsumerTypes
<1> USE DEF ConsumerSide, ConsumerTypes, ConsumerCtl, Budget
<1>1. CASE CStart
  BY <1>0, <1>1 DEF CStart, vars, socketVars
<1>2. CASE DropContext /\ c_pc' \in {"off", "connect"} /\ c_running' \in BOOLEAN /\ need_reconnect' \in BOOLEAN
  BY <1>0, <1>2 DEF DropContext
<1>3. CASE CTop
  <2>1. CASE DropContext /\ c_pc' \in {"off", "connect"}
    <3>1. UNCHANGED <<need_reconnect, c_running>>
      BY <1>3 DEF CTop
    <3> QED BY <1>0, <1>2, <2>1, <3>1
  <2>2. CASE ~(DropContext /\ c_pc' \in {"off", "connect"})
    <3>1. /\ c_pc = "top" /\ c_running /\ ~need_reconnect /\ c_pc' = "draw"
          /\ UNCHANGED <<link, nmsgs, c_conn, c_bundle, c_fallback, c_pending, c_read, c_running,
                         need_reconnect>>
      BY <1>3, <2>2 DEF CTop, vars, socketVars
    <3>2. ConsumerTypes' /\ ConsumerCtl'
      BY <1>0, <3>1
    <3>3. Budget'
      BY <1>0, <3>1
    <3> QED BY <3>2, <3>3
  <2> QED BY <2>1, <2>2
<1>4. CASE CConnect
  <2>1. PICK k \in Consumers : link[k] = "none" /\ Connect(k) /\ c_conn' = k
    BY <1>4 DEF CConnect, Fresh
  <2>2. k \in Conns /\ k # NULL /\ nmsgs[k] = 0 /\ nmsgs' = nmsgs /\ link'[k] = "backlog"
    BY <1>0, <2>1, ConnKinds DEF Connect, DaemonInv, Roles, IInv, TypeOK
  <2>3. /\ c_pc = "connect" /\ c_pc' = "hello" /\ c_read' = 0
        /\ UNCHANGED <<c_bundle, c_fallback, c_pending, c_running, need_reconnect>>
    BY <1>4 DEF CConnect
  <2> QED BY <1>0, <2>1, <2>2, <2>3
<1>5. CASE CHello
  <2>1. /\ c_conn \in Consumers /\ nmsgs[c_conn] = 0
        /\ NewBundle(c_conn) \in Bundles /\ NewBundle(c_conn) # NULL
        /\ NewBundle(c_conn)[1] = c_conn
    BY <1>0, <1>5, RoomForBundle DEF CHello
  <2>2. link' = link /\ nmsgs'[c_conn] <= 1
    BY <1>0, <1>5, <2>1, RequestEffect DEF CHello
  <2>3. /\ c_pc = "hello" /\ c_bundle' = NewBundle(c_conn) /\ c_pc' = "screen"
        /\ UNCHANGED <<c_conn, c_fallback, c_pending, c_read, c_running, need_reconnect>>
    BY <1>5 DEF CHello
  <2> QED BY <1>0, <2>1, <2>2, <2>3
<1>6. CASE CScreen
  <2>1. /\ c_pc = "screen" /\ c_pc' = "draw" /\ need_reconnect' = FALSE
        /\ UNCHANGED <<c_conn, c_bundle, c_fallback, c_pending, c_read, c_running>>
    BY <1>6 DEF CScreen
  <2>2. c_conn \in Consumers
    BY <1>0, <2>1
  <2>3. link' = link /\ nmsgs'[c_conn] <= 2
    BY <1>0, <1>6, <2>1, <2>2, RequestEffect DEF CScreen
  <2> QED BY <1>0, <2>1, <2>2, <2>3
<1>7. CASE CExitFallback
  <2>1. UNCHANGED <<link, nmsgs, c_conn, c_bundle, c_pending, c_running, need_reconnect>>
    BY <1>7 DEF CExitFallback, vars, socketVars
  <2>2. /\ c_pc = "draw" /\ c_fallback /\ c_conn \in Consumers
        /\ c_pc' \in {"top", "push"} /\ c_fallback' \in BOOLEAN
        /\ c_pc' = "top" => c_fallback'
        /\ c_read' \in {c_read, c_read + 1}
    BY <1>0, <1>7, ExitCases
  <2>3. ConsumerTypes'
    BY <1>0, <2>1, <2>2
  <2>4. ConsumerCtl'
    BY <1>0, <2>1, <2>2
  <2>5. Budget'
    BY <1>0, <2>1, <2>2
  <2> QED BY <2>3, <2>4, <2>5
<1>8. CASE CPush
  BY <1>0, <1>8 DEF CPush, vars, socketVars
<1>9. CASE CSelect
  <2>1. UNCHANGED <<link, nmsgs, c_conn, c_bundle, c_fallback, c_read, c_running, need_reconnect>>
    BY <1>9 DEF CSelect, vars, socketVars
  <2>2. /\ (c_pc = "draw" /\ ~c_fallback) \/ c_pc = "select"
        /\ \/ c_fallback /\ c_pc' = "top" /\ UNCHANGED c_pending
           \/ ~c_fallback /\ c_pending' = TRUE /\ c_pc' = "await"
    BY <1>9 DEF CSelect
  <2>3. ConsumerTypes'
    BY <1>0, <2>1, <2>2
  <2>4. ConsumerCtl'
    BY <1>0, <2>1, <2>2
  <2>5. Budget'
    BY <1>0, <2>1, <2>2
  <2> QED BY <2>3, <2>4, <2>5
<1>10. CASE CRefreshDone
  BY <1>0, <1>10 DEF CRefreshDone, vars, socketVars
<1>11. CASE CHangup \/ CAppHangup
  BY <1>0, <1>11, FallbackSide DEF CHangup, CAppHangup
<1>12. CASE CWake
  BY <1>0, <1>12 DEF CWake, vars, socketVars
<1>13. CASE CSetSocketPath
  BY <1>0, <1>13 DEF CSetSocketPath, vars, socketVars
<1>14. CASE CCrash
  BY <1>0, <1>2, <1>14 DEF CCrash
<1> QED BY <1>1, <1>3, <1>4, <1>5, <1>6, <1>7, <1>8, <1>9, <1>10, <1>11, <1>12, <1>13, <1>14
  DEF ConsumerRuns

\* So do all the others.
LEMMA ConsumerOthers ==
  ASSUME CtlInv, DaemonInv, LinkNext, UNCHANGED consumerVars, nmsgs' = nmsgs
  PROVE  ConsumerSide'
<1>0. ConsumerTypes /\ ConsumerCtl /\ Budget /\ (c_conn # NULL => c_conn \in Conns)
  BY LinkTypesSplit, ConnKinds DEF CtlInv, ConsumerTypes
<1>1. c_conn # NULL /\ link[c_conn] # "none" => link'[c_conn] # "none"
  BY <1>0, LinkGrows
<1>2. UNCHANGED <<c_pc, c_conn, c_bundle, c_fallback, c_pending, c_read, c_running, need_reconnect>>
  BY DEF consumerVars
<1> QED BY <1>0, <1>1, <1>2 DEF ConsumerSide, ConsumerTypes, ConsumerCtl, Budget

\* The bundle that a producer picks up was handed to it.
LEMMA TakeFdsEffect ==
  ASSUME CtlInv, DaemonInv, TakeFds, p_pc # "off"
  PROVE  /\ p_conn \in Producers /\ p_conn \in Conns
         /\ p_read + 1 \in DOMAIN sent[p_conn] /\ p_read < Len(sent[p_conn])
         /\ \E b \in Bundles : /\ b = sent[p_conn][p_read + 1].bundle
                               /\ p_bundle' = b /\ b # NULL
                               /\ Delivered(b)
<1>1. p_conn \in Producers /\ p_conn \in Conns /\ p_read \in Nat /\ IInv
  BY ConnKinds DEF CtlInv, LinkTypeOK, ProducerCtl, DaemonInv
<1>2. /\ p_read + 1 \in DOMAIN sent[p_conn] /\ p_read < Len(sent[p_conn])
      /\ Head(Unread(p_conn, p_read)) = sent[p_conn][p_read + 1]
  BY <1>1, UnreadHead DEF TakeFds
<1> PICK m : m = sent[p_conn][p_read + 1]
  OBVIOUS
<1>3. m.type = "FDS_READY" /\ m.fds >= 4 /\ p_bundle' = m.bundle /\ m \in Msgs
  BY <1>1, <1>2 DEF TakeFds, IInv, TypeOK
<1>4. p_read + 1 \in Given(p_conn)
  <2>1. m.fds > 0
    BY <1>3 DEF Msgs, MAX_FDS
  <2> QED BY <1>2, <1>3, <2>1 DEF Given
<1> PICK d : d = <<p_conn, p_read + 1>>
  OBVIOUS
<1>5. d \in Deliveries
  BY <1>1, <1>4, DeliveryPlace
<1>6. BundleOf(d) = m.bundle
  BY DEF BundleOf
<1>7. m.bundle \in Bundles
  BY <1>5, <1>6 DEF DaemonInv, BundleInv
<1> QED BY <1>1, <1>2, <1>3, <1>5, <1>6, <1>7, NullAssumption DEF Delivered

ProducerSide == ProducerTypes /\ ProducerCtl

\* A fallback of the producer gives up its bundle.
LEMMA ProducerFallback ==
  ASSUME CtlInv, EnterFallback, p_pc = "run"
  PROVE  ProducerSide'
<1>1. ProducerTypes /\ ProducerCtl
  BY LinkTypesSplit DEF CtlInv
<1> QED BY <1>1 DEF EnterFallback, anland_fallback_cb, ProducerSide, ProducerTypes, ProducerCtl,
   vars, socketVars

\* The steps of the producer keep it consistent.
LEMMA ProducerSteps ==
  ASSUME CtlInv, DaemonInv, LinkNext, PStart \/ ProducerRuns \/ PCrash \/ PWindowEvent
  PROVE  ProducerSide'
<1>0. ProducerTypes /\ ProducerCtl /\ (p_conn # NULL => p_conn \in Producers /\ p_conn \in Conns)
  BY LinkTypesSplit, ConnKinds DEF CtlInv, ProducerTypes
<1> PICK b0 : b0 = p_bundle
  OBVIOUS
<1>1. /\ p_conn # NULL => link'[p_conn] # "none"
      /\ b0 # NULL => Delivered(b0)'
  BY <1>0, LinkGrows DEF ProducerCtl
<1>2. CASE UNCHANGED <<p_conn, p_bundle, p_fallback, p_bufs, p_ready, p_again, peer>>
           /\ p_pc' \in {"screen", "pickup", "take", "run", "retry"} /\ p_pc # "off"
           /\ p_read' \in Nat /\ (p_pc' = "run" \/ p_fallback)
  <2>1. p_bundle' # NULL => Delivered(p_bundle)'
    BY <1>1, <1>2 DEF Delivered
  <2> QED BY <1>0, <1>1, <1>2, <2>1 DEF ProducerSide, ProducerTypes, ProducerCtl
<1>3. ASSUME NEW m, p_pc # "off", Request(p_conn, m) PROVE peer' = peer
  BY <1>3, RequestCases DEF Queues, vars, socketVars
<1>4. CASE PHello \/ PPickup \/ PRetry
  <2>1. /\ UNCHANGED <<p_conn, p_bundle, p_fallback, p_read, p_bufs, p_ready, p_again, peer>>
        /\ p_pc \in {"hello", "pickup", "run"} /\ p_pc' \in {"screen", "take", "retry"}
        /\ p_pc = "run" => p_fallback
    BY <1>3, <1>4 DEF PHello, PPickup, PRetry
  <2> QED BY <1>0, <1>2, <2>1 DEF ProducerTypes, ProducerCtl
<1>5. CASE PScreen \/ PTimeout
  BY <1>0, <1>2, <1>5 DEF PScreen, PTimeout, vars, socketVars, ProducerTypes, ProducerCtl
<1>6. CASE PTake \/ PReconnect
  <2>1. TakeFds /\ p_pc \in {"take", "retry"} /\ p_again' \in BOOLEAN
    BY <1>6 DEF PTake, PReconnect
  <2>2. PICK b \in Bundles : p_bundle' = b /\ b # NULL /\ Delivered(b)
    BY <2>1, TakeFdsEffect
  <2>3. Delivered(b)'
    BY <2>2, LinkGrows
  <2>4. Delivered(p_bundle)'
    BY <2>2, <2>3 DEF Delivered
  <2>5. /\ p_fallback' = FALSE /\ p_pc' = "run" /\ UNCHANGED <<peer, link, p_conn, p_bufs, p_ready>>
        /\ p_read' = p_read + 1
    BY <2>1 DEF TakeFds, vars, socketVars
  <2>6. p_bundle' \in Bundles /\ p_bundle' # NULL
    BY <2>2
  <2>7. ProducerTypes'
    <3>1. /\ p_fallback' \in BOOLEAN /\ p_bufs' \in BOOLEAN /\ p_ready' \in BOOLEAN
          /\ p_again' \in BOOLEAN
      BY <1>0, <2>1, <2>5 DEF ProducerTypes
    <3>2. p_read' \in Nat /\ p_conn' \in Producers \cup {NULL} /\ p_bundle' \in Bundles \cup {NULL}
      BY <1>0, <2>5, <2>6 DEF ProducerTypes
    <3> QED BY <2>5, <3>1, <3>2 DEF ProducerTypes
  <2>8. p_conn # NULL /\ peer[p_conn] /\ link[p_conn] # "none" /\ ~p_bufs /\ ~p_ready
    BY <1>0, <2>1 DEF ProducerCtl
  <2>9. ProducerCtl'
    BY <2>4, <2>5, <2>6, <2>8 DEF ProducerCtl
  <2> QED BY <2>7, <2>9 DEF ProducerSide
<1>7. CASE PRefused
  <2>1. /\ UNCHANGED <<p_bundle, p_fallback, p_read, p_bufs, p_ready, p_again, peer>>
        /\ p_pc' = "off" /\ p_conn' = NULL /\ p_pc # "run"
    BY <1>7 DEF PRefused, vars, socketVars
  <2> QED BY <1>0, <2>1 DEF ProducerSide, ProducerTypes, ProducerCtl
<1>8. CASE PFirstBuffer
  <2>1. p_pc = "run" /\ (EnterFallback \/ receive_dmabufs)
    BY <1>8 DEF PFirstBuffer
  <2>2. CASE EnterFallback
    BY <2>1, <2>2, ProducerFallback
  <2>3. CASE ~EnterFallback
    <3>1. /\ p_bufs' = TRUE /\ p_ready' = TRUE /\ ~p_fallback /\ p_pc = "run"
          /\ UNCHANGED <<peer, link, sent, p_pc, p_conn, p_bundle, p_fallback, p_read, p_again>>
      BY <1>8, <2>1, <2>3 DEF PFirstBuffer, receive_dmabufs, vars, socketVars
    <3>2. Delivered(p_bundle)' = Delivered(p_bundle)
      BY <3>1 DEF Delivered, Deliveries, Given, BundleOf
    <3> QED BY <1>0, <3>1, <3>2 DEF ProducerSide, ProducerTypes, ProducerCtl
  <2> QED BY <2>2, <2>3
<1>9. CASE PBufReady \/ PRepaint
  <2>1. /\ p_pc = "run" /\ p_bufs /\ p_ready' \in BOOLEAN
        /\ UNCHANGED <<peer, link, sent, p_pc, p_conn, p_bundle, p_fallback, p_read, p_bufs, p_again>>
    BY <1>9 DEF PBufReady, PRepaint, vars, socketVars
  <2>2. Delivered(p_bundle)' = Delivered(p_bundle)
    BY <2>1 DEF Delivered, Deliveries, Given, BundleOf
  <2> QED BY <1>0, <2>1, <2>2 DEF ProducerSide, ProducerTypes, ProducerCtl
<1>10. CASE PInput \/ PWindowEvent
  <2>1. p_pc = "run" /\ (EnterFallback \/ (PInput /\ ~EnterFallback))
    BY <1>10 DEF PInput, PWindowEvent
  <2>2. CASE PInput /\ ~EnterFallback
    <3>1. UNCHANGED <<vars, producerVars>>
      BY <2>2 DEF PInput, poll_display_event
    <3>2. UNCHANGED <<p_conn, p_bundle, p_fallback, p_read, p_bufs, p_ready, p_again, peer, p_pc>>
      BY <3>1 DEF vars, socketVars, producerVars
    <3> QED BY <1>0, <1>2, <2>1, <3>2 DEF ProducerTypes
  <2> QED BY <2>1, <2>2, ProducerFallback
<1>11. CASE PStart
  <2>1. PICK k \in Producers : Connect(k) /\ p_conn' = k
    BY <1>11 DEF PStart, Fresh
  <2>2. k \in Conns /\ k # NULL /\ peer'[k] /\ link'[k] = "backlog"
    BY <2>1, ConnKinds DEF Connect, DaemonInv, IInv, TypeOK
  <2>3. /\ p_pc = "off" /\ p_pc' = "hello" /\ p_read' = 0
        /\ UNCHANGED <<p_bundle, p_fallback, p_bufs, p_ready, p_again>>
    BY <1>11 DEF PStart
  <2> QED BY <1>0, <2>1, <2>2, <2>3 DEF ProducerSide, ProducerTypes, ProducerCtl
<1>12. CASE PCrash
  BY <1>0, <1>12 DEF PCrash, ProducerSide, ProducerTypes, ProducerCtl
<1> QED BY <1>4, <1>5, <1>6, <1>7, <1>8, <1>9, <1>10, <1>11, <1>12 DEF ProducerRuns

\* So do all the others.
LEMMA ProducerOthers ==
  ASSUME CtlInv, DaemonInv, LinkNext, UNCHANGED producerVars,
         p_conn # NULL => peer'[p_conn] = peer[p_conn]
  PROVE  ProducerSide'
<1>0. ProducerTypes /\ ProducerCtl /\ (p_conn # NULL => p_conn \in Conns)
  BY LinkTypesSplit, ConnKinds DEF CtlInv, ProducerTypes
<1> PICK b : b = p_bundle
  OBVIOUS
<1>1. /\ p_conn # NULL => link'[p_conn] # "none"
      /\ b # NULL => Delivered(b)'
  BY <1>0, LinkGrows DEF ProducerCtl
<1>2. UNCHANGED <<p_pc, p_conn, p_bundle, p_fallback, p_read, p_bufs, p_ready, p_again>>
  BY DEF producerVars
<1>3. p_bundle' # NULL => Delivered(p_bundle)'
  BY <1>1, <1>2 DEF Delivered
<1> QED BY <1>0, <1>1, <1>2, <1>3 DEF ProducerSide, ProducerTypes, ProducerCtl

\* The steps of the consumer do not touch the producer, nor its connection.
LEMMA ConsumerAlone ==
  ASSUME CtlInv, IInv, CStart \/ ConsumerRuns \/ CAppHangup \/ CWake \/ CSetSocketPath \/ CCrash
  PROVE  UNCHANGED producerVars /\ (p_conn # NULL => peer'[p_conn] = peer[p_conn])
<1>0. /\ p_conn # NULL => p_conn \in Conns /\ p_conn \notin Consumers
      /\ c_conn # NULL => c_conn \in Consumers
      /\ peer \in [Conns -> BOOLEAN]
  BY ConnKinds DEF CtlInv, LinkTypeOK, IInv, TypeOK
<1> DEFINE Goal == UNCHANGED producerVars /\ (p_conn # NULL => peer'[p_conn] = peer[p_conn])
<1>1. DropContext => Goal
  BY <1>0 DEF DropContext
<1>2. ASSUME NEW k, NEW m, Request(k, m) PROVE peer' = peer
  BY <1>2, RequestCases DEF Queues, vars, socketVars
<1>3. CHello \/ CScreen \/ enter_fallback => Goal
  BY <1>2 DEF CHello, CScreen, enter_fallback
<1>4. CConnect => Goal
  <2>1. ASSUME NEW k \in Consumers, Connect(k) PROVE p_conn # NULL => peer'[p_conn] = peer[p_conn]
    BY <1>0, <2>1 DEF Connect
  <2> QED BY <2>1 DEF CConnect, Fresh
<1>5. CStart \/ CExitFallback \/ CPush \/ CSelect \/ CRefreshDone \/ CWake \/ CSetSocketPath => Goal
  BY DEF CStart, CExitFallback, CPush, CSelect, CRefreshDone, CWake, CSetSocketPath, vars, socketVars
<1>6. CTop => Goal
  BY <1>1 DEF CTop, vars, socketVars
<1>7. CHangup \/ CAppHangup \/ CCrash => Goal
  BY <1>1, <1>3 DEF CHangup, CAppHangup, CCrash
<1> QED BY <1>3, <1>4, <1>5, <1>6, <1>7 DEF ConsumerRuns

\* The shared objects keep their types.
LEMMA ObjectSteps ==
  ASSUME CtlInv, LinkNext
  PROVE  ObjectTypes'
<1>0. ObjectTypes
  BY LinkTypesSplit DEF CtlInv
<1>1. CASE UNCHANGED objectVars
  BY <1>0, <1>1 DEF ObjectTypes, objectVars
<1>2. CASE CPush \/ CInput
  <2>1. UNCHANGED <<buf_ready, refresh>>
    BY <1>2 DEF CPush, CInput
  <2>2. \/ data' = data
        \/ \E m \in {"BUFS_READY", "INPUT_EVENT"} : data' = [data EXCEPT ![c_bundle] = Append(@, m)]
    BY <1>2 DEF CPush, CInput
  <2>3. ASSUME NEW m \in {"BUFS_READY", "INPUT_EVENT"}, data' = [data EXCEPT ![c_bundle] = Append(@, m)]
        PROVE  data' \in [Bundles -> Seq({"BUFS_READY", "INPUT_EVENT"})]
    <3>1. ASSUME NEW b \in Bundles PROVE Append(data[b], m) \in Seq({"BUFS_READY", "INPUT_EVENT"})
      BY <1>0 DEF ObjectTypes
    <3> QED BY <1>0, <2>3, <3>1 DEF ObjectTypes
  <2> QED BY <1>0, <2>1, <2>2, <2>3 DEF ObjectTypes
<1>3. CASE CSelect
  <2>1. UNCHANGED <<refresh, data>>
    BY <1>3 DEF CSelect
  <2>2. buf_ready' = buf_ready \/ buf_ready' = [buf_ready EXCEPT ![c_bundle] = TRUE]
    BY <1>3 DEF CSelect
  <2> QED BY <1>0, <2>1, <2>2 DEF ObjectTypes
<1>4. CASE CRefreshDone
  <2>1. UNCHANGED <<buf_ready, data>>
    BY <1>4 DEF CRefreshDone
  <2>2. refresh' = refresh \/ refresh' = [refresh EXCEPT ![c_bundle] = FALSE]
    BY <1>4 DEF CRefreshDone
  <2> QED BY <1>0, <2>1, <2>2 DEF ObjectTypes
<1>5. CASE CWake
  <2>1. UNCHANGED data
    BY <1>5 DEF CWake
  <2>2. buf_ready' \in [Bundles -> BOOLEAN] /\ refresh' \in [Bundles -> BOOLEAN]
    BY <1>5 DEF CWake, wake_display_consumer
  <2> QED BY <1>0, <2>1, <2>2 DEF ObjectTypes
<1>6. CASE (PFirstBuffer \/ PInput) /\ ~UNCHANGED objectVars
  <2>1. /\ p_pc = "run" /\ data[p_bundle] # <<>> /\ data' = [data EXCEPT ![p_bundle] = Tail(@)]
        /\ refresh' = refresh
        /\ buf_ready' = buf_ready \/ buf_ready' = [buf_ready EXCEPT ![p_bundle] = FALSE]
    BY <1>6 DEF PFirstBuffer, receive_dmabufs, PInput, poll_display_event, EnterFallback, objectVars
  <2>2. p_bundle \in Bundles
    BY <1>6 DEF PFirstBuffer, PInput, CtlInv, LinkTypeOK, ProducerCtl
  <2>3. Tail(data[p_bundle]) \in Seq({"BUFS_READY", "INPUT_EVENT"})
    BY <1>0, <2>1, <2>2 DEF ObjectTypes
  <2> QED BY <1>0, <2>1, <2>2, <2>3 DEF ObjectTypes
<1>7. CASE PBufReady
  <2>1. UNCHANGED <<refresh, data>> /\ buf_ready' = [buf_ready EXCEPT ![p_bundle] = FALSE]
    BY <1>7 DEF PBufReady
  <2> QED BY <1>0, <2>1 DEF ObjectTypes
<1>8. CASE PRepaint
  <2>1. UNCHANGED <<buf_ready, data>> /\ refresh' = [refresh EXCEPT ![p_bundle] = TRUE]
    BY <1>8 DEF PRepaint
  <2> QED BY <1>0, <2>1 DEF ObjectTypes
<1>9. CTop \/ CCrash => UNCHANGED objectVars
  BY DEF CTop, CCrash, DropContext
<1>10. CStart \/ CConnect \/ CHello \/ CScreen \/ CExitFallback \/ CHangup \/ CAppHangup \/ CSetSocketPath
         => UNCHANGED objectVars
  BY DEF CStart, CConnect, CHello, CScreen, CExitFallback, CHangup, CAppHangup, enter_fallback,
     CSetSocketPath
<1>11. PStart \/ PHello \/ PScreen \/ PPickup \/ PTake \/ PRetry \/ PReconnect \/ PTimeout
         \/ PRefused \/ PWindowEvent \/ PCrash \/ DaemonServes => UNCHANGED objectVars
  BY DEF PStart, PHello, PScreen, PPickup, PTake, PRetry, PReconnect, TakeFds, PTimeout, PRefused,
     PWindowEvent, EnterFallback, PCrash, DaemonServes
<1> QED BY <1>1, <1>2, <1>3, <1>4, <1>5, <1>6, <1>7, <1>8, <1>9, <1>10, <1>11
  DEF LinkNext, ConsumerRuns, ProducerRuns, Disturb

\* Disturbances are counted.
LEMMA EventSteps ==
  ASSUME CtlInv, LinkNext
  PROVE  events' \in 0..MaxEvents
<1>0. events \in 0..MaxEvents /\ MaxEvents \in Nat
  BY LinkAssumption DEF CtlInv, LinkTypeOK
<1>1. CASE Disturb
  BY <1>0, <1>1 DEF Disturb
<1>2. ConsumerRuns \/ CStart \/ CAppHangup => UNCHANGED events
  BY DEF ConsumerRuns, CStart, CTop, CConnect, CHello, CScreen, CExitFallback, CPush, CSelect,
     CRefreshDone, CHangup, CAppHangup, enter_fallback
<1>3. ProducerRuns \/ PStart \/ DaemonServes => UNCHANGED events
  BY DEF ProducerRuns, PStart, PHello, PScreen, PPickup, PTake, PRetry, PReconnect, TakeFds,
     PTimeout, PRefused, PFirstBuffer, PBufReady, PRepaint, PInput, DaemonServes
<1> QED BY <1>0, <1>1, <1>2, <1>3 DEF LinkNext

\* The two programs stay consistent, with each other and with the daemon.
LEMMA CtlStep ==
  ASSUME CtlInv, DaemonInv, [LinkNext]_linkVars
  PROVE  CtlInv'
<1>1. CASE UNCHANGED linkVars
  <2>1. UNCHANGED <<vars, consumerVars, producerVars, objectVars, events>>
    BY <1>1 DEF linkVars
  <2>2. LinkTypeOK'
    BY <2>1 DEF CtlInv, LinkTypeOK, consumerVars, producerVars, objectVars
  <2>3. ConsumerCtl' /\ Budget'
    BY <2>1 DEF CtlInv, ConsumerCtl, Budget, consumerVars, vars, socketVars
  <2>4. ProducerCtl'
    BY <2>1 DEF CtlInv, ProducerCtl, producerVars, vars, socketVars, Delivered, Deliveries, Given,
       BundleOf
  <2> QED BY <2>2, <2>3, <2>4 DEF CtlInv
<1>2. CASE LinkNext
  <2>0. IInv
    BY DEF DaemonInv
  <2>1. CASE CStart \/ ConsumerRuns \/ CAppHangup \/ CWake \/ CSetSocketPath \/ CCrash
    <3>1. ConsumerSide'
      BY <2>1, ConsumerSteps
    <3>2. ProducerSide'
      BY <1>2, <2>0, <2>1, ConsumerAlone, ProducerOthers
    <3> QED BY <1>2, <3>1, <3>2, ObjectSteps, EventSteps, LinkTypesSplit
      DEF ConsumerSide, ProducerSide, CtlInv, LinkTypeOK, ConsumerTypes, ProducerTypes, ObjectTypes
  <2>2. CASE PStart \/ ProducerRuns \/ PCrash \/ PWindowEvent
    <3>1. ConsumerSide'
      BY <1>2, <2>0, <2>2, ProducerAlone, ConsumerOthers
    <3>2. ProducerSide'
      BY <1>2, <2>2, ProducerSteps
    <3> QED BY <1>2, <3>1, <3>2, ObjectSteps, EventSteps
      DEF ConsumerSide, ProducerSide, CtlInv, LinkTypeOK, ConsumerTypes, ProducerTypes, ObjectTypes
  <2>3. CASE DaemonServes \/ CInput
    <3>1. UNCHANGED <<consumerVars, producerVars, nmsgs, peer>>
      BY <2>3, ServesDrains DEF DaemonServes, Serves, CInput, vars, socketVars
    <3>2. ConsumerSide' /\ ProducerSide'
      BY <1>2, <3>1, ConsumerOthers, ProducerOthers
    <3> QED BY <1>2, <3>2, ObjectSteps, EventSteps
      DEF ConsumerSide, ProducerSide, CtlInv, LinkTypeOK, ConsumerTypes, ProducerTypes, ObjectTypes
  <2> QED BY <1>2, <2>1, <2>2, <2>3 DEF LinkNext, Disturb
<1> QED BY <1>1, <1>2

\* Nothing has happened at the start.
LEMMA LinkStart == LinkInit => CtlInv /\ DaemonInv
<1> SUFFICES ASSUME LinkInit PROVE CtlInv /\ DaemonInv
  OBVIOUS
<1>1. IInv
  BY InitIInv DEF LinkInit
<1>2. /\ \A k \in Conns : inq[k] = <<>> /\ sent[k] = <<>> /\ nmsgs[k] = 0 /\ link[k] = "none"
      /\ producer = NULL /\ deposit = NoDeposit
  BY DEF LinkInit, Init
<1>3. Roles
  BY <1>2, ConnKinds DEF Roles
<1>4. Tagged
  BY <1>2 DEF Tagged, NoDeposit
<1>5. ScreenInv /\ BundleInv /\ NoticeInv
  BY InitScreens, InitBundles DEF LinkInit
<1>6. LinkTypeOK
  <2>1. ConsumerTypes
    BY DEF LinkInit, ConsumerTypes
  <2>2. ProducerTypes
    BY DEF LinkInit, ProducerTypes
  <2>3. buf_ready \in [Bundles -> BOOLEAN] /\ refresh \in [Bundles -> BOOLEAN]
    BY DEF LinkInit
  <2>4. data \in [Bundles -> Seq({"BUFS_READY", "INPUT_EVENT"})]
    BY DEF LinkInit
  <2>5. events \in 0..MaxEvents
    BY LinkAssumption DEF LinkInit
  <2> QED BY <2>1, <2>2, <2>3, <2>4, <2>5, LinkTypesSplit DEF ObjectTypes
<1>7. ConsumerCtl /\ Budget /\ ProducerCtl
  BY DEF LinkInit, ConsumerCtl, Budget, ProducerCtl
<1> QED BY <1>1, <1>3, <1>4, <1>5, <1>6, <1>7 DEF CtlInv, DaemonInv

\* The program counters, the descriptors and the shared objects of both programs have
\* their types in every behaviour of the link.
THEOREM LinkTypes == LinkSpec => []LinkTypeOK
<1>1. CtlInv /\ DaemonInv /\ [LinkNext]_linkVars => CtlInv' /\ DaemonInv'
  BY CtlStep, DaemonKept
<1>2. CtlInv => LinkTypeOK
  BY DEF CtlInv
<1> QED BY <1>1, <1>2, LinkStart, PTL DEF LinkSpec

-----------------------------------------------------------------------------
(* Every FDS_READY answers for the bundle in the context. *)

\* Of the bundles that the consumer sent on its connection only the one in its context
\* is still on the way, queued or on deposit.  A message that it has not read says that
\* this one was taken, and it is in fallback until it reads it; there is at most one.
Answered ==
  /\ c_conn # NULL =>
       /\ \A i \in DOMAIN inq[c_conn] : inq[c_conn][i].fds > 0 => inq[c_conn][i].bundle = c_bundle
       /\ deposit.fds > 0 /\ deposit.bundle[1] = c_conn => deposit.bundle = c_bundle
       /\ Len(sent[c_conn]) <= c_read + 1
       /\ c_read < Len(sent[c_conn]) => c_fallback /\ c_bundle # NULL /\ Delivered(c_bundle)
  /\ ~c_fallback => Delivered(c_bundle)

\* A fresh bundle was not handed out.
LEMMA UnspentIsNew == ASSUME NEW b, Unspent(b) PROVE b \in Bundles /\ ~Delivered(b)
<1>1. b \in Bundles /\ b[2] \in Nat
  BY BundleShape DEF Unspent
<1>2. \A d \in Deliveries : BundleOf(d)[1] = b[1] => BundleOf(d)[2] < b[2]
  BY DEF Unspent
<1>3. ASSUME NEW d \in Deliveries, BundleOf(d) = b PROVE FALSE
  <2>1. b[2] < b[2]
    BY <1>2, <1>3
  <2> QED BY <1>1, <2>1
<1> QED BY <1>1, <1>3 DEF Delivered

\* The daemon writes to a consumer only that its bundle was taken.
LEMMA ConsumerLog ==
  ASSUME DaemonInv, Serves, NEW k \in Consumers
  PROVE  \/ sent'[k] = sent[k]
         \/ /\ \E d \in DepositType : Delivery(d, k)
            /\ Len(sent'[k]) = Len(sent[k]) + 1
<1>0. IInv /\ IInv' /\ Next /\ k \in Conns /\ sent \in [Conns -> Seq(Msgs)]
  BY ServesDaemon, ServesIsNext, ConnKinds DEF DaemonInv, IInv, TypeOK
<1>1. producer # NULL => ConnAt(producer) \in Conns /\ ConnAt(producer) # k
  BY <1>0, ClientConns DEF DaemonInv, Roles
<1>2. ASSUME NEW j \in Conns, j # k, NEW m, NEW log \in [Conns -> Seq(Msgs)]
      PROVE  Post(log, j, m)[k] = log[k]
  BY <1>0, <1>2 DEF Post
<1>3. ASSUME NEW d \in DepositType, NEW n \in Conns \cup {NULL}, Delivery(d, n)
      PROVE  \/ sent'[k] = sent[k]
             \/ n = k /\ Len(sent'[k]) = Len(sent[k]) + 1
  <2> DEFINE M == WithFds("FDS_READY", d.fds, d.bundle)
             mid == Post(sent, ConnAt(producer), M)
  <2>1. producer # NULL /\ sent' = Notify(mid, n)
    BY <1>3 DEF Delivery, Delivers
  <2>2. M \in Msgs /\ Plain("FDS_READY") \in Msgs
    BY MsgTypesOK DEF MsgTypes, DepositType
  <2>3. mid \in [Conns -> Seq(Msgs)] /\ mid[k] = sent[k]
    BY <1>0, <1>1, <1>2, <2>1, <2>2, PostType
  <2> HIDE DEF mid
  <2>4. CASE n # k
    BY <1>2, <2>1, <2>3, <2>4 DEF Notify
  <2>5. CASE n = k
    <3>1. sent' = Post(mid, k, Plain("FDS_READY"))
      BY <2>1, <2>5, ConnKinds DEF Notify
    <3>2. sent'[k] = mid[k] \/ sent'[k] = Append(mid[k], Plain("FDS_READY"))
      BY <1>0, <2>3, <3>1 DEF Post
    <3>3. mid[k] \in Seq(Msgs)
      BY <1>0, <2>3
    <3>4. Len(Append(mid[k], Plain("FDS_READY"))) = Len(mid[k]) + 1
      BY <3>3
    <3> QED BY <2>3, <2>5, <3>2, <3>4
  <2> QED BY <2>4, <2>5
<1>4. ASSUME NEW j \in Conns, NewProducer(j) PROVE sent'[k] = sent[k]
  <2>1. Takes(j) /\ Msg(j).type = "PRODUCER_HELLO"
    BY <1>4 DEF NewProducer, Greeted, Takes
  <2>2. 1 \in DOMAIN inq[j] /\ Msg(j) = inq[j][1]
    BY <1>0, <2>1, TakeEffect DEF IInv
  <2>3. j # k
    BY <2>1, <2>2 DEF DaemonInv, Roles
  <2> QED BY <1>0, <1>2, <1>4, <2>3 DEF NewProducer
<1>5. ASSUME NEW j \in Conns, NEW c \in Addr, ClientScreenInfo(c, j) PROVE sent'[k] = sent[k]
  BY <1>0, <1>1, <1>2, <1>5 DEF ClientScreenInfo
<1> QED BY <1>0, <1>3, <1>4, <1>5, Moves DEF Quiet, Send, Deposits

\* The daemon keeps it so.
LEMMA AnsweredServes ==
  ASSUME CtlInv, DaemonInv, LinkNext, Answered, Serves, UNCHANGED consumerVars
  PROVE  Answered'
<1>0. IInv /\ IInv' /\ Next
  BY ServesDaemon, ServesIsNext DEF DaemonInv
<1> PICK k : k = c_conn
  OBVIOUS
<1> PICK b : b = c_bundle
  OBVIOUS
<1>1. c_conn' = k /\ c_bundle' = b /\ c_read' = c_read /\ c_fallback' = c_fallback
  BY DEF consumerVars
<1>2. Delivered(b) => Delivered(b)'
  BY LinkGrows
<1>3. ~c_fallback => Delivered(b)'
  BY <1>2 DEF Answered
<1>4. ASSUME k # NULL
      PROVE  /\ \A i \in DOMAIN inq'[k] : inq'[k][i].fds > 0 => inq'[k][i].bundle = b
             /\ deposit'.fds > 0 /\ deposit'.bundle[1] = k => deposit'.bundle = b
             /\ Len(sent'[k]) <= c_read + 1
             /\ c_read < Len(sent'[k]) => c_fallback /\ b # NULL /\ Delivered(b)'
  <2>0. k \in Consumers /\ k \in Conns /\ c_read \in Nat
    BY <1>4, ConnKinds DEF CtlInv, LinkTypeOK
  <2>1. /\ \A i \in DOMAIN inq[k] : inq[k][i].fds > 0 => inq[k][i].bundle = b
        /\ deposit.fds > 0 /\ deposit.bundle[1] = k => deposit.bundle = b
        /\ Len(sent[k]) <= c_read + 1
        /\ c_read < Len(sent[k]) => c_fallback /\ b # NULL /\ Delivered(b)
    BY <1>4 DEF Answered
  <2>2. ASSUME Takes(k), Carried(Msg(k)).fds > 0 PROVE Carried(Msg(k)).bundle = b
    <3>1. 1 \in DOMAIN inq[k] /\ Msg(k) = inq[k][1] /\ Msg(k) \in Msgs
      BY <1>0, <2>0, <2>2, TakeEffect DEF IInv
    <3>2. Msg(k).fds > 0 /\ Carried(Msg(k)).bundle = Msg(k).bundle
      BY <2>2, <3>1 DEF Carried, Msgs
    <3> QED BY <2>1, <3>1, <3>2
  <2>3. \A i \in DOMAIN inq'[k] : inq'[k][i].fds > 0 => inq'[k][i].bundle = b
    <3>1. PICK s \in {0, 1} : \A i \in DOMAIN inq'[k] :
             i \in Nat /\ i + s \in DOMAIN inq[k] /\ inq'[k][i] = inq[k][i + s]
      BY <1>0, <2>0, ServesDrains, DrainEffect DEF IInv
    <3> QED BY <2>1, <3>1
  <2>4. deposit'.fds > 0 /\ deposit'.bundle[1] = k => deposit'.bundle = b
    <3>1. CASE deposit' = deposit
      BY <2>1, <3>1
    <3>2. CASE deposit' = NoDeposit
      BY <3>2 DEF NoDeposit
    <3>3. ASSUME NEW j \in Conns, Takes(j), deposit' = Carried(Msg(j)),
                 deposit'.fds > 0, deposit'.bundle[1] = k
          PROVE  deposit'.bundle = b
      <4>1. Carried(Msg(j)).bundle[1] = j
        BY <1>0, <3>3, FirstBundle DEF DaemonInv
      <4> QED BY <2>2, <3>3, <4>1
    <3> QED BY <1>0, <3>1, <3>2, <3>3, DepositSource
  <2>5. /\ Len(sent'[k]) <= c_read + 1
        /\ c_read < Len(sent'[k]) => c_fallback /\ b # NULL /\ Delivered(b)'
    <3>1. CASE sent'[k] = sent[k]
      BY <1>2, <2>1, <3>1
    <3>2. ASSUME NEW d \in DepositType, Delivery(d, k), Len(sent'[k]) = Len(sent[k]) + 1
          PROVE  /\ Len(sent'[k]) <= c_read + 1
                 /\ c_fallback /\ b # NULL /\ Delivered(b)'
      <4>1. Unspent(d.bundle) /\ d.bundle[1] = k /\ d.fds > 0
        BY <1>0, <1>4, <2>0, <3>2, DeliveredBundle DEF DaemonInv, NoticeInv
      <4>2. d = deposit \/ (Takes(k) /\ d = Carried(Msg(k)))
        BY <3>2 DEF Delivery
      <4>3. d.bundle = b
        BY <2>1, <2>2, <4>1, <4>2
      <4>4. ~Delivered(b) /\ b # NULL
        BY <4>1, <4>3, UnspentIsNew, NullAssumption
      <4>5. c_fallback
        BY <4>4 DEF Answered
      <4>6. Len(sent[k]) \in Nat
        BY <1>0, <2>0, UnreadHead
      <4>7. Len(sent'[k]) <= c_read + 1
        BY <2>0, <2>1, <3>2, <4>4, <4>6
      <4>8. Delivered(b)'
        <5>1. PICK pk \in Conns, x \in Nat : Handed(pk, x, d.bundle, k)
          BY <1>0, <2>0, <3>2, DeliverEffect DEF DepositType, Delivery
        <5>2. <<pk, x>> \in Deliveries' /\ BundleOf(<<pk, x>>)' = b
          BY <4>3, <5>1, HandedEffect
        <5> QED BY <5>2 DEF Delivered
      <4> QED BY <4>4, <4>5, <4>7, <4>8
    <3> QED BY <2>0, <3>1, <3>2, ConsumerLog
  <2> QED BY <2>3, <2>4, <2>5
<1> QED BY <1>1, <1>3, <1>4 DEF Answered, Delivered

\* Nothing of the consumer is on the way when it makes a new bundle.
LEMMA NothingOnTheWay ==
  ASSUME DaemonInv, Answered, c_conn \in Consumers, c_bundle = NULL \/ Delivered(c_bundle)
  PROVE  /\ \A i \in DOMAIN inq[c_conn] : ~(inq[c_conn][i].fds > 0)
         /\ ~(deposit.fds > 0 /\ deposit.bundle[1] = c_conn)
<1>0. c_conn \in Conns /\ c_conn # NULL
  BY ConnKinds
<1>1. ~Unspent(c_bundle)
  BY UnspentIsNew, NullAssumption
<1>2. ASSUME NEW i \in DOMAIN inq[c_conn], inq[c_conn][i].fds > 0 PROVE FALSE
  <2>1. InOrder(c_conn, inq[c_conn])
    BY <1>0 DEF DaemonInv, BundleInv
  <2>2. Unspent(inq[c_conn][i].bundle)
    BY <1>2, <2>1 DEF InOrder
  <2>3. inq[c_conn][i].bundle = c_bundle
    BY <1>0, <1>2 DEF Answered
  <2> QED BY <1>1, <2>2, <2>3
<1>3. ASSUME deposit.fds > 0, deposit.bundle[1] = c_conn PROVE FALSE
  <2>1. Unspent(deposit.bundle)
    BY <1>3 DEF DaemonInv, BundleInv
  <2>2. deposit.bundle = c_bundle
    BY <1>0, <1>3 DEF Answered
  <2> QED BY <1>1, <2>1, <2>2
<1> QED BY <1>2, <1>3

\* What waits in the socket of the consumer after a request waited there before, but
\* for the request.
LEMMA RequestQueue ==
  ASSUME IInv, NEW k \in Consumers, NEW m \in Msgs, Request(k, m)
  PROVE  \A i \in DOMAIN inq'[k] : (i \in DOMAIN inq[k] /\ inq'[k][i] = inq[k][i]) \/ inq'[k][i] = m
<1>1. k \in Conns
  BY ConnKinds
<1>2. CASE Queues(k, m)
  BY <1>1, <1>2, QueueEffect DEF Queues, IInv
<1>3. CASE UNCHANGED vars
  BY <1>3 DEF vars, socketVars
<1> QED BY <1>2, <1>3, RequestCases

\* A new bundle that the consumer offers is the only one on the way.
LEMMA AnsweredOffer ==
  ASSUME CtlInv, DaemonInv, Answered, Request(c_conn, Hello(c_conn)),
         c_pc = "hello" \/ ~c_fallback, c_bundle' = NewBundle(c_conn), c_fallback',
         UNCHANGED <<c_conn, c_read>>
  PROVE  Answered'
<1>0. IInv
  BY DEF DaemonInv
<1> PICK k : k = c_conn
  OBVIOUS
<1> PICK b : b = NewBundle(k)
  OBVIOUS
<1>1. /\ k \in Consumers /\ k \in Conns /\ k # NULL /\ c_read \in Nat
      /\ nmsgs[k] < MaxMsgs /\ b \in Bundles
  BY <1>0, RoomForBundle, ConnKinds DEF CtlInv, LinkTypeOK
<1>2. Hello(k) \in Msgs /\ Hello(k).bundle = b
  BY <1>0, <1>1, LinkMsgShape DEF LinkMsg, Hello, WithFds
<1>3. c_bundle = NULL \/ Delivered(c_bundle)
  BY DEF Answered, CtlInv, ConsumerCtl
<1>4. /\ \A i \in DOMAIN inq[k] : ~(inq[k][i].fds > 0)
      /\ ~(deposit.fds > 0 /\ deposit.bundle[1] = k)
  BY <1>1, <1>3, NothingOnTheWay
<1>5. Len(sent[k]) <= c_read + 1 /\ ~(c_read < Len(sent[k]))
  BY <1>1 DEF Answered, CtlInv, ConsumerCtl
<1>6. sent' = sent /\ deposit' = deposit
  BY <1>0, <1>1, RequestEffect
<1>7. \A i \in DOMAIN inq'[k] : inq'[k][i].fds > 0 => inq'[k][i].bundle = b
  BY <1>0, <1>1, <1>2, <1>4, RequestQueue
<1>8. c_conn' = k /\ c_read' = c_read /\ c_bundle' = b
  OBVIOUS
<1> QED BY <1>4, <1>5, <1>6, <1>7, <1>8 DEF Answered

\* Every step keeps it so.
LEMMA AnsweredStep ==
  ASSUME CtlInv, DaemonInv, Answered, [LinkNext]_linkVars
  PROVE  Answered'
<1>0. IInv
  BY DEF DaemonInv
<1> PICK k : k = c_conn
  OBVIOUS
<1> PICK b : b = c_bundle
  OBVIOUS
<1>1. k # NULL => k \in Consumers /\ k \in Conns /\ c_read \in Nat
  BY ConnKinds DEF CtlInv, LinkTypeOK
<1>2. ASSUME UNCHANGED <<c_conn, c_bundle, c_fallback, c_read, sent, deposit>>,
             k # NULL => \A i \in DOMAIN inq'[k] : \/ i \in DOMAIN inq[k] /\ inq'[k][i] = inq[k][i]
                                                   \/ ~(inq'[k][i].fds > 0)
      PROVE  Answered'
  <2>1. Delivered(b)' = Delivered(b)
    BY <1>2 DEF Delivered, Deliveries, Given, BundleOf
  <2>2. c_conn' = k /\ c_bundle' = b
    BY <1>2
  <2>3. ~c_fallback' => Delivered(c_bundle)'
    BY <1>2, <2>1, <2>2 DEF Answered, Delivered
  <2>4. ASSUME k # NULL
        PROVE  /\ \A i \in DOMAIN inq'[k] : inq'[k][i].fds > 0 => inq'[k][i].bundle = b
               /\ deposit'.fds > 0 /\ deposit'.bundle[1] = k => deposit'.bundle = b
               /\ Len(sent'[k]) <= c_read' + 1
               /\ c_read' < Len(sent'[k]) => c_fallback' /\ b # NULL /\ Delivered(b)'
    BY <1>2, <2>1, <2>4 DEF Answered
  <2> QED BY <2>2, <2>3, <2>4 DEF Answered, Delivered
<1>3. ASSUME UNCHANGED <<vars, c_conn, c_bundle, c_fallback, c_read>> PROVE Answered'
  BY <1>2, <1>3 DEF vars, socketVars, daemonVars
<1>4. CASE DropContext
  BY <1>4 DEF DropContext, Answered
<1>5. CASE CTop \/ CCrash
  BY <1>3, <1>4, <1>5 DEF CTop, CCrash
<1>6. CASE CConnect
  <2>1. PICK j \in Consumers : link[j] = "none" /\ Connect(j) /\ c_conn' = j
    BY <1>6 DEF CConnect, Fresh
  <2>2. j \in Conns /\ nmsgs[j] = 0 /\ UNCHANGED <<sent, inq, deposit>> /\ sent[j] = <<>>
    BY <2>1, ConnKinds DEF Connect, daemonVars, DaemonInv, Roles, ScreenInv, SilentBeforeGreeting
  <2>3. ASSUME NEW x, Unspent(x), x[1] = j PROVE FALSE
    <3>1. x[2] \in Nat /\ x[2] >= 1 /\ x[2] <= 0
      BY <2>2, <2>3, BoundAssumption DEF Unspent, Bundles
    <3> QED BY <3>1
  <2>4. \A i \in DOMAIN inq[j] : ~(inq[j][i].fds > 0)
    BY <2>2, <2>3 DEF DaemonInv, BundleInv, InOrder
  <2>5. ~(deposit.fds > 0 /\ deposit.bundle[1] = j)
    BY <2>3 DEF DaemonInv, BundleInv
  <2>6. c_fallback' /\ c_read' = 0
    BY <1>6 DEF CConnect, CtlInv, ConsumerCtl
  <2>7. Len(sent[j]) = 0
    BY <2>2
  <2> QED BY <2>1, <2>2, <2>4, <2>5, <2>6, <2>7 DEF Answered
<1>7. CASE CHello
  <2>1. c_fallback
    BY <1>7 DEF CHello, CtlInv, ConsumerCtl
  <2> QED BY <1>7, <2>1, AnsweredOffer DEF CHello
<1>8. CASE CHangup \/ CAppHangup
  BY <1>8, AnsweredOffer DEF CHangup, CAppHangup, enter_fallback
<1>9. CASE CScreen
  <2>1. PICK s \in Screens : Request(c_conn, ScreenInfo(s))
    BY <1>9 DEF CScreen
  <2>2. k \in Consumers /\ UNCHANGED <<c_conn, c_bundle, c_fallback, c_read>>
    BY <1>1, <1>9 DEF CScreen, CtlInv, ConsumerCtl
  <2>3. UNCHANGED <<sent, deposit>>
    BY <1>0, <2>1, <2>2, RequestEffect
  <2>4. ScreenInfo(s) \in Msgs /\ ~(ScreenInfo(s).fds > 0)
    BY MsgTypesOK DEF ScreenInfo
  <2>5. \A i \in DOMAIN inq'[k] : (i \in DOMAIN inq[k] /\ inq'[k][i] = inq[k][i]) \/ inq'[k][i] = ScreenInfo(s)
    BY <1>0, <2>1, <2>2, <2>4, RequestQueue
  <2> QED BY <1>2, <2>2, <2>3, <2>4, <2>5
<1>10. CASE CExitFallback
  <2>1. /\ UNCHANGED <<c_conn, c_bundle, inq, sent, deposit>> /\ k # NULL /\ c_fallback
        /\ k \in Conns
    BY <1>0, <1>1, <1>10, ExitCases, ConnKinds DEF CExitFallback, vars, socketVars, daemonVars
  <2>2. CASE c_fallback' = c_fallback /\ c_read' = c_read
    BY <1>2, <2>1, <2>2
  <2>3. CASE c_read' = c_read + 1 /\ c_read < Len(sent[k]) /\ c_fallback' \in BOOLEAN
    <3>1. Len(sent[k]) <= c_read + 1 /\ Delivered(b) /\ Len(sent[k]) \in Nat /\ c_read \in Nat
      BY <1>0, <1>1, <2>1, <2>3, UnreadHead DEF Answered
    <3>2. ~(c_read' < Len(sent'[k])) /\ Len(sent'[k]) <= c_read' + 1
      BY <2>1, <2>3, <3>1
    <3>3. Delivered(c_bundle)'
      BY <2>1, <3>1 DEF Delivered, Deliveries, Given, BundleOf
    <3>4. c_conn' = k /\ c_bundle' = b
      BY <2>1
    <3> QED BY <2>1, <3>2, <3>3, <3>4 DEF Answered
  <2> QED BY <1>0, <1>10, <2>2, <2>3, ExitCases
<1>11. CASE CStart \/ CPush \/ CSelect \/ CRefreshDone \/ CWake \/ CSetSocketPath \/ CInput
  BY <1>3, <1>11 DEF CStart, CPush, CSelect, CRefreshDone, CWake, CSetSocketPath, CInput, consumerVars
<1>12. CASE PStart \/ ProducerRuns \/ PCrash \/ PWindowEvent
  <2>1. UNCHANGED <<c_conn, c_bundle, c_fallback, c_read>>
    BY <1>0, <1>12, ProducerAlone DEF consumerVars
  <2>2. ASSUME NEW m, p_pc # "off", Request(p_conn, m) PROVE Answered'
    <3>1. p_conn # k
      BY <1>1, <2>2, ConnKinds DEF CtlInv, LinkTypeOK, ProducerCtl
    <3>2. inq \in [Conns -> Seq(Msgs)]
      BY <1>0 DEF IInv, TypeOK
    <3>3. /\ UNCHANGED <<sent, deposit>>
          /\ k # NULL => inq'[k] = inq[k]
      BY <1>1, <2>2, <3>1, <3>2, RequestCases DEF Queues, vars, socketVars, daemonVars
    <3> QED BY <1>2, <2>1, <3>3
  <2>3. CASE PHello \/ PPickup \/ PRetry
    BY <2>2, <2>3 DEF PHello, PPickup, PRetry
  <2>4. CASE PStart \/ PCrash
    <3>1. UNCHANGED <<sent, inq, deposit>>
      BY <2>4 DEF PStart, PCrash, Connect, daemonVars
    <3> QED BY <1>2, <2>1, <3>1
  <2>5. CASE PScreen \/ PTake \/ PReconnect \/ PTimeout \/ PRefused \/ PBufReady \/ PRepaint
    BY <1>3, <2>1, <2>5 DEF PScreen, PTake, PReconnect, TakeFds, PTimeout, PRefused, PBufReady, PRepaint
  <2>6. CASE PFirstBuffer \/ PInput \/ PWindowEvent
    BY <1>3, <2>1, <2>6 DEF PFirstBuffer, receive_dmabufs, EnterFallback, PInput,
       poll_display_event, PWindowEvent
  <2> QED BY <1>12, <2>3, <2>4, <2>5, <2>6 DEF ProducerRuns
<1>13. CASE DaemonServes
  BY <1>13, AnsweredServes DEF DaemonServes, Serves, LinkNext
<1>14. CASE UNCHANGED linkVars
  BY <1>3, <1>14 DEF linkVars, consumerVars
<1> QED BY <1>5, <1>6, <1>7, <1>8, <1>9, <1>10, <1>11, <1>12, <1>13, <1>14
  DEF LinkNext, ConsumerRuns, Disturb

LinkInv == CtlInv /\ DaemonInv /\ Answered

\* The two programs and the daemon stay together.
LEMMA LinkInvHolds == LinkSpec => []LinkInv
<1>1. LinkInit => LinkInv
  BY LinkStart DEF LinkInit, LinkInv, Answered
<1>2. LinkInv /\ [LinkNext]_linkVars => LinkInv'
  BY CtlStep, DaemonKept, AnsweredStep DEF LinkInv
<1> QED BY <1>1, <1>2, PTL DEF LinkSpec

\* The consumer leaves fallback only for a bundle that a producer was given: an
\* FDS_READY never answers for another one (LinkedBundle).
THEOREM FallbackEndsForOwnBundle == LinkSpec => []LinkedBundle
<1>1. LinkInv => LinkedBundle
  BY DEF LinkInv, Answered, Delivered, LinkedBundle
<1> QED BY <1>1, LinkInvHolds, PTL

\* What DisplayDaemon promises for clients of every kind it keeps for the two
\* libraries: a screen that agrees, each bundle once and in order, notices that are
\* earned, and no wakeup lost.
THEOREM DaemonServesBoth ==
  LinkSpec => [](ScreenAgreement /\ BundlesInOrder /\ NoticeIsForOwnBundle /\ NoLostFds
                 /\ NoLostScreen /\ ClientsOwnSockets)
<1>1. LinkInv => ScreenAgreement /\ BundlesInOrder /\ NoticeIsForOwnBundle /\ NoLostFds
                 /\ NoLostScreen /\ ClientsOwnSockets
  BY DEF LinkInv, DaemonInv, ScreenInv, BundleInv, NoticeInv, IInv
<1> QED BY <1>1, LinkInvHolds, PTL

-----------------------------------------------------------------------------
(* Who holds the producer's end of a bundle. *)

\* The bundle b waits in the socket of the producer.
UnreadBy(b) ==
  p_conn # NULL /\ \E i \in (p_read + 1)..Len(sent[p_conn]) : sent[p_conn][i].bundle = b

\* Once it was handed out, its end is in the producer's context or in its socket.
Held(b) == p_bundle = b \/ UnreadBy(b)

\* It is not in both: a bundle that the producer gives up is gone.
HeldOnce == p_bundle # NULL => ~UnreadBy(p_bundle)

\* That is what is left of ProducerEnd.
LEMMA EndIsHeld ==
  ASSUME LinkInv, NEW b, Delivered(b)
  PROVE  ProducerEnd(b) <=> Held(b)
<1>1. b \in Bundles /\ b # NULL
  BY NullAssumption DEF LinkInv, DaemonInv, BundleInv, Delivered
<1>2. ~Unspent(b)
  BY UnspentIsNew
<1>3. deposit.bundle # b
  BY <1>1, <1>2 DEF LinkInv, DaemonInv, Tagged, BundleInv
<1>4. ASSUME NEW k \in Consumers, NEW i \in 1..Len(inq[k]) PROVE inq[k][i].bundle # b
  <2>1. k \in Conns /\ inq[k] \in Seq(Msgs)
    BY ConnKinds DEF LinkInv, DaemonInv, IInv, TypeOK
  <2>2. i \in DOMAIN inq[k]
    BY <1>4, <2>1
  <2>3. InOrder(k, inq[k])
    BY <2>1 DEF LinkInv, DaemonInv, BundleInv
  <2>4. inq[k][i].bundle # NULL => inq[k][i].fds > 0
    BY <2>1, <2>2 DEF LinkInv, DaemonInv, Tagged
  <2> QED BY <1>1, <1>2, <2>2, <2>3, <2>4 DEF InOrder
<1>5. p_conn # NULL => peer[p_conn]
  BY DEF LinkInv, CtlInv, ProducerCtl
<1> QED BY <1>3, <1>4, <1>5 DEF ProducerEnd, Held, UnreadBy

\* A message that was written stays in the log.
LEMMA LogsGrow ==
  ASSUME CtlInv, DaemonInv, LinkNext
  PROVE  \A k \in Conns : \A i \in DOMAIN sent[k] : sent'[k][i] = sent[k][i]
<1>0. IInv /\ IInv'
  BY DaemonKept DEF DaemonInv
<1>1. ASSUME Next PROVE \A k \in Conns : \A i \in DOMAIN sent[k] : sent'[k][i] = sent[k][i]
  <2>1. ASSUME NEW d \in DepositType, NEW n \in Conns \cup {NULL}, Delivery(d, n)
        PROVE  \A k \in Conns : \A i \in DOMAIN sent[k] : sent'[k][i] = sent[k][i]
    <3>1. PICK pk \in Conns, x \in Nat : Handed(pk, x, d.bundle, n)
      BY <1>0, <2>1, DeliverEffect DEF DepositType, Delivery
    <3> QED BY <3>1 DEF Handed
  <2> QED BY <1>0, <1>1, <2>1, KeptSteps DEF Kept
<1>2. CASE sent' = sent
  BY <1>2
<1> QED BY <1>0, <1>1, <1>2, LinkKinds, ServesIsNext DEF vars, socketVars, Drops, Queues

\* What the producer does with its connection and its bundle.
LEMMA ProducerKeeps ==
  ASSUME CtlInv, DaemonInv, LinkNext
  PROVE  /\ \/ p_conn' = p_conn /\ p_read' \in {p_read, p_read + 1}
            \/ p_conn' = NULL
            \/ p_conn' # NULL /\ sent'[p_conn'] = <<>>
         /\ \/ p_bundle' \in {p_bundle, NULL}
            \/ TakeFds /\ p_pc # "off"
<1> DEFINE Goal == /\ \/ p_conn' = p_conn /\ p_read' \in {p_read, p_read + 1}
                      \/ p_conn' = NULL
                      \/ p_conn' # NULL /\ sent'[p_conn'] = <<>>
                   /\ \/ p_bundle' \in {p_bundle, NULL}
                      \/ TakeFds /\ p_pc # "off"
<1>1. CASE UNCHANGED producerVars
  BY <1>1 DEF producerVars
<1>2. CASE PStart
  <2>1. PICK k \in Producers : link[k] = "none" /\ Connect(k) /\ p_conn' = k
    BY <1>2 DEF PStart, Fresh
  <2>2. sent[k] = <<>> /\ sent' = sent /\ k # NULL
    BY <2>1, ConnKinds DEF Connect, DaemonInv, ScreenInv, SilentBeforeGreeting
  <2> QED BY <1>2, <2>1, <2>2 DEF PStart
<1>3. CASE PTake \/ PReconnect
  BY <1>3 DEF PTake, PReconnect, TakeFds
<1>4. CASE PHello \/ PScreen \/ PPickup \/ PRetry \/ PTimeout \/ PRefused
  BY <1>4 DEF PHello, PScreen, PPickup, PRetry, PTimeout, PRefused
<1>5. CASE PFirstBuffer \/ PBufReady \/ PRepaint
  BY <1>5 DEF PFirstBuffer, receive_dmabufs, EnterFallback, PBufReady, PRepaint
<1>6. CASE PInput \/ PWindowEvent \/ PCrash
  BY <1>1, <1>6 DEF PInput, poll_display_event, EnterFallback, PWindowEvent, PCrash
<1>7. CASE CStart \/ ConsumerRuns \/ CAppHangup \/ CWake \/ CSetSocketPath \/ CCrash
  BY <1>1, <1>7, ConsumerAlone DEF DaemonInv
<1>8. CASE DaemonServes \/ CInput
  BY <1>1, <1>8 DEF DaemonServes, CInput
<1> QED BY <1>2, <1>3, <1>4, <1>5, <1>6, <1>7, <1>8 DEF LinkNext, ProducerRuns, Disturb

\* A bundle that was handed out before does not come again.
LEMMA UnreadStays ==
  ASSUME LinkInv, LinkInv', LinkNext, NEW b, Delivered(b), UnreadBy(b)'
  PROVE  UnreadBy(b)
<1>0. CtlInv /\ DaemonInv /\ DaemonInv' /\ IInv /\ IInv'
  BY DEF LinkInv, DaemonInv
<1> PICK k : k = p_conn'
  OBVIOUS
<1>1. k # NULL /\ \E i \in (p_read' + 1)..Len(sent'[k]) : sent'[k][i].bundle = b
  BY DEF UnreadBy
<1>2. PICK i \in (p_read' + 1)..Len(sent'[k]) : sent'[k][i].bundle = b
  BY <1>1
<1>3. k \in Conns /\ p_read' \in Nat /\ p_read \in Nat
  BY <1>1, ConnKinds DEF LinkInv, CtlInv, LinkTypeOK
<1>4. sent'[k] \in Seq(Msgs) /\ sent[k] \in Seq(Msgs)
  BY <1>0, <1>3 DEF IInv, TypeOK
<1>5. i \in Nat /\ i >= p_read' + 1 /\ i \in DOMAIN sent'[k]
  BY <1>3, <1>4
<1>6. sent'[k] # <<>>
  BY <1>4, <1>5
<1>7. p_conn = k /\ p_read <= p_read'
  BY <1>0, <1>1, <1>3, <1>6, ProducerKeeps
<1>8. PICK d \in Deliveries : BundleOf(d) = b
  BY DEF Delivered
<1>9. d \in Deliveries' /\ BundleOf(d)' = b
  BY <1>0, <1>8, LinkGrows
<1>10. b \in Bundles /\ b # NULL
  BY <1>0, <1>8, NullAssumption DEF DaemonInv, BundleInv
<1>11. i \in Given(k)'
  BY <1>0, <1>2, <1>3, <1>5, <1>10 DEF DaemonInv, Tagged, Honest, Given
<1> PICK e : e = <<k, i>>
  OBVIOUS
<1>12. e \in Deliveries' /\ BundleOf(e)' = b
  BY <1>2, <1>3, <1>11, DeliveryPlaceNext DEF BundleOf
<1>13. d = e
  BY <1>0, <1>9, <1>12 DEF DaemonInv, BundleInv, BundlesInOrder
<1>14. i \in DOMAIN sent[k]
  <2>1. PICK j \in Conns : \E x \in Given(j) : d = <<j, x>>
    BY <1>8, DeliveryPlace
  <2>2. i \in Given(k)
    BY <1>13, <2>1
  <2> QED BY <2>2 DEF Given
<1>15. sent[k][i].bundle = b
  BY <1>0, <1>2, <1>3, <1>14, LogsGrow
<1>16. i \in (p_read + 1)..Len(sent[k])
  BY <1>3, <1>4, <1>5, <1>7, <1>14
<1> QED BY <1>1, <1>7, <1>15, <1>16 DEF UnreadBy

\* So an end that is closed stays closed.
LEMMA HeldStays ==
  ASSUME LinkInv, LinkInv', LinkNext, NEW b, Delivered(b), Held(b)'
  PROVE  Held(b)
<1>0. CtlInv /\ DaemonInv
  BY DEF LinkInv
<1>1. CASE UnreadBy(b)'
  BY <1>1, UnreadStays DEF Held
<1>2. CASE p_bundle' = b
  <2>1. b # NULL
    BY NullAssumption DEF LinkInv, DaemonInv, BundleInv, Delivered
  <2>2. CASE p_bundle' \in {p_bundle, NULL}
    BY <1>2, <2>1, <2>2 DEF Held
  <2>3. CASE TakeFds /\ p_pc # "off"
    <3>1. /\ p_conn \in Producers /\ p_conn \in Conns /\ p_read < Len(sent[p_conn])
          /\ sent[p_conn][p_read + 1].bundle = b
      BY <1>0, <1>2, <2>3, TakeFdsEffect
    <3>2. p_read \in Nat /\ Len(sent[p_conn]) \in Nat
      BY <1>0, <3>1, UnreadHead DEF CtlInv, LinkTypeOK, DaemonInv
    <3>3. p_read + 1 \in (p_read + 1)..Len(sent[p_conn])
      BY <3>1, <3>2
    <3> QED BY <3>1, <3>3, ConnKinds DEF Held, UnreadBy
  <2> QED BY <1>0, <2>2, <2>3, ProducerKeeps
<1> QED BY <1>1, <1>2 DEF Held

\* The end is never in two places.
LEMMA HeldOnceStep ==
  ASSUME LinkInv, LinkInv', LinkNext, HeldOnce
  PROVE  HeldOnce'
<1>0. CtlInv /\ DaemonInv /\ DaemonInv' /\ IInv
  BY DEF LinkInv, DaemonInv
<1> PICK b : b = p_bundle'
  OBVIOUS
<1> SUFFICES ASSUME b # NULL, UnreadBy(b)' PROVE FALSE
  BY DEF HeldOnce, UnreadBy
<1>1. CASE p_bundle' = p_bundle
  <2>1. Delivered(b)
    BY <1>0, <1>1 DEF CtlInv, ProducerCtl
  <2> QED BY <1>1, <2>1, UnreadStays DEF HeldOnce
<1>2. CASE TakeFds /\ p_pc # "off"
  <2>1. /\ p_conn \in Producers /\ p_conn \in Conns /\ p_read + 1 \in DOMAIN sent[p_conn]
        /\ b = sent[p_conn][p_read + 1].bundle /\ b \in Bundles
    BY <1>0, <1>2, TakeFdsEffect
  <2>2. sent' = sent /\ p_conn' = p_conn /\ p_read' = p_read + 1 /\ p_read \in Nat
    BY <1>0, <1>2 DEF TakeFds, vars, socketVars, CtlInv, LinkTypeOK
  <2>3. PICK i \in (p_read + 1 + 1)..Len(sent[p_conn]) : sent[p_conn][i].bundle = b
    BY <2>2 DEF UnreadBy
  <2>4. sent[p_conn] \in Seq(Msgs)
    BY <1>0, <2>1 DEF IInv, TypeOK
  <2>5. i \in DOMAIN sent[p_conn] /\ i # p_read + 1
    BY <2>2, <2>3, <2>4
  <2>6. i \in Given(p_conn) /\ p_read + 1 \in Given(p_conn)
    BY <1>0, <2>1, <2>3, <2>5, NullAssumption DEF DaemonInv, Tagged, Honest, Given
  <2> PICK d : d = <<p_conn, i>>
    OBVIOUS
  <2> PICK e : e = <<p_conn, p_read + 1>>
    OBVIOUS
  <2>7. d \in Deliveries /\ e \in Deliveries /\ BundleOf(d) = b /\ BundleOf(e) = b
    BY <2>1, <2>3, <2>6, DeliveryPlace DEF BundleOf
  <2>8. d = e
    BY <1>0, <2>7 DEF DaemonInv, BundleInv, BundlesInOrder
  <2> QED BY <2>5, <2>8
<1> QED BY <1>0, <1>1, <1>2, ProducerKeeps

-----------------------------------------------------------------------------
(* The signals of a bundle. *)

Painting(b) == p_bundle = b /\ p_ready

SameSignals(b) ==
  /\ buf_ready'[b] = buf_ready[b]
  /\ refresh'[b] = refresh[b]
  /\ Painting(b)' <=> Painting(b)

\* A frame moves on ...
Announces(b) ==
  /\ b = c_bundle /\ ~c_fallback /\ ~c_pending /\ c_pending'
  /\ buf_ready'[b] = TRUE /\ refresh'[b] = refresh[b] /\ (Painting(b)' <=> Painting(b))
TakesUp(b) ==
  /\ p_bundle = b /\ buf_ready[b] /\ buf_ready'[b] = FALSE /\ Painting(b)'
  /\ refresh'[b] = refresh[b] /\ c_pending' = c_pending
HandsBack(b) ==
  /\ Painting(b) /\ ~Painting(b)' /\ refresh'[b] = TRUE
  /\ buf_ready'[b] = buf_ready[b] /\ c_pending' = c_pending
Posts(b) ==
  /\ b = c_bundle /\ c_pending /\ ~c_pending' /\ refresh[b] /\ refresh'[b] = FALSE
  /\ buf_ready'[b] = buf_ready[b] /\ (Painting(b)' <=> Painting(b))

\* ... or is lost with a stop of the app or with the producer's end.
Wakes(b) == b = c_bundle /\ ~c_running'
GivesUp(b) ==
  /\ p_bundle = b /\ p_bundle' = NULL
  /\ buf_ready'[b] = buf_ready[b] /\ refresh'[b] = refresh[b]

\* What the steps of the link are to the signals of bundle b.
LEMMA SignalSteps ==
  ASSUME LinkInv, LinkNext, NEW b \in Bundles
  PROVE  \/ SameSignals(b) /\ (b = c_bundle => c_pending' = c_pending \/ c_fallback')
         \/ Announces(b) \/ TakesUp(b) \/ HandsBack(b) \/ Posts(b) \/ Wakes(b) \/ GivesUp(b)
<1> DEFINE Quietly == SameSignals(b) /\ (b = c_bundle => c_pending' = c_pending \/ c_fallback')
<1>0. /\ CtlInv /\ b # NULL
      /\ buf_ready \in [Bundles -> BOOLEAN] /\ refresh \in [Bundles -> BOOLEAN]
  BY NullAssumption DEF LinkInv, CtlInv, LinkTypeOK
<1>1. ASSUME UNCHANGED <<buf_ready, refresh, p_bundle, p_ready>>, c_pending' = c_pending \/ c_fallback'
      PROVE  Quietly
  BY <1>1 DEF SameSignals, Painting
<1>2. CASE CTop \/ CCrash
  BY <1>1, <1>2 DEF CTop, CCrash, DropContext, producerVars, objectVars
<1>3. CASE CStart \/ CConnect \/ CHello \/ CScreen \/ CExitFallback \/ CPush \/ CSetSocketPath
  BY <1>1, <1>3 DEF CStart, CConnect, CHello, CScreen, CExitFallback, CPush, CSetSocketPath,
     producerVars, objectVars
<1>4. CASE CHangup \/ CAppHangup
  BY <1>1, <1>4 DEF CHangup, CAppHangup, enter_fallback, producerVars, objectVars
<1>5. CASE CInput
  BY <1>1, <1>5 DEF CInput, producerVars, consumerVars
<1>6. CASE CSelect
  <2>1. UNCHANGED <<p_bundle, p_ready, refresh>>
    BY <1>6 DEF CSelect, producerVars
  <2>2. CASE c_fallback
    BY <1>1, <1>6, <2>1, <2>2 DEF CSelect
  <2>3. CASE ~c_fallback
    <3>1. buf_ready' = [buf_ready EXCEPT ![c_bundle] = TRUE] /\ c_pending' /\ ~c_pending
      BY <1>0, <1>6, <2>3 DEF CSelect, CtlInv, ConsumerCtl
    <3>2. CASE b = c_bundle
      BY <1>0, <2>1, <2>3, <3>1, <3>2 DEF Announces, Painting
    <3>3. CASE b # c_bundle
      BY <1>0, <2>1, <3>1, <3>3 DEF SameSignals, Painting
    <3> QED BY <3>2, <3>3
  <2> QED BY <2>2, <2>3
<1>7. CASE CRefreshDone
  <2>1. UNCHANGED <<p_bundle, p_ready, buf_ready>> /\ c_pending \in BOOLEAN
    BY <1>0, <1>7 DEF CRefreshDone, producerVars, CtlInv, LinkTypeOK
  <2>2. CASE ~c_pending
    <3>1. refresh' = refresh /\ c_pending' = c_pending
      BY <1>7, <2>1, <2>2 DEF CRefreshDone
    <3> QED BY <1>1, <2>1, <3>1
  <2>3. CASE c_pending
    <3>1. refresh' = [refresh EXCEPT ![c_bundle] = FALSE] /\ ~c_pending' /\ refresh[c_bundle]
      BY <1>7, <2>3 DEF CRefreshDone
    <3>2. CASE b = c_bundle
      BY <1>0, <2>1, <2>3, <3>1, <3>2 DEF Posts, Painting
    <3>3. CASE b # c_bundle
      BY <1>0, <2>1, <3>1, <3>3 DEF SameSignals, Painting
    <3> QED BY <3>2, <3>3
  <2> QED BY <2>2, <2>3
<1>8. CASE CWake
  <2>1. CASE b = c_bundle
    BY <1>8, <2>1 DEF CWake, Wakes
  <2>2. CASE b # c_bundle
    <3>1. buf_ready'[b] = buf_ready[b] /\ refresh'[b] = refresh[b]
      BY <1>0, <1>8, <2>2 DEF CWake, wake_display_consumer
    <3>2. UNCHANGED <<p_bundle, p_ready>>
      BY <1>8 DEF CWake, producerVars
    <3> QED BY <2>2, <3>1, <3>2 DEF SameSignals, Painting
  <2> QED BY <2>1, <2>2
<1>9. CASE PStart \/ PHello \/ PScreen \/ PPickup \/ PRetry \/ PTimeout \/ PRefused
  BY <1>1, <1>9 DEF PStart, PHello, PScreen, PPickup, PRetry, PTimeout, PRefused, consumerVars, objectVars
<1>10. CASE DaemonServes
  BY <1>1, <1>10 DEF DaemonServes, producerVars, consumerVars, objectVars
<1>11. CASE PTake \/ PReconnect
  <2>1. UNCHANGED <<buf_ready, refresh, p_ready, c_pending>>
    BY <1>11 DEF PTake, PReconnect, TakeFds, consumerVars, objectVars
  <2>2. ~p_ready
    BY <1>0, <1>11 DEF PTake, PReconnect, CtlInv, ProducerCtl
  <2> QED BY <2>1, <2>2 DEF SameSignals, Painting
<1>12. CASE EnterFallback \/ PCrash
  <2>1. p_bundle' = NULL /\ UNCHANGED <<buf_ready, refresh, c_pending>>
    BY <1>12 DEF EnterFallback, PCrash, consumerVars, objectVars
  <2>2. CASE p_bundle = b
    BY <2>1, <2>2 DEF GivesUp
  <2>3. CASE p_bundle # b
    BY <1>0, <2>1, <2>3 DEF SameSignals, Painting
  <2> QED BY <2>2, <2>3
<1>13. ASSUME buf_ready' = [buf_ready EXCEPT ![p_bundle] = FALSE], buf_ready[p_bundle], p_ready',
              UNCHANGED <<p_bundle, refresh, c_pending>>
       PROVE  Quietly \/ TakesUp(b)
  <2>1. CASE p_bundle = b
    BY <1>0, <1>13, <2>1 DEF TakesUp, Painting
  <2>2. CASE p_bundle # b
    BY <1>0, <1>13, <2>2 DEF SameSignals, Painting
  <2> QED BY <2>1, <2>2
<1>14. CASE PFirstBuffer /\ ~EnterFallback
  BY <1>13, <1>14 DEF PFirstBuffer, receive_dmabufs, consumerVars
<1>15. CASE PBufReady
  BY <1>13, <1>15 DEF PBufReady, consumerVars
<1>16. CASE PRepaint
  <2>1. /\ refresh' = [refresh EXCEPT ![p_bundle] = TRUE] /\ p_ready /\ ~p_ready'
        /\ UNCHANGED <<p_bundle, buf_ready, c_pending>>
    BY <1>16 DEF PRepaint, consumerVars
  <2>2. CASE p_bundle = b
    BY <1>0, <2>1, <2>2 DEF HandsBack, Painting
  <2>3. CASE p_bundle # b
    BY <1>0, <2>1, <2>3 DEF SameSignals, Painting
  <2> QED BY <2>2, <2>3
<1>17. CASE PInput /\ ~EnterFallback
  BY <1>1, <1>17 DEF PInput, poll_display_event, producerVars, consumerVars
<1>18. CASE PWindowEvent
  BY <1>12, <1>18 DEF PWindowEvent
<1> QED BY <1>2, <1>3, <1>4, <1>5, <1>6, <1>7, <1>8, <1>9, <1>10, <1>11, <1>12, <1>14, <1>15,
      <1>16, <1>17, <1>18 DEF LinkNext, ConsumerRuns, ProducerRuns, Disturb

\* When the context changes: a connection goes with its bundle and its fallback ends, a
\* new one starts without a bundle, and a new bundle starts in fallback.
LEMMA ContextSteps ==
  ASSUME LinkInv, LinkNext
  PROVE  /\ \/ UNCHANGED <<c_conn, c_bundle>>
            \/ c_conn' = NULL /\ c_bundle' = NULL /\ c_fallback'
            \/ c_conn = NULL /\ c_bundle = NULL /\ c_bundle' = NULL /\ c_fallback'
               /\ c_conn' \in Consumers /\ link[c_conn'] = "none"
            \/ c_conn' = c_conn /\ c_conn \in Consumers /\ c_bundle' = NewBundle(c_conn) /\ c_fallback'
               /\ (c_bundle = NULL \/ Delivered(c_bundle))
         /\ c_bundle' # NULL /\ c_running' => c_running
         /\ UNCHANGED c_bundle /\ c_bundle # NULL /\ c_fallback' => c_fallback
         /\ c_fallback /\ ~c_fallback' =>
              UNCHANGED <<vars, producerVars, objectVars, c_bundle, c_pending>>
<1> DEFINE Goal ==
         /\ \/ UNCHANGED <<c_conn, c_bundle>>
            \/ c_conn' = NULL /\ c_bundle' = NULL /\ c_fallback'
            \/ c_conn = NULL /\ c_bundle = NULL /\ c_bundle' = NULL /\ c_fallback'
               /\ c_conn' \in Consumers /\ link[c_conn'] = "none"
            \/ c_conn' = c_conn /\ c_conn \in Consumers /\ c_bundle' = NewBundle(c_conn) /\ c_fallback'
               /\ (c_bundle = NULL \/ Delivered(c_bundle))
         /\ c_bundle' # NULL /\ c_running' => c_running
         /\ UNCHANGED c_bundle /\ c_bundle # NULL /\ c_fallback' => c_fallback
         /\ c_fallback /\ ~c_fallback' =>
              UNCHANGED <<vars, producerVars, objectVars, c_bundle, c_pending>>
<1>0. CtlInv /\ DaemonInv /\ Answered /\ IInv /\ ConsumerCtl
  BY DEF LinkInv, DaemonInv, CtlInv
<1>1. CASE UNCHANGED <<c_conn, c_bundle, c_fallback, c_running>>
  BY <1>1
<1>2. CASE DropContext
  BY <1>2 DEF DropContext
<1>3. CASE CTop \/ CCrash
  BY <1>1, <1>2, <1>3 DEF CTop, CCrash
<1>4. CASE CStart
  BY <1>0, <1>4 DEF CStart, ConsumerCtl
<1>5. CASE CConnect
  BY <1>0, <1>5 DEF CConnect, Fresh, ConsumerCtl
<1>6. CASE CHello
  <2>1. /\ c_pc = "hello" /\ c_bundle' = NewBundle(c_conn)
        /\ UNCHANGED <<c_conn, c_fallback, c_running>>
    BY <1>6 DEF CHello
  <2>2. c_bundle = NULL /\ c_fallback /\ c_conn \in Consumers
    BY <1>0, <2>1, RoomForBundle DEF ConsumerCtl
  <2> QED BY <2>1, <2>2
<1>7. CASE CHangup \/ CAppHangup
  <2>1. /\ ~c_fallback /\ c_bundle' = NewBundle(c_conn) /\ c_fallback'
        /\ UNCHANGED <<c_conn, c_running>>
    BY <1>7 DEF CHangup, CAppHangup, enter_fallback
  <2>2. c_conn \in Consumers /\ Delivered(c_bundle) /\ NewBundle(c_conn)[2] = nmsgs[c_conn] + 1
        /\ nmsgs[c_conn] \in Nat /\ c_bundle[1] = c_conn
    BY <1>0, <2>1, RoomForBundle DEF Answered, ConsumerCtl
  <2>3. c_bundle[2] <= nmsgs[c_conn]
    BY <1>0, <2>2 DEF DaemonInv, BundleInv, Delivered
  <2>4. c_bundle' # c_bundle
    <3>1. c_bundle \in Bundles
      BY <1>0, <2>2 DEF DaemonInv, BundleInv, Delivered
    <3>2. c_bundle[2] \in Nat
      BY <3>1, BundleShape
    <3> QED BY <2>1, <2>2, <2>3, <3>2
  <2> QED BY <2>1, <2>2, <2>4
<1>8. CASE CScreen \/ CPush \/ CSelect \/ CRefreshDone \/ CSetSocketPath \/ CInput
  BY <1>1, <1>8 DEF CScreen, CPush, CSelect, CRefreshDone, CSetSocketPath, CInput, consumerVars
<1>9. CASE CExitFallback
  <2>1. UNCHANGED <<vars, producerVars, objectVars, c_conn, c_bundle, c_pending, c_running>> /\ c_fallback
    BY <1>9 DEF CExitFallback
  <2> QED BY <2>1
<1>10. CASE CWake
  BY <1>10 DEF CWake
<1>11. CASE PStart \/ ProducerRuns \/ PCrash \/ PWindowEvent
  BY <1>0, <1>1, <1>11, ProducerAlone DEF consumerVars
<1>12. CASE DaemonServes
  BY <1>1, <1>12 DEF DaemonServes, consumerVars
<1> QED BY <1>3, <1>4, <1>5, <1>6, <1>7, <1>8, <1>9, <1>10, <1>11, <1>12
  DEF LinkNext, ConsumerRuns, Disturb

-----------------------------------------------------------------------------
(* A frame is in one place. *)

\* Nobody has touched the bundles that the consumer may still make ...
Untouched ==
  \A k \in Consumers : \A i \in 1..MaxMsgs :
    /\ k = c_conn \/ link[k] = "none"
    /\ i > nmsgs[k]
    /\ <<k, i>> # c_bundle
    => ~buf_ready[<<k, i>>] /\ ~refresh[<<k, i>>]

\* ... nor the bundle of a context in fallback, unless the app is stopping.
Clean ==
  c_fallback /\ c_running /\ c_bundle # NULL =>
    ~buf_ready[c_bundle] /\ ~refresh[c_bundle] /\ ~Painting(c_bundle)

\* The frame that is awaited is in one of three places.
InOnePlace(announced, painting, finished, awaited) ==
  /\ awaited <=> announced \/ painting \/ finished
  /\ ~(announced /\ painting)
  /\ ~(announced /\ finished)
  /\ ~(painting /\ finished)

FrameOnce ==
  ~c_fallback /\ c_running /\ Held(c_bundle) =>
    InOnePlace(buf_ready[c_bundle], Painting(c_bundle), refresh[c_bundle], c_pending)

FrameInv == LinkInv /\ HeldOnce /\ Untouched /\ Clean /\ FrameOnce

\* A bundle that was handed out is one that was sent.
LEMMA DeliveredIsSent ==
  ASSUME LinkInv, NEW k, NEW i, Delivered(<<k, i>>)
  PROVE  i <= nmsgs[k]
<1> PICK b : b = <<k, i>>
  OBVIOUS
<1>1. PICK d \in Deliveries : BundleOf(d) = b
  BY DEF Delivered
<1>2. b[2] <= nmsgs[b[1]]
  BY <1>1 DEF LinkInv, DaemonInv, BundleInv
<1> QED BY <1>2

\* A bundle that is not yet sent gets no signal, and not from a producer in any case.
LEMMA FutureSignals ==
  ASSUME LinkInv, LinkNext, NEW k \in Consumers, NEW i \in 1..MaxMsgs, i > nmsgs[k],
         <<k, i>> # c_bundle
  PROVE  SameSignals(<<k, i>>) /\ ~Painting(<<k, i>>)
<1> PICK b : b = <<k, i>>
  OBVIOUS
<1>1. b \in Bundles /\ b # NULL
  BY ConnKinds, NullAssumption DEF Bundles
<1>2. i \in Nat /\ nmsgs[k] \in Nat
  BY ConnKinds, BoundAssumption DEF LinkInv, DaemonInv, IInv, TypeOK
<1>3. p_bundle # b
  <2>1. ~Delivered(b)
    BY <1>2, DeliveredIsSent
  <2> QED BY <1>1, <2>1 DEF LinkInv, CtlInv, ProducerCtl
<1>4. SameSignals(b) /\ ~Painting(b)
  BY <1>1, <1>3, SignalSteps DEF Announces, TakesUp, HandsBack, Posts, Wakes, GivesUp, Painting
<1> QED BY <1>4

\* The bundles of the future stay untouched.
LEMMA UntouchedStep ==
  ASSUME LinkInv, LinkNext, Untouched
  PROVE  Untouched'
<1> SUFFICES ASSUME NEW k \in Consumers, NEW i \in 1..MaxMsgs, k = c_conn' \/ link'[k] = "none",
                    i > nmsgs'[k], <<k, i>> # c_bundle'
             PROVE  ~buf_ready'[<<k, i>>] /\ ~refresh'[<<k, i>>]
  BY DEF Untouched
<1>0. CtlInv /\ DaemonInv /\ k \in Conns /\ k # NULL
  BY ConnKinds DEF LinkInv
<1>1. i > nmsgs[k]
  <2>1. nmsgs[k] \in Nat /\ nmsgs'[k] \in Nat /\ nmsgs[k] <= nmsgs'[k] /\ i \in Nat
    BY <1>0, LinkGrows
  <2> QED BY <2>1
<1>2. k = c_conn \/ link[k] = "none"
  <2>1. link'[k] = "none" => link[k] = "none"
    BY <1>0, LinkGrows
  <2> QED BY <1>0, <2>1, ContextSteps
<1>3. <<k, i>> # c_bundle
  <2> SUFFICES ASSUME <<k, i>> = c_bundle PROVE FALSE
    OBVIOUS
  <2>1. c_bundle # NULL
    BY <1>0, NullAssumption DEF Bundles
  <2>2. c_bundle[1] = c_conn
    BY <2>1 DEF LinkInv, CtlInv, ConsumerCtl
  <2>3. k = c_conn /\ link[k] # "none"
    BY <1>0, <2>2 DEF LinkInv, CtlInv, ConsumerCtl
  <2>4. link'[k] # "none"
    BY <1>0, <2>3, LinkGrows
  <2>5. ~Delivered(<<k, i>>)
    <3>1. nmsgs[k] \in Nat /\ i \in Nat
      BY <1>0, LinkGrows
    <3> QED BY <1>1, <3>1, DeliveredIsSent
  <2> QED BY <1>0, <2>1, <2>3, <2>4, <2>5, ContextSteps
<1>4. ~buf_ready[<<k, i>>] /\ ~refresh[<<k, i>>]
  BY <1>1, <1>2, <1>3 DEF Untouched
<1> QED BY <1>1, <1>3, <1>4, FutureSignals DEF SameSignals

\* A context in fallback stays clean.
LEMMA CleanStep ==
  ASSUME LinkInv, LinkNext, Untouched, Clean
  PROVE  Clean'
<1>0. CtlInv /\ DaemonInv /\ IInv
  BY DEF LinkInv, DaemonInv
<1> PICK b : b = c_bundle'
  OBVIOUS
<1> SUFFICES ASSUME c_fallback', c_running', b # NULL
             PROVE  ~buf_ready'[b] /\ ~refresh'[b] /\ ~Painting(b)'
  BY DEF Clean, Painting
<1>1. CASE c_bundle' = c_bundle
  <2>1. c_fallback /\ c_running /\ b \in Bundles
    BY <1>1, ContextSteps DEF LinkInv, CtlInv, LinkTypeOK
  <2>2. ~buf_ready[b] /\ ~refresh[b] /\ ~Painting(b) /\ ~c_pending
    BY <1>1, <2>1 DEF Clean, LinkInv, CtlInv, ConsumerCtl
  <2>3. SameSignals(b) \/ GivesUp(b)
    BY <2>1, <2>2, SignalSteps DEF Announces, TakesUp, HandsBack, Posts, Wakes
  <2> QED BY <2>2, <2>3 DEF SameSignals, GivesUp, Painting
<1>2. CASE c_bundle' # c_bundle
  <2>1. c_conn \in Consumers /\ b = NewBundle(c_conn) /\ (c_bundle = NULL \/ Delivered(c_bundle))
    BY <1>2, ContextSteps
  <2> PICK k : k = c_conn
    OBVIOUS
  <2> PICK i : i = nmsgs[k] + 1
    OBVIOUS
  <2>2. nmsgs[k] \in Nat /\ k \in Conns /\ b = <<k, i>>
    BY <1>0, <2>1, ConnKinds, BoundAssumption DEF IInv, TypeOK, NewBundle
  <2>3. i \in 1..MaxMsgs
    <3>1. b \in Bundles
      BY <1>0, <1>2, CtlStep DEF CtlInv, LinkTypeOK
    <3> QED BY <2>2, <3>1 DEF Bundles
  <2>4. i > nmsgs[k] /\ <<k, i>> # c_bundle
    BY <1>2, <2>2
  <2>5. ~buf_ready[b] /\ ~refresh[b]
    BY <2>1, <2>2, <2>3, <2>4 DEF Untouched
  <2>6. SameSignals(b) /\ ~Painting(b)
    BY <2>1, <2>2, <2>3, <2>4, FutureSignals
  <2> QED BY <2>5, <2>6 DEF SameSignals
<1> QED BY <1>1, <1>2

\* A link that is up after a step was up before, with the same bundle, unless the
\* consumer has just left its fallback.
LEMMA UpSteps ==
  ASSUME LinkInv, LinkInv', LinkNext, ~c_fallback', c_running', Held(c_bundle)'
  PROVE  /\ UNCHANGED c_bundle /\ c_bundle \in Bundles /\ c_running
         /\ Held(c_bundle)
         /\ c_fallback => UNCHANGED <<vars, producerVars, objectVars, c_bundle, c_pending>>
<1>1. UNCHANGED c_bundle
  BY ContextSteps
<1> PICK b : b = c_bundle
  OBVIOUS
<1>2. c_bundle' # NULL /\ c_running /\ b \in Bundles
  BY <1>1, ContextSteps DEF LinkInv, CtlInv, LinkTypeOK, ConsumerCtl
<1>3. c_fallback => UNCHANGED <<vars, producerVars, objectVars, c_bundle, c_pending>>
  BY ContextSteps
<1>4. Held(b)'
  BY <1>1 DEF Held, UnreadBy
<1>5. CASE c_fallback
  <2>1. UNCHANGED <<sent, p_bundle, p_conn, p_read>>
    BY <1>3, <1>5 DEF vars, socketVars, producerVars
  <2>2. Held(b)
    BY <1>4, <2>1 DEF Held, UnreadBy
  <2> QED BY <1>1, <1>2, <1>3, <2>2
<1>6. CASE ~c_fallback
  <2>1. Delivered(b)
    BY <1>6 DEF LinkInv, Answered
  <2>2. Held(b)
    BY <1>4, <2>1, HeldStays
  <2> QED BY <1>1, <1>2, <1>6, <2>2
<1> QED BY <1>5, <1>6

\* While the link stays up, a frame stays or moves one place on.
LEMMA FrameMoves ==
  ASSUME FrameInv, LinkInv', LinkNext, ~c_fallback, ~c_fallback', c_running', Held(c_bundle)'
  PROVE  \E b \in Bundles :
           /\ b = c_bundle /\ b = c_bundle' /\ c_running /\ Held(b) /\ Held(b)'
           /\ InOnePlace(buf_ready[b], Painting(b), refresh[b], c_pending)
           /\ \/ SameSignals(b) /\ c_pending' = c_pending
              \/ Announces(b) \/ TakesUp(b) \/ HandsBack(b) \/ Posts(b)
<1>0. LinkInv /\ HeldOnce /\ FrameOnce
  BY DEF FrameInv
<1>1. UNCHANGED c_bundle /\ c_bundle \in Bundles /\ c_running /\ Held(c_bundle)
  BY <1>0, UpSteps
<1> PICK b \in Bundles : b = c_bundle
  BY <1>1
<1>2. Held(b) /\ Held(b)' /\ b = c_bundle'
  BY <1>1 DEF Held, UnreadBy
<1>3. InOnePlace(buf_ready[b], Painting(b), refresh[b], c_pending)
  BY <1>0, <1>1 DEF FrameOnce
<1>4. ~Wakes(b)
  BY DEF Wakes
<1>5. ~GivesUp(b)
  <2> SUFFICES ASSUME GivesUp(b) PROVE FALSE
    OBVIOUS
  <2>1. p_bundle = b /\ b # NULL /\ p_bundle' # b
    BY NullAssumption DEF GivesUp
  <2>2. ~UnreadBy(b) /\ Delivered(b)
    BY <1>0, <2>1 DEF HeldOnce, LinkInv, CtlInv, ProducerCtl
  <2>3. UnreadBy(b)'
    BY <1>2, <2>1 DEF Held
  <2> QED BY <1>0, <2>2, <2>3, UnreadStays
<1> QED BY <1>0, <1>1, <1>2, <1>3, <1>4, <1>5, SignalSteps

\* So it is in one place after every step.
LEMMA FrameOnceStep ==
  ASSUME FrameInv, LinkInv', LinkNext
  PROVE  FrameOnce'
<1>0. LinkInv /\ Clean
  BY DEF FrameInv
<1> SUFFICES ASSUME ~c_fallback', c_running', Held(c_bundle)' PROVE FrameOnce'
  BY DEF FrameOnce
<1> PICK b : b = c_bundle
  OBVIOUS
<1>1. c_bundle' = b /\ b \in Bundles /\ c_running
  BY <1>0, UpSteps
<1> SUFFICES InOnePlace(buf_ready'[b], Painting(b)', refresh'[b], c_pending')
  BY <1>1 DEF FrameOnce, Painting
<1>2. CASE c_fallback
  <2>1. UNCHANGED <<p_bundle, p_ready, buf_ready, refresh, c_pending>>
    BY <1>0, <1>2, UpSteps DEF producerVars, objectVars
  <2>2. ~buf_ready[b] /\ ~refresh[b] /\ ~Painting(b)
    BY <1>1, <1>2, NullAssumption DEF FrameInv, Clean
  <2>3. ~c_pending
    BY <1>0, <1>2 DEF LinkInv, CtlInv, ConsumerCtl
  <2> QED BY <2>1, <2>2, <2>3 DEF InOnePlace, Painting
<1>3. CASE ~c_fallback
  <2>1. /\ InOnePlace(buf_ready[b], Painting(b), refresh[b], c_pending)
        /\ \/ SameSignals(b) /\ c_pending' = c_pending
           \/ Announces(b) \/ TakesUp(b) \/ HandsBack(b) \/ Posts(b)
    BY <1>3, FrameMoves
  <2>2. CASE SameSignals(b) /\ c_pending' = c_pending
    BY <2>1, <2>2 DEF InOnePlace, SameSignals
  <2>3. CASE Announces(b)
    BY <2>1, <2>3 DEF InOnePlace, Announces
  <2>4. CASE TakesUp(b)
    BY <2>1, <2>4 DEF InOnePlace, TakesUp, Painting
  <2>5. CASE HandsBack(b)
    BY <2>1, <2>5 DEF InOnePlace, HandsBack
  <2>6. CASE Posts(b)
    BY <2>1, <2>6 DEF InOnePlace, Posts
  <2> QED BY <2>1, <2>2, <2>3, <2>4, <2>5, <2>6
<1> QED BY <1>2, <1>3

\* The whole invariant of the link is inductive.
LEMMA FrameInvStep == FrameInv /\ [LinkNext]_linkVars => FrameInv'
<1> SUFFICES ASSUME FrameInv, [LinkNext]_linkVars PROVE FrameInv'
  OBVIOUS
<1>0. LinkInv /\ HeldOnce /\ Untouched /\ Clean /\ FrameOnce
  BY DEF FrameInv
<1>1. LinkInv'
  BY <1>0, CtlStep, DaemonKept, AnsweredStep DEF LinkInv
<1>2. CASE LinkNext
  BY <1>0, <1>1, <1>2, HeldOnceStep, UntouchedStep, CleanStep, FrameOnceStep DEF FrameInv
<1>3. CASE UNCHANGED linkVars
  <2>1. /\ UNCHANGED <<link, nmsgs, sent>>
        /\ UNCHANGED <<c_conn, c_bundle, c_fallback, c_running, c_pending>>
        /\ UNCHANGED <<p_conn, p_bundle, p_read, p_ready>>
        /\ UNCHANGED <<buf_ready, refresh>>
    BY <1>3 DEF linkVars, vars, socketVars, consumerVars, producerVars, objectVars
  <2>2. HeldOnce'
    BY <1>0, <2>1 DEF HeldOnce, UnreadBy
  <2>3. Untouched'
    BY <1>0, <2>1 DEF Untouched
  <2>4. Clean'
    BY <1>0, <2>1 DEF Clean, Painting
  <2>5. FrameOnce'
    BY <1>0, <2>1 DEF FrameOnce, Painting, Held, UnreadBy
  <2> QED BY <1>1, <2>2, <2>3, <2>4, <2>5 DEF FrameInv
<1> QED BY <1>2, <1>3

\* It holds in every behaviour of the link.
LEMMA FrameInvHolds == LinkSpec => []FrameInv
<1>1. LinkInit => FrameInv
  <2> SUFFICES ASSUME LinkInit PROVE FrameInv
    OBVIOUS
  <2>1. LinkInv
    BY LinkStart DEF LinkInit, LinkInv, Answered
  <2>2. /\ c_bundle = NULL /\ c_fallback = TRUE /\ p_bundle = NULL
        /\ \A b \in Bundles : buf_ready[b] = FALSE /\ refresh[b] = FALSE
    BY DEF LinkInit
  <2>3. \A k \in Consumers : \A i \in 1..MaxMsgs : <<k, i>> \in Bundles
    BY DEF Bundles, Conns
  <2> QED BY <2>1, <2>2, <2>3 DEF FrameInv, HeldOnce, Untouched, Clean, FrameOnce
<1> QED BY <1>1, FrameInvStep, PTL DEF LinkSpec

\* Four truth values count as one place.
LEMMA OnePlaceCounts ==
  ASSUME NEW x \in BOOLEAN, NEW y \in BOOLEAN, NEW z \in BOOLEAN, NEW w \in BOOLEAN
  PROVE  InOnePlace(x, y, z, w) => One(x) + One(y) + One(z) = One(w)
BY DEF InOnePlace, One

\* While the link is up, the frame that the consumer waits for is in exactly one place,
\* and there is none when it waits for nothing, across every fallback, reconnect, crash
\* and stop (FrameConserved).
THEOREM FrameIsConserved == LinkSpec => []FrameConserved
<1>1. FrameInv => FrameConserved
  <2> SUFFICES ASSUME FrameInv, ~c_fallback, c_running, ProducerEnd(c_bundle)
               PROVE  One(buf_ready[c_bundle]) + One(p_bundle = c_bundle /\ p_ready)
                        + One(refresh[c_bundle]) = One(c_pending)
    BY DEF FrameConserved
  <2> PICK b : b = c_bundle
    OBVIOUS
  <2>1. Delivered(b) /\ b \in Bundles
    BY DEF FrameInv, LinkInv, Answered, CtlInv, LinkTypeOK, ConsumerCtl
  <2>2. Held(b)
    BY <2>1, EndIsHeld DEF FrameInv
  <2>3. InOnePlace(buf_ready[b], Painting(b), refresh[b], c_pending)
    BY <2>2 DEF FrameInv, FrameOnce
  <2>4. /\ buf_ready[b] \in BOOLEAN /\ refresh[b] \in BOOLEAN /\ c_pending \in BOOLEAN
        /\ (p_bundle = b /\ p_ready) \in BOOLEAN
    BY <2>1 DEF FrameInv, LinkInv, CtlInv, LinkTypeOK
  <2> QED BY <2>3, <2>4, OnePlaceCounts DEF Painting
<1> QED BY <1>1, FrameInvHolds, PTL

-----------------------------------------------------------------------------
(* The two programs implement FrameHandoff. *)

\* The link is up while the producer's end of the consumer's bundle is held.
LEMMA UpIsHeld == FrameInv => (LinkIsUp <=> ~c_fallback /\ c_running /\ Held(c_bundle))
<1>1. FrameInv => (~c_fallback => Delivered(c_bundle))
  BY DEF FrameInv, LinkInv, Answered
<1> QED BY <1>1, EndIsHeld DEF FrameInv, LinkIsUp

\* Where FrameHandoff sees the frame.
LEMMA PlaceValue ==
  /\ ~LinkIsUp => FramePlace = "idle"
  /\ LinkIsUp /\ InOnePlace(buf_ready[c_bundle], Painting(c_bundle), refresh[c_bundle], c_pending) =>
       /\ buf_ready[c_bundle] => FramePlace = "announced"
       /\ Painting(c_bundle) => FramePlace = "painting"
       /\ refresh[c_bundle] => FramePlace = "finished"
       /\ ~c_pending => FramePlace = "idle"
BY DEF FramePlace, InOnePlace, Painting

\* Both hold after a step as well.
LEMMA NextView ==
  /\ (FrameInv => (LinkIsUp <=> ~c_fallback /\ c_running /\ Held(c_bundle)))'
  /\ (~LinkIsUp => FramePlace = "idle")'
  /\ (LinkIsUp /\ InOnePlace(buf_ready[c_bundle], Painting(c_bundle), refresh[c_bundle], c_pending) =>
       /\ buf_ready[c_bundle] => FramePlace = "announced"
       /\ Painting(c_bundle) => FramePlace = "painting"
       /\ refresh[c_bundle] => FramePlace = "finished"
       /\ ~c_pending => FramePlace = "idle")'
BY UpIsHeld, PlaceValue, PTL

\* Every step of the link is one of FrameHandoff or leaves it alone.
LEMMA HandoffStep ==
  ASSUME FrameInv, FrameInv', LinkNext
  PROVE  Handoff!Next \/ UNCHANGED <<LinkIsUp, FramePlace>>
<1>0. LinkInv /\ LinkInv'
  BY DEF FrameInv
<1>1. LinkIsUp \in BOOLEAN /\ LinkIsUp' \in BOOLEAN
  BY DEF LinkIsUp
<1>2. /\ LinkIsUp <=> ~c_fallback /\ c_running /\ Held(c_bundle)
      /\ LinkIsUp' <=> ~c_fallback' /\ c_running' /\ Held(c_bundle)'
  BY UpIsHeld, NextView
<1>3. CASE ~LinkIsUp /\ ~LinkIsUp'
  BY <1>1, <1>3, PlaceValue, NextView
<1>4. CASE LinkIsUp /\ ~LinkIsUp'
  BY <1>1, <1>4, NextView DEF Handoff!Next, Handoff!LinkDown
<1>5. CASE ~LinkIsUp /\ LinkIsUp'
  <2>1. c_fallback
    BY <1>0, <1>2, <1>5, UpSteps
  <2>2. UNCHANGED <<vars, producerVars, objectVars, c_bundle, c_pending>> /\ c_running
    BY <1>0, <1>2, <1>5, <2>1, UpSteps
  <2>3. ~c_pending'
    BY <1>0, <2>1, <2>2 DEF LinkInv, CtlInv, ConsumerCtl
  <2>4. FramePlace' = "idle"
    BY <1>2, <1>5, <2>3, NextView DEF FrameInv, FrameOnce
  <2> QED BY <1>1, <1>5, <2>4, PlaceValue DEF Handoff!Next, Handoff!LinkUp
<1>6. CASE LinkIsUp /\ LinkIsUp'
  <2>1. PICK b \in Bundles :
           /\ b = c_bundle /\ b = c_bundle'
           /\ InOnePlace(buf_ready[b], Painting(b), refresh[b], c_pending)
           /\ \/ SameSignals(b) /\ c_pending' = c_pending
              \/ Announces(b) \/ TakesUp(b) \/ HandsBack(b) \/ Posts(b)
    BY <1>0, <1>2, <1>6, FrameMoves
  <2>2. InOnePlace(buf_ready'[b], Painting(b)', refresh'[b], c_pending')
    BY <1>2, <1>6, <2>1 DEF FrameInv, FrameOnce, Painting
  <2>3. /\ buf_ready[b] => FramePlace = "announced"
        /\ Painting(b) => FramePlace = "painting"
        /\ refresh[b] => FramePlace = "finished"
        /\ ~c_pending => FramePlace = "idle"
    BY <1>6, <2>1, PlaceValue
  <2>4. /\ buf_ready'[b] => FramePlace' = "announced"
        /\ Painting(b)' => FramePlace' = "painting"
        /\ refresh'[b] => FramePlace' = "finished"
        /\ ~c_pending' => FramePlace' = "idle"
    <3>1. InOnePlace(buf_ready[c_bundle], Painting(c_bundle), refresh[c_bundle], c_pending)'
      BY <2>1, <2>2 DEF Painting
    <3> QED BY <1>6, <2>1, <3>1, NextView DEF Painting
  <2>5. LinkIsUp' = LinkIsUp
    BY <1>1, <1>6
  <2>6. CASE SameSignals(b) /\ c_pending' = c_pending
    <3>1. FramePlace' = FramePlace
      BY <2>1, <2>3, <2>4, <2>6 DEF SameSignals, InOnePlace
    <3> QED BY <2>5, <3>1
  <2>7. CASE Announces(b)
    BY <1>6, <2>3, <2>4, <2>5, <2>7 DEF Announces, Handoff!Next, Handoff!Announce, Handoff!Pass
  <2>8. CASE TakesUp(b)
    BY <1>6, <2>3, <2>4, <2>5, <2>8 DEF TakesUp, Handoff!Next, Handoff!Take, Handoff!Pass
  <2>9. CASE HandsBack(b)
    BY <1>6, <2>3, <2>4, <2>5, <2>9 DEF HandsBack, Handoff!Next, Handoff!HandBack, Handoff!Pass
  <2>10. CASE Posts(b)
    BY <1>6, <2>3, <2>4, <2>5, <2>10 DEF Posts, Handoff!Next, Handoff!Post, Handoff!Pass
  <2> QED BY <2>1, <2>6, <2>7, <2>8, <2>9, <2>10
<1> QED BY <1>1, <1>3, <1>4, <1>5, <1>6

\* The app and the compositor around the daemon implement FrameHandoff: a frame is
\* announced, taken, painted, handed back and posted in that order, each once, and given
\* up only with the link (HandoffImplemented).
THEOREM LinkImplementsHandoff == LinkSpec => HandoffImplemented
<1>1. LinkInit => Handoff!Init
  BY PlaceValue DEF LinkInit, Handoff!Init, LinkIsUp
<1>2. FrameInv /\ FrameInv' /\ [LinkNext]_linkVars => [Handoff!Next]_<<LinkIsUp, FramePlace>>
  <2>1. ASSUME UNCHANGED linkVars PROVE UNCHANGED <<LinkIsUp, FramePlace>>
    <3>1. /\ UNCHANGED <<deposit, link, peer, inq, sent>>
          /\ UNCHANGED <<c_bundle, c_fallback, c_running, p_conn, p_bundle, p_read, p_ready>>
          /\ UNCHANGED <<buf_ready, refresh>>
      BY <2>1 DEF linkVars, vars, daemonVars, socketVars, consumerVars, producerVars, objectVars
    <3>2. LinkIsUp' = LinkIsUp
      BY <3>1 DEF LinkIsUp, ProducerEnd, Linked
    <3> QED BY <3>1, <3>2 DEF FramePlace
  <2> QED BY <2>1, HandoffStep
<1> QED BY <1>1, <1>2, FrameInvHolds, PTL DEF LinkSpec, HandoffImplemented, Handoff!Spec
=============================================================================
