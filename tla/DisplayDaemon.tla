--------------------------- MODULE DisplayDaemon ---------------------------
(***************************************************************************)
(* The display daemon (src/daemon/daemon.c): the single-threaded broker    *)
(* between the Android consumer and the Weston producer.  It keeps the     *)
(* newest screen description and the newest bundle of file descriptors of  *)
(* the consumer, and hands each to a producer that asks for it.            *)
(*                                                                         *)
(* The daemon serves epoll events in batches.  An event carries the        *)
(* address of a `struct client`, and a handler may free a client whose     *)
(* event is still waiting in the same batch, so the model keeps the heap   *)
(* (addresses, and the ctrl_fd a freed block still holds) and the table of *)
(* open descriptors, with reuse of both.                                   *)
(*                                                                         *)
(* A bundle <<k, i>> stands for the descriptors attached to the i-th       *)
(* message of connection k.  The connections in Consumers and Producers    *)
(* behave like libdisplay_consumer and libdisplay_producer; a connection   *)
(* in Strangers may send anything.                                         *)
(***************************************************************************)
EXTENDS Naturals, Sequences, FiniteSets

CONSTANTS
  Consumers,    \* connections opened by the consumer library
  Producers,    \* connections opened by the producer library
  Strangers,    \* connections opened by any other program
  Screens,      \* contents of a struct screen_info
  HelloFds,     \* numbers of descriptors that come with a CONSUMER_HELLO
  Addr,         \* addresses at which a struct client may be allocated
  Fds,          \* descriptor numbers of the control sockets
  NULL,
  MaxMsgs,      \* bound: messages sent on one connection
  MaxQueue      \* bound: messages waiting in the socket of one connection

Conns == Consumers \cup Producers \cup Strangers

MAX_FDS == 4
Bundles == Conns \X (1..MaxMsgs)

ASSUME RolesAssumption ==
  /\ Consumers \cap Producers = {}
  /\ Consumers \cap Strangers = {}
  /\ Producers \cap Strangers = {}

ASSUME NullAssumption ==
  /\ NULL \notin Conns
  /\ NULL \notin Screens
  /\ NULL \notin Addr
  /\ NULL \notin Fds
  /\ NULL \notin Bundles

ASSUME BoundAssumption ==
  /\ MaxMsgs \in Nat
  /\ MaxQueue \in Nat
  /\ HelloFds \subseteq 0..MAX_FDS

VARIABLES
  running,                  \* the main loop runs
  consumer, producer,       \* address of the client, or NULL
  live,                     \* allocated struct client blocks
  heap,                     \* ctrl_fd in the block, kept by a freed block
  stored_screen,            \* NULL while has_screen_info is false
  deposit,                  \* deposited_fds and deposited_fd_count
  producer_waiting_screen,
  producer_waiting_fds,
  batch,                    \* events of the last epoll_wait still to serve
  greeting,                 \* accepted descriptor whose first message is awaited
  backlog,                  \* connections not accepted yet
  sock,                     \* descriptor number -> connection
  link,                     \* the daemon's end of each connection
  peer,                     \* the client's end is open
  inq,                      \* bytes on their way to the daemon
  sent,                     \* everything the daemon wrote to the connection
  nmsgs                     \* messages the client has sent

daemonVars == <<running, consumer, producer, live, heap, stored_screen, deposit,
                producer_waiting_screen, producer_waiting_fds, batch, greeting>>
socketVars == <<backlog, sock, link, peer, inq, sent, nmsgs>>
vars == <<daemonVars, socketVars>>

-----------------------------------------------------------------------------
(* Messages. *)

MsgTypes == {"CONSUMER_HELLO", "PRODUCER_HELLO", "SCREEN_INFO", "PICKUP_FDS",
             "FDS_READY", "UNKNOWN", "OVERSIZED"}
Msgs == [type : MsgTypes, fds : 0..MAX_FDS,
         bundle : Bundles \cup {NULL}, screen : Screens \cup {NULL}]

WithFds(t, n, b) == [type |-> t, fds |-> n, bundle |-> b, screen |-> NULL]
Plain(t) == WithFds(t, 0, NULL)
ScreenInfo(s) == [type |-> "SCREEN_INFO", fds |-> 0, bundle |-> NULL, screen |-> s]

NoDeposit == [fds |-> 0, bundle |-> NULL]
Complete(d) == d.fds >= 4

Events == [ptr : Addr \cup {NULL}, hup : BOOLEAN]

TypeOK ==
  /\ running \in BOOLEAN
  /\ consumer \in Addr \cup {NULL}
  /\ producer \in Addr \cup {NULL}
  /\ live \subseteq Addr
  /\ heap \in [Addr -> Fds \cup {NULL}]
  /\ stored_screen \in Screens \cup {NULL}
  /\ deposit \in [fds : 0..MAX_FDS, bundle : Bundles \cup {NULL}]
  /\ producer_waiting_screen \in BOOLEAN
  /\ producer_waiting_fds \in BOOLEAN
  /\ batch \in Seq(Events)
  /\ greeting \in Fds \cup {NULL}
  /\ backlog \in Seq(Conns)
  /\ sock \in [Fds -> Conns \cup {NULL}]
  /\ link \in [Conns -> {"none", "backlog", "open", "closed"}]
  /\ peer \in [Conns -> BOOLEAN]
  /\ inq \in [Conns -> Seq(Msgs)]
  /\ sent \in [Conns -> Seq(Msgs)]
  /\ nmsgs \in [Conns -> 0..MaxMsgs]

Init ==
  /\ running = TRUE
  /\ consumer = NULL
  /\ producer = NULL
  /\ live = {}
  /\ heap = [a \in Addr |-> NULL]
  /\ stored_screen = NULL
  /\ deposit = NoDeposit
  /\ producer_waiting_screen = FALSE
  /\ producer_waiting_fds = FALSE
  /\ batch = <<>>
  /\ greeting = NULL
  /\ backlog = <<>>
  /\ sock = [f \in Fds |-> NULL]
  /\ link = [k \in Conns |-> "none"]
  /\ peer = [k \in Conns |-> FALSE]
  /\ inq = [k \in Conns |-> <<>>]
  /\ sent = [k \in Conns |-> <<>>]
  /\ nmsgs = [k \in Conns |-> 0]

-----------------------------------------------------------------------------
(* The clients.  Each library greets the daemon before anything else;      *)
(* afterwards the consumer announces screens and deposits new bundles, the *)
(* producer asks for bundles.                                              *)

Requests(k) ==
  LET hellos == {WithFds("CONSUMER_HELLO", n, <<k, nmsgs[k] + 1>>) : n \in HelloFds}
      infos  == {ScreenInfo(s) : s \in Screens}
  IN  CASE k \in Consumers -> IF nmsgs[k] = 0 THEN hellos ELSE hellos \cup infos
        [] k \in Producers -> IF nmsgs[k] = 0 THEN {Plain("PRODUCER_HELLO")}
                                              ELSE {Plain("PICKUP_FDS")}
        [] OTHER -> hellos \cup infos \cup
                    {Plain(t) : t \in {"PRODUCER_HELLO", "PICKUP_FDS", "UNKNOWN",
                                       "OVERSIZED"}}

Connect(k) ==
  /\ running
  /\ link[k] = "none"
  /\ link' = [link EXCEPT ![k] = "backlog"]
  /\ peer' = [peer EXCEPT ![k] = TRUE]
  /\ backlog' = Append(backlog, k)
  /\ UNCHANGED <<daemonVars, sock, inq, sent, nmsgs>>

Send(k, m) ==
  /\ peer[k]
  /\ link[k] \in {"backlog", "open"}
  /\ nmsgs[k] < MaxMsgs
  /\ Len(inq[k]) < MaxQueue
  /\ m \in Requests(k)
  /\ inq' = [inq EXCEPT ![k] = Append(@, m)]
  /\ nmsgs' = [nmsgs EXCEPT ![k] = @ + 1]
  /\ UNCHANGED <<daemonVars, backlog, sock, link, peer, sent>>

\* The client closes its socket, or its process dies.  (Closing a socket the
\* daemon has closed already is invisible to it.)
Hangup(k) ==
  /\ peer[k]
  /\ link[k] \in {"backlog", "open"}
  /\ peer' = [peer EXCEPT ![k] = FALSE]
  /\ UNCHANGED <<daemonVars, backlog, sock, link, inq, sent, nmsgs>>

-----------------------------------------------------------------------------
(* What the daemon's handlers are made of. *)

ConnAt(a) == sock[heap[a]]
Msg(k) == Head(inq[k])

\* calloc and accept may return any unused address or number.  The choice
\* matters only while a waiting event points to a freed block: the others are
\* interchangeable, and one of them stands for all.
Unused(all, used, dangling) ==
  {x \in all \ used :
     x \in dangling \/ x = CHOOSE y \in all : y \notin used \cup dangling}

DanglingAddr == {batch[i].ptr : i \in 1..Len(batch)} \ (live \cup {NULL})
NewAddr == Unused(Addr, live, DanglingAddr)
NewFd == Unused(Fds, {f \in Fds : sock[f] # NULL}, {heap[a] : a \in DanglingAddr})

\* Mutation: the descriptor is not closed.
FreeSockLeak(a) == sock

\* client_free: the descriptor is closed and its number may be reused, the
\* block returns to the allocator.
FreeSock(a) == [f \in Fds |-> IF a # NULL /\ f = heap[a] THEN NULL ELSE sock[f]]
FreeLink(a) == [k \in Conns |-> IF a # NULL /\ k = ConnAt(a) THEN "closed" ELSE link[k]]

\* send_all and send_fds fail once the other end is closed.
Post(log, k, m) == IF peer[k] THEN [log EXCEPT ![k] = Append(@, m)] ELSE log

Notify(log, k) == IF k = NULL THEN log ELSE Post(log, k, Plain("FDS_READY"))

\* Mutation: the deposit is not cleared once it is handed out.
try_deliver_fdsTwice(d, k) ==
  LET pk == ConnAt(producer)
  IN  IF producer = NULL \/ ~Complete(d) \/ ~peer[pk]
      THEN deposit' = d /\ producer_waiting_fds' = TRUE /\ UNCHANGED sent
      ELSE /\ deposit' = d
           /\ producer_waiting_fds' = FALSE
           /\ sent' = Notify(Post(sent, pk, WithFds("FDS_READY", d.fds, d.bundle)), k)

\* Mutation: the consumer is told before it is known that the send succeeded.
try_deliver_fdsEager(d, k) ==
  LET pk == ConnAt(producer)
  IN  IF producer = NULL \/ ~Complete(d)
      THEN deposit' = d /\ producer_waiting_fds' = TRUE /\ UNCHANGED sent
      ELSE /\ deposit' = IF peer[pk] THEN NoDeposit ELSE d
           /\ producer_waiting_fds' = ~peer[pk]
           /\ sent' = Notify(Post(sent, pk, WithFds("FDS_READY", d.fds, d.bundle)), k)

\* try_deliver_fds with d deposited and k the consumer's connection (NULL if none).
try_deliver_fds(d, k) ==
  LET pk == ConnAt(producer)
  IN  IF producer = NULL \/ ~Complete(d) \/ ~peer[pk]
      THEN /\ deposit' = d
           /\ producer_waiting_fds' = TRUE
           /\ UNCHANGED sent
      ELSE /\ deposit' = NoDeposit
           /\ producer_waiting_fds' = FALSE
           /\ sent' = Notify(Post(sent, pk, WithFds("FDS_READY", d.fds, d.bundle)), k)

\* Mutation: a deposit wakes nobody.
DepositSilently(d, k) == deposit' = d /\ UNCHANGED <<producer_waiting_fds, sent>>

\* The tail of both CONSUMER_HELLO handlers: a deposit wakes a waiting producer.
Deposit(d, k) ==
  IF producer_waiting_fds
  THEN try_deliver_fds(d, k)
  ELSE deposit' = d /\ UNCHANGED <<producer_waiting_fds, sent>>

\* Mutation: one descriptor too many is counted.
CarriedOffByOne(m) == [fds |-> m.fds + 1, bundle |-> m.bundle]

Carried(m) == [fds |-> m.fds, bundle |-> IF m.fds = 0 THEN NULL ELSE m.bundle]

ConsumerConn == IF consumer = NULL THEN NULL ELSE ConnAt(consumer)

-----------------------------------------------------------------------------
(* The main loop. *)

Ready ==
  {[ptr |-> a, hup |-> ~peer[ConnAt(a)]] :
      a \in {b \in live : inq[ConnAt(b)] # <<>> \/ ~peer[ConnAt(b)]}}
  \cup (IF backlog = <<>> THEN {} ELSE {[ptr |-> NULL, hup |-> FALSE]})

\* epoll_wait reports every ready descriptor, in any order.  No pointer to a
\* freed block survives the previous batch, so its contents are forgotten.
EpollWait ==
  /\ running
  /\ batch = <<>>
  /\ greeting = NULL
  /\ \E n \in 1..3 : \E order \in [1..n -> Ready] :
       /\ Ready = {order[i] : i \in 1..n}
       /\ \A i, j \in 1..n : order[i] = order[j] => i = j
       /\ batch' = order
  /\ heap' = [a \in Addr |-> IF a \in live THEN heap[a] ELSE NULL]
  /\ UNCHANGED <<running, consumer, producer, live, stored_screen, deposit,
                 producer_waiting_screen, producer_waiting_fds, greeting, socketVars>>

\* The daemon serves the first event; a handler that blocks keeps its place.
Serving ==
  /\ running
  /\ greeting = NULL
  /\ batch # <<>>
  /\ batch' = Tail(batch)

-----------------------------------------------------------------------------
(* handle_new_connection: accept, then a blocking read of the greeting. *)

AcceptConnection ==
  \E f \in NewFd :
    /\ Serving
    /\ Head(batch).ptr = NULL
    /\ backlog # <<>>
    /\ sock' = [sock EXCEPT ![f] = Head(backlog)]
    /\ link' = [link EXCEPT ![Head(backlog)] = "open"]
    /\ backlog' = Tail(backlog)
    /\ greeting' = f
    /\ UNCHANGED <<running, consumer, producer, live, heap, stored_screen, deposit,
                   producer_waiting_screen, producer_waiting_fds,
                   peer, inq, sent, nmsgs>>

\* The greeting of connection k has arrived on the accepted descriptor.
Greeted(k) ==
  /\ greeting # NULL
  /\ k = sock[greeting]
  /\ inq[k] # <<>>
  /\ inq' = [inq EXCEPT ![k] = Tail(@)]
  /\ greeting' = NULL
  /\ UNCHANGED <<running, batch, backlog, peer, nmsgs, stored_screen>>

NewConsumer(k) ==
  /\ Greeted(k)
  /\ Msg(k).type = "CONSUMER_HELLO"
  /\ \E a \in NewAddr :
       /\ consumer' = a
       /\ live' = (live \ {consumer}) \cup {a}
       /\ heap' = [heap EXCEPT ![a] = greeting]
  /\ sock' = FreeSock(consumer)
  /\ link' = FreeLink(consumer)
  /\ Deposit(Carried(Msg(k)), k)
  /\ UNCHANGED <<producer, producer_waiting_screen>>

NewProducer(k) ==
  /\ Greeted(k)
  /\ Msg(k).type = "PRODUCER_HELLO"
  /\ \E a \in NewAddr :
       /\ producer' = a
       /\ live' = (live \ {producer}) \cup {a}
       /\ heap' = [heap EXCEPT ![a] = greeting]
  /\ sock' = FreeSock(producer)
  /\ link' = FreeLink(producer)
  /\ producer_waiting_fds' = FALSE
  /\ producer_waiting_screen' = (stored_screen = NULL)
  /\ sent' = IF stored_screen = NULL THEN sent
             ELSE Post(sent, k, ScreenInfo(stored_screen))
  /\ UNCHANGED <<consumer, deposit>>

\* Mutation: the rejected connection stays open.
RejectConnectionLeak ==
  /\ greeting # NULL
  /\ LET k == sock[greeting]
     IN  \/ inq[k] # <<>> /\ Msg(k).type \notin {"CONSUMER_HELLO", "PRODUCER_HELLO"}
         \/ inq[k] = <<>> /\ ~peer[k]
  /\ greeting' = NULL
  /\ UNCHANGED <<running, consumer, producer, live, heap, stored_screen, deposit,
                 producer_waiting_screen, producer_waiting_fds, batch, socketVars>>

\* Any other greeting, or none before the client hangs up, closes the connection.
RejectConnection ==
  /\ greeting # NULL
  /\ LET k == sock[greeting]
     IN  /\ \/ inq[k] # <<>> /\ Msg(k).type \notin {"CONSUMER_HELLO", "PRODUCER_HELLO"}
            \/ inq[k] = <<>> /\ ~peer[k]
         /\ link' = [link EXCEPT ![k] = "closed"]
         /\ sock' = [sock EXCEPT ![greeting] = NULL]
  /\ greeting' = NULL
  /\ UNCHANGED <<running, consumer, producer, live, heap, stored_screen, deposit,
                 producer_waiting_screen, producer_waiting_fds, batch,
                 backlog, peer, inq, sent, nmsgs>>

-----------------------------------------------------------------------------
(* Events of a client.  c is the pointer in the event; it may point to a   *)
(* block that was freed, or freed and allocated again, earlier in the      *)
(* batch.                                                                  *)

\* Mutation: the flags of a lost producer stay set.
handle_disconnectKeepsFlags(c) ==
  /\ IF c \in {consumer, producer}
     THEN sock' = FreeSock(c) /\ link' = FreeLink(c) /\ live' = live \ {c}
     ELSE UNCHANGED <<sock, link, live>>
  /\ consumer' = IF c = consumer THEN NULL ELSE consumer
  /\ producer' = IF c = producer THEN NULL ELSE producer
  /\ UNCHANGED <<running, heap, stored_screen, deposit, producer_waiting_screen,
                 producer_waiting_fds, greeting, backlog, peer, sent, nmsgs>>

\* handle_disconnect: a pointer that is neither client is ignored.
handle_disconnect(c) ==
  /\ IF c \in {consumer, producer}
     THEN /\ sock' = FreeSock(c)
          /\ link' = FreeLink(c)
          /\ live' = live \ {c}
     ELSE UNCHANGED <<sock, link, live>>
  /\ consumer' = IF c = consumer THEN NULL ELSE consumer
  /\ producer' = IF c = producer THEN NULL ELSE producer
  /\ producer_waiting_screen' = (c # producer /\ producer_waiting_screen)
  /\ producer_waiting_fds' = (c # producer /\ producer_waiting_fds)
  /\ UNCHANGED <<running, heap, stored_screen, deposit, greeting, backlog, peer,
                 sent, nmsgs>>

ClientHup(c) ==
  /\ Serving
  /\ Head(batch) = [ptr |-> c, hup |-> TRUE]
  /\ handle_disconnect(c)
  /\ UNCHANGED inq

\* recv_fds fails: the descriptor in the block is closed (a freed block), or
\* the client hung up after epoll_wait.
ClientGone(c) ==
  /\ Serving
  /\ Head(batch) = [ptr |-> c, hup |-> FALSE]
  /\ heap[c] # NULL
  /\ LET k == ConnAt(c)
     IN  k # NULL => inq[k] = <<>> /\ ~peer[k]
  /\ handle_disconnect(c)
  /\ UNCHANGED inq

\* The handler of the event of block c reads a message of connection k.
Reads(c, k) ==
  /\ Serving
  /\ Head(batch) = [ptr |-> c, hup |-> FALSE]
  /\ heap[c] # NULL
  /\ k = ConnAt(c)
  /\ inq[k] # <<>>
  /\ inq' = [inq EXCEPT ![k] = Tail(@)]

\* hdr.size larger than a screen_info.
ClientOversized(c, k) ==
  /\ Reads(c, k)
  /\ Msg(k).type = "OVERSIZED"
  /\ handle_disconnect(c)

ClientRedeposit(c, k) ==
  /\ Reads(c, k)
  /\ Msg(k).type = "CONSUMER_HELLO"
  /\ c = consumer
  /\ Msg(k).fds >= 3
  /\ Deposit(Carried(Msg(k)), k)
  /\ UNCHANGED <<running, consumer, producer, live, heap, stored_screen,
                 producer_waiting_screen, greeting, backlog, sock, link, peer, nmsgs>>

\* Mutation: a new screen is stored and the producer not told.
ScreenChangedNever(s) == FALSE

ScreenChanged(s) == stored_screen \notin {NULL, s}

\* SCREEN_INFO: a change of the screen disconnects the producer, the first
\* description is sent to a producer that waits for it.
ClientScreenInfo(c, k) ==
  /\ Reads(c, k)
  /\ Msg(k).type = "SCREEN_INFO"
  /\ c = consumer
  /\ stored_screen' = Msg(k).screen
  /\ IF ScreenChanged(Msg(k).screen) /\ producer # NULL
     THEN /\ sock' = FreeSock(producer)
          /\ link' = FreeLink(producer)
          /\ live' = live \ {producer}
          /\ producer' = NULL
          /\ producer_waiting_screen' = FALSE
          /\ producer_waiting_fds' = FALSE
          /\ UNCHANGED sent
     ELSE /\ sent' = IF producer_waiting_screen /\ producer # NULL
                     THEN Post(sent, ConnAt(producer), ScreenInfo(Msg(k).screen))
                     ELSE sent
          /\ producer_waiting_screen' = (producer_waiting_screen /\ producer = NULL)
          /\ UNCHANGED <<sock, link, live, producer, producer_waiting_fds>>
  /\ UNCHANGED <<running, consumer, heap, deposit, greeting, backlog, peer, nmsgs>>

ClientPickup(c, k) ==
  /\ Reads(c, k)
  /\ Msg(k).type = "PICKUP_FDS"
  /\ c = producer
  /\ try_deliver_fds(deposit, ConsumerConn)
  /\ UNCHANGED <<running, consumer, producer, live, heap, stored_screen,
                 producer_waiting_screen, greeting, backlog, sock, link, peer, nmsgs>>

\* Every other message is read, its descriptors are closed, and nothing changes.
ClientIgnored(c, k) ==
  /\ Reads(c, k)
  /\ ~ \/ Msg(k).type = "OVERSIZED"
       \/ Msg(k).type = "CONSUMER_HELLO" /\ c = consumer /\ Msg(k).fds >= 3
       \/ Msg(k).type = "SCREEN_INFO" /\ c = consumer
       \/ Msg(k).type = "PICKUP_FDS" /\ c = producer
  /\ UNCHANGED <<running, consumer, producer, live, heap, stored_screen, deposit,
                 producer_waiting_screen, producer_waiting_fds, greeting,
                 backlog, sock, link, peer, sent, nmsgs>>

-----------------------------------------------------------------------------
\* A signal ends the loop after the batch; everything is closed.
Shutdown ==
  /\ running
  /\ batch = <<>>
  /\ greeting = NULL
  /\ running' = FALSE
  /\ deposit' = NoDeposit
  /\ consumer' = NULL
  /\ producer' = NULL
  /\ live' = {}
  /\ sock' = [f \in Fds |-> NULL]
  /\ link' = [k \in Conns |-> IF link[k] = "none" THEN "none" ELSE "closed"]
  /\ backlog' = <<>>
  /\ producer_waiting_screen' = FALSE
  /\ producer_waiting_fds' = FALSE
  /\ UNCHANGED <<heap, stored_screen, batch, greeting, peer, inq, sent, nmsgs>>

ClientStep ==
  \E k \in Conns :
    \/ Connect(k)
    \/ \E m \in Requests(k) : Send(k, m)
    \/ Hangup(k)

Greet ==
  \/ \E k \in Conns : NewConsumer(k) \/ NewProducer(k)
  \/ RejectConnection

ClientEvent ==
  \E c \in Addr :
    \/ ClientHup(c)
    \/ ClientGone(c)
    \/ \E k \in Conns : \/ ClientOversized(c, k)
                         \/ ClientRedeposit(c, k)
                         \/ ClientScreenInfo(c, k)
                         \/ ClientPickup(c, k)
                         \/ ClientIgnored(c, k)

DaemonStep ==
  \/ EpollWait
  \/ AcceptConnection
  \/ Greet
  \/ ClientEvent
  \/ Shutdown

Next == ClientStep \/ DaemonStep

Spec == Init /\ [][Next]_vars

-----------------------------------------------------------------------------
(* Properties. *)

\* What the daemon wrote to connection k: the screens, the bundles, and the
\* notices that a bundle was taken.
Told(k) == {sent[k][i].screen : i \in {j \in DOMAIN sent[k] : sent[k][j].type = "SCREEN_INFO"}}
Given(k) == {i \in DOMAIN sent[k] : sent[k][i].type = "FDS_READY" /\ sent[k][i].fds > 0}
Notices(k) == {i \in DOMAIN sent[k] : sent[k][i].type = "FDS_READY" /\ sent[k][i].fds = 0}
Deliveries == UNION {{<<k, i>> : i \in Given(k)} : k \in Conns}
BundleOf(d) == sent[d[1]][d[2]].bundle

\* No lost wakeup for descriptors: a producer is left waiting for a bundle
\* only while no complete bundle is deposited, unless its own socket is
\* broken; and nobody waits when there is no producer.
NoLostFds ==
  producer_waiting_fds =>
    /\ producer # NULL
    /\ Complete(deposit) => ~peer[ConnAt(producer)]

\* No lost wakeup for the screen: a producer waits for the screen
\* description only while the daemon has none.
NoLostScreen ==
  producer_waiting_screen => producer # NULL /\ stored_screen = NULL

\* The screen a connected producer was told is the one the daemon stores, and
\* a producer that was told nothing is either waiting or already gone: a
\* change of the screen never leaves a producer with the old description.
ScreenAgreement ==
  producer # NULL =>
    LET told == Told(ConnAt(producer))
    IN  /\ told \subseteq {stored_screen}
        /\ told = {} => producer_waiting_screen \/ ~peer[ConnAt(producer)]

\* A connection has one descriptor, the greeted descriptor is open, and the
\* connections that wait to be accepted are distinct and have none.
SocketTable ==
  /\ \A f, g \in Fds : sock[f] # NULL /\ sock[f] = sock[g] => f = g
  /\ greeting # NULL => sock[greeting] # NULL
  /\ \A i \in 1..Len(backlog) : link[backlog[i]] = "backlog"
  /\ \A i, j \in 1..Len(backlog) : backlog[i] = backlog[j] => i = j

\* The two client pointers own every allocated block and every open
\* descriptor: replacing, resetting or losing a client neither leaks one nor
\* leaves a pointer to a freed block, whatever stale events the batch holds.
ClientsOwnSockets ==
  /\ SocketTable
  /\ live = {consumer, producer} \ {NULL}
  /\ consumer # NULL => consumer # producer
  /\ \A a \in live : heap[a] \in Fds /\ heap[a] # greeting /\ sock[heap[a]] # NULL
  /\ \A a, b \in live : heap[a] = heap[b] => a = b
  /\ \A f \in Fds : sock[f] # NULL => f = greeting \/ \E a \in live : f = heap[a]
  /\ \A k \in Conns : link[k] = "open" <=> \E f \in Fds : sock[f] = k

\* A bundle is handed out at most once, the bundles of one consumer are
\* handed out in the order it deposited them, and the bundle on deposit is
\* newer than all of its consumer's that were handed out.
BundlesInOrder ==
  /\ \A d, e \in Deliveries : BundleOf(d) = BundleOf(e) => d = e
  /\ \A k \in Conns : \A i, j \in Given(k) :
       /\ sent[k][i].bundle[1] = sent[k][j].bundle[1]
       /\ i < j
       => sent[k][i].bundle[2] < sent[k][j].bundle[2]
  /\ deposit.fds > 0 =>
       \A d \in Deliveries :
         BundleOf(d)[1] = deposit.bundle[1] => BundleOf(d)[2] < deposit.bundle[2]

\* The consumer that is told FDS_READY is the one whose bundle was taken: no
\* connection gets more notices than bundles of its own were handed out, and
\* the deposit always belongs to the consumer that is connected.
NoticeIsForOwnBundle ==
  /\ \A k \in Conns :
       Cardinality(Notices(k)) <= Cardinality({d \in Deliveries : BundleOf(d)[1] = k})
  /\ deposit.fds > 0 /\ consumer # NULL => deposit.bundle[1] = ConnAt(consumer)
=============================================================================
