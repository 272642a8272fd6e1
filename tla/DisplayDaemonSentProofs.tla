---------------------- MODULE DisplayDaemonSentProofs ----------------------
(***************************************************************************)
(* Proofs about what the display daemon writes to its clients, on top of   *)
(* the inductive invariant of DisplayDaemonProofs: screen descriptions,    *)
(* bundles of descriptors and notices, for any number of connections,      *)
(* messages and screens.                                                   *)
(***************************************************************************)
EXTENDS DisplayDaemonProofs, FiniteSetTheorems

\* Nothing is written to a connection before its greeting has been read.
SilentBeforeGreeting ==
  /\ \A k \in Conns : link[k] \in {"none", "backlog"} => sent[k] = <<>>
  /\ greeting # NULL => sent[sock[greeting]] = <<>>

\* A SCREEN_INFO on its way to the daemon describes a screen.
QueuedScreens ==
  \A k \in Conns : \A i \in DOMAIN inq[k] :
    inq[k][i].type = "SCREEN_INFO" => inq[k][i].screen \in Screens

\* A producer is told nothing while the daemon stores no screen.
NothingToTell == producer # NULL /\ stored_screen = NULL => Told(ConnAt(producer)) = {}

ScreenInv == SilentBeforeGreeting /\ QueuedScreens /\ NothingToTell /\ ScreenAgreement

\* The bundle b of a consumer is one it has sent, and newer than all of its own
\* that were handed out.
Unspent(b) ==
  /\ b \in Bundles
  /\ b[2] <= nmsgs[b[1]]
  /\ \A d \in Deliveries : BundleOf(d)[1] = b[1] => BundleOf(d)[2] < b[2]

\* The bundles that wait in the socket q of connection k are its own, in the order
\* sent, and newer than what was handed out.
InOrder(k, q) ==
  /\ \A i \in DOMAIN q : q[i].fds > 0 => q[i].bundle[1] = k /\ Unspent(q[i].bundle)
  /\ \A i, j \in DOMAIN q :
       i < j /\ q[i].fds > 0 /\ q[j].fds > 0 => q[i].bundle[2] < q[j].bundle[2]

\* A deposit d is older than every bundle of its consumer that waits in q.
Older(d, k, q) ==
  d.fds > 0 /\ d.bundle[1] = k => \A i \in DOMAIN q : q[i].fds > 0 => d.bundle[2] < q[i].bundle[2]

\* The life of a bundle: sent, deposited, handed out.
BundleInv ==
  /\ \A d \in Deliveries : BundleOf(d) \in Bundles /\ BundleOf(d)[2] <= nmsgs[BundleOf(d)[1]]
  /\ deposit.fds > 0 => Unspent(deposit.bundle)
  /\ \A k \in Conns : InOrder(k, inq[k]) /\ Older(deposit, k, inq[k])
  /\ BundlesInOrder

\* The bundles of consumer k that were handed out
Own(k) == {d \in Deliveries : BundleOf(d)[1] = k}

\* They are finitely many, which makes counting them meaningful.
NoticeInv == NoticeIsForOwnBundle /\ \A k \in Conns : IsFiniteSet(Own(k))
-----------------------------------------------------------------------------
(* Clients and their connections. *)

\* An open descriptor stays with its connection until it is closed.
LEMMA SockMoves ==
  ASSUME IInv, Next, NEW f \in Fds, sock[f] # NULL
  PROVE  sock'[f] \in {sock[f], NULL}
<1> USE DEF IInv, TypeOK
<1>1. ASSUME NEW a, sock' = FreeSock(a) PROVE sock'[f] \in {sock[f], NULL}
  BY <1>1 DEF FreeSock
<1>2. CASE ClientStep
  BY <1>2 DEF ClientStep, Connect, Send, Hangup
<1>3. CASE EpollWait
  BY <1>3 DEF EpollWait, socketVars
<1>4. CASE AcceptConnection
  BY <1>4 DEF AcceptConnection, NewFd, Unused
<1>5. CASE Greet
  BY <1>1, <1>5 DEF Greet, NewConsumer, NewProducer, RejectConnection
<1>6. ASSUME NEW c, handle_disconnect(c) PROVE sock'[f] \in {sock[f], NULL}
  BY <1>1, <1>6 DEF handle_disconnect
<1>7. CASE ClientEvent
  BY <1>1, <1>6, <1>7 DEF ClientEvent, ClientHup, ClientGone, ClientOversized,
     ClientRedeposit, ClientScreenInfo, ClientPickup, ClientIgnored
<1>8. CASE Shutdown
  BY <1>8 DEF Shutdown
<1> QED BY <1>2, <1>3, <1>4, <1>5, <1>7, <1>8 DEF Next, DaemonStep

\* A block that stays allocated keeps its descriptor.
LEMMA HeapMoves ==
  ASSUME IInv, Next, NEW a \in live
  PROVE  heap'[a] = heap[a]
<1> USE DEF IInv, TypeOK
<1>1. CASE ClientStep
  BY <1>1 DEF ClientStep, Connect, Send, Hangup, daemonVars
<1>2. CASE EpollWait
  BY <1>2 DEF EpollWait
<1>3. CASE AcceptConnection
  BY <1>3 DEF AcceptConnection
<1>4. ASSUME NEW b \in NewAddr, heap' = [heap EXCEPT ![b] = greeting] PROVE heap'[a] = heap[a]
  BY <1>4 DEF NewAddr, Unused
<1>5. CASE Greet
  BY <1>4, <1>5 DEF Greet, NewConsumer, NewProducer, RejectConnection
<1>6. CASE ClientEvent
  BY <1>6 DEF ClientEvent, ClientHup, ClientGone, ClientOversized, handle_disconnect,
     ClientRedeposit, ClientScreenInfo, ClientPickup, ClientIgnored
<1>7. CASE Shutdown
  BY <1>7 DEF Shutdown
<1> QED BY <1>1, <1>2, <1>3, <1>5, <1>6, <1>7 DEF Next, DaemonStep

\* So a client that stays keeps its connection.
LEMMA ConnStays ==
  ASSUME IInv, IInv', Next, NEW a \in live, a \in live'
  PROVE  ConnAt(a)' = ConnAt(a)
<1>1. heap'[a] = heap[a] /\ heap[a] \in Fds /\ sock[heap[a]] # NULL /\ sock'[heap'[a]] # NULL
  BY HeapMoves DEF IInv, ClientsOwnSockets
<1> QED BY <1>1, SockMoves DEF ConnAt

\* Only a greeting brings another consumer, and only its own.
LEMMA ConsumerMoves ==
  ASSUME IInv, IInv', Next
  PROVE  \/ consumer' = NULL
         \/ consumer' = consumer /\ ConnAt(consumer)' = ConnAt(consumer)
         \/ \E k \in Conns : NewConsumer(k) /\ ConnAt(consumer)' = k
<1>1. ASSUME NEW k \in Conns, NewConsumer(k) PROVE ConnAt(consumer)' = k
  <2>1. PICK a \in NewAddr : consumer' = a /\ heap' = [heap EXCEPT ![a] = greeting]
    BY <1>1 DEF NewConsumer
  <2>2. a \in Addr /\ heap'[a] = greeting /\ greeting \in Fds /\ k = sock[greeting]
    BY <1>1, <2>1 DEF NewConsumer, Greeted, NewAddr, Unused, IInv, TypeOK
  <2>3. sock'[greeting] # NULL
    BY <2>1, <2>2, NullAssumption DEF IInv, ClientsOwnSockets
  <2> QED BY <2>1, <2>2, <2>3, SockMoves, NullAssumption DEF ConnAt
<1>2. ASSUME consumer' = consumer, consumer # NULL PROVE ConnAt(consumer)' = ConnAt(consumer)
  BY <1>2, ConnStays DEF IInv, ClientsOwnSockets
<1>3. consumer' \in {consumer, NULL} \/ \E k \in Conns : NewConsumer(k)
  BY DEF Next, DaemonStep, ClientStep, Connect, Send, Hangup, daemonVars, EpollWait,
     AcceptConnection, Greet, NewProducer, RejectConnection, ClientEvent, ClientHup,
     ClientGone, ClientOversized, handle_disconnect, ClientRedeposit, ClientScreenInfo,
     ClientPickup, ClientIgnored, Shutdown
<1> QED BY <1>1, <1>2, <1>3

\* The same for the producer.
LEMMA ProducerMoves ==
  ASSUME IInv, IInv', Next
  PROVE  \/ producer' = NULL
         \/ producer' = producer /\ ConnAt(producer)' = ConnAt(producer)
         \/ \E k \in Conns : NewProducer(k) /\ ConnAt(producer)' = k
<1>1. ASSUME NEW k \in Conns, NewProducer(k) PROVE ConnAt(producer)' = k
  <2>1. PICK a \in NewAddr : producer' = a /\ heap' = [heap EXCEPT ![a] = greeting]
    BY <1>1 DEF NewProducer
  <2>2. a \in Addr /\ heap'[a] = greeting /\ greeting \in Fds /\ k = sock[greeting]
    BY <1>1, <2>1 DEF NewProducer, Greeted, NewAddr, Unused, IInv, TypeOK
  <2>3. sock'[greeting] # NULL
    BY <2>1, <2>2, NullAssumption DEF IInv, ClientsOwnSockets
  <2> QED BY <2>1, <2>2, <2>3, SockMoves, NullAssumption DEF ConnAt
<1>2. ASSUME producer' = producer, producer # NULL PROVE ConnAt(producer)' = ConnAt(producer)
  BY <1>2, ConnStays DEF IInv, ClientsOwnSockets
<1>3. producer' \in {producer, NULL} \/ \E k \in Conns : NewProducer(k)
  BY DEF Next, DaemonStep, ClientStep, Connect, Send, Hangup, daemonVars, EpollWait,
     AcceptConnection, Greet, NewConsumer, RejectConnection, ClientEvent, ClientHup,
     ClientGone, ClientOversized, handle_disconnect, ClientRedeposit, ClientScreenInfo,
     ClientPickup, ClientIgnored, Shutdown
<1> QED BY <1>1, <1>2, <1>3

-----------------------------------------------------------------------------
(* What a step writes. *)

\* Told, Given and Notices of one log
ToldIn(q) == {q[i].screen : i \in {j \in DOMAIN q : q[j].type = "SCREEN_INFO"}}
GivenIn(q) == {i \in DOMAIN q : q[i].type = "FDS_READY" /\ q[i].fds > 0}
NoticesIn(q) == {i \in DOMAIN q : q[i].type = "FDS_READY" /\ q[i].fds = 0}

\* One more message changes exactly one of them.
LEMMA AppendEffect ==
  ASSUME NEW q \in Seq(Msgs), NEW m \in Msgs
  PROVE  LET r == Append(q, m)
             n == Len(q) + 1
         IN  /\ n \notin DOMAIN q /\ \A i \in DOMAIN q : i < n /\ r[i] = q[i] /\ i \in DOMAIN r
             /\ r[n] = m
             /\ m.type = "SCREEN_INFO" =>
                  /\ ToldIn(r) = ToldIn(q) \cup {m.screen}
                  /\ GivenIn(r) = GivenIn(q)
                  /\ NoticesIn(r) = NoticesIn(q)
             /\ m.type = "FDS_READY" /\ m.fds > 0 =>
                  /\ ToldIn(r) = ToldIn(q)
                  /\ GivenIn(r) = GivenIn(q) \cup {n}
                  /\ NoticesIn(r) = NoticesIn(q)
             /\ m.type = "FDS_READY" /\ m.fds = 0 =>
                  /\ ToldIn(r) = ToldIn(q)
                  /\ GivenIn(r) = GivenIn(q)
                  /\ NoticesIn(r) = NoticesIn(q) \cup {n}
<1> DEFINE r == Append(q, m)
           n == Len(q) + 1
<1>1. /\ DOMAIN r = DOMAIN q \cup {n} /\ n \notin DOMAIN q /\ \A i \in DOMAIN q : i < n
      /\ r[n] = m /\ \A i \in DOMAIN q : r[i] = q[i]
  <2>1. Len(q) \in Nat /\ DOMAIN q = 1..Len(q)
    OBVIOUS
  <2>2. DOMAIN r = 1..(Len(q) + 1)
    OBVIOUS
  <2>3. 1..(Len(q) + 1) = (1..Len(q)) \cup {Len(q) + 1}
    BY <2>1
  <2> QED BY <2>1, <2>2, <2>3
<1> HIDE DEF r, n
<1>2. GivenIn(r) = IF m.type = "FDS_READY" /\ m.fds > 0 THEN GivenIn(q) \cup {n} ELSE GivenIn(q)
  BY <1>1 DEF GivenIn
<1>3. NoticesIn(r) = IF m.type = "FDS_READY" /\ m.fds = 0
                     THEN NoticesIn(q) \cup {n} ELSE NoticesIn(q)
  BY <1>1 DEF NoticesIn
<1>4. ToldIn(r) = IF m.type = "SCREEN_INFO" THEN ToldIn(q) \cup {m.screen} ELSE ToldIn(q)
  <2>1. \A x : x \in ToldIn(q) <=> \E i \in DOMAIN q : q[i].type = "SCREEN_INFO" /\ x = q[i].screen
    BY DEF ToldIn
  <2>2. \A x : x \in ToldIn(r) <=> \E i \in DOMAIN r : r[i].type = "SCREEN_INFO" /\ x = r[i].screen
    BY DEF ToldIn
  <2>3. \A x : x \in ToldIn(r) <=> x \in ToldIn(q) \/ (m.type = "SCREEN_INFO" /\ x = m.screen)
    BY <1>1, <2>1, <2>2
  <2> QED BY <2>3
<1>5. ~(0 > 0)
  OBVIOUS
<1>6. /\ n \notin DOMAIN q /\ \A i \in DOMAIN q : i < n /\ r[i] = q[i] /\ i \in DOMAIN r
      /\ r[n] = m
  BY <1>1
<1> QED BY <1>2, <1>3, <1>4, <1>5, <1>6 DEF r, n

\* Told, Given and Notices look at the log of one connection only.
LEMMA LogOf ==
  \A j : /\ Told(j) = ToldIn(sent[j]) /\ Told(j)' = ToldIn(sent'[j])
         /\ Given(j) = GivenIn(sent[j]) /\ Given(j)' = GivenIn(sent'[j])
         /\ Notices(j) = NoticesIn(sent[j]) /\ Notices(j)' = NoticesIn(sent'[j])
BY DEF Told, Given, Notices, ToldIn, GivenIn, NoticesIn

\* A screen description that is written concerns no bundle and no notice.
LEMMA AnnounceEffect ==
  ASSUME TypeOK, NEW k \in Conns, NEW s \in Screens \cup {NULL},
         sent' = Post(sent, k, ScreenInfo(s))
  PROVE  /\ \A j \in Conns : Given(j)' = Given(j) /\ Notices(j)' = Notices(j)
         /\ \A j \in Conns : Told(j)' = IF j = k /\ peer[k] THEN Told(j) \cup {s} ELSE Told(j)
         /\ \A j \in Conns : \A i \in DOMAIN sent[j] : sent'[j][i] = sent[j][i]
<1>1. CASE ~peer[k]
  <2>1. sent' = sent
    BY <1>1 DEF Post
  <2> QED BY <1>1, <2>1, LogOf
<1>2. CASE peer[k]
  <2>1. sent' = [sent EXCEPT ![k] = Append(sent[k], ScreenInfo(s))]
    BY <1>2 DEF Post
  <2>2. /\ sent[k] \in Seq(Msgs)
        /\ sent'[k] = Append(sent[k], ScreenInfo(s))
        /\ \A j \in Conns : j # k => sent'[j] = sent[j]
    BY <2>1 DEF TypeOK
  <2>3. /\ ScreenInfo(s) \in Msgs
        /\ ScreenInfo(s).type = "SCREEN_INFO" /\ ScreenInfo(s).screen = s
    BY MsgTypesOK DEF ScreenInfo
  <2>4. /\ \A i \in DOMAIN sent[k] : sent'[k][i] = sent[k][i]
        /\ ToldIn(sent'[k]) = ToldIn(sent[k]) \cup {s}
        /\ GivenIn(sent'[k]) = GivenIn(sent[k])
        /\ NoticesIn(sent'[k]) = NoticesIn(sent[k])
    BY <2>2, <2>3, AppendEffect
  <2> QED BY <1>2, <2>2, <2>4, LogOf
<1> QED BY <1>1, <1>2

\* Bundle d is handed to the producer, and connection k (if any) gets a notice.
Delivers(d, k) ==
  /\ producer # NULL
  /\ Complete(d)
  /\ peer[ConnAt(producer)]
  /\ sent' = Notify(Post(sent, ConnAt(producer), WithFds("FDS_READY", d.fds, d.bundle)), k)

\* The message at place n of the log of pk hands bundle b to the producer, and
\* connection k (if any) gets at most one notice; no screen is announced.
Handed(pk, n, b, k) ==
  /\ pk \in Conns
  /\ n \notin Given(pk) /\ \A i \in Given(pk) : i < n
  /\ Given(pk)' = Given(pk) \cup {n}
  /\ sent'[pk][n].bundle = b
  /\ \A j \in Conns : j # pk => Given(j)' = Given(j)
  /\ \A j \in Conns : \A i \in DOMAIN sent[j] : sent'[j][i] = sent[j][i]
  /\ \A j \in Conns : Told(j)' = Told(j)
  /\ \A j \in Conns : \/ Notices(j)' = Notices(j)
                      \/ j = k /\ \E x : Notices(j)' = Notices(j) \cup {x}

\* That is what a delivery does.
LEMMA DeliverEffect ==
  ASSUME IInv, NEW d \in [fds : 0..MAX_FDS, bundle : Bundles \cup {NULL}],
         NEW k \in Conns \cup {NULL}, Delivers(d, k)
  PROVE  \E pk \in Conns, n \in Nat : pk = ConnAt(producer) /\ Handed(pk, n, d.bundle, k)
<1>0. ConnAt(producer) \in Conns
  BY LiveConn DEF Delivers, IInv, ClientsOwnSockets
<1> PICK pk \in Conns : pk = ConnAt(producer)
  BY <1>0
<1> DEFINE M == WithFds("FDS_READY", d.fds, d.bundle)
           N == Plain("FDS_READY")
           mid == Post(sent, pk, M)
           n == Len(sent[pk]) + 1
<1>1. pk \in Conns /\ peer[pk] /\ n \in Nat
  BY DEF Delivers, IInv, TypeOK
<1>2. M \in Msgs /\ N \in Msgs
  BY MsgTypesOK DEF MsgTypes
<1>3. mid \in [Conns -> Seq(Msgs)] /\ sent \in [Conns -> Seq(Msgs)]
  BY <1>1, <1>2, PostType DEF IInv, TypeOK
<1>4. /\ M.type = "FDS_READY" /\ M.fds = d.fds /\ M.bundle = d.bundle /\ M.fds > 0
      /\ N.type = "FDS_READY" /\ N.fds = 0
  BY DEF Delivers, WithFds, Plain, Complete
<1>5. mid = [sent EXCEPT ![pk] = Append(sent[pk], M)]
  BY <1>1 DEF Post
<1>6. sent' = mid \/ (k \in Conns /\ sent' = [mid EXCEPT ![k] = Append(mid[k], N)])
  BY DEF Delivers, Notify, Post
<1> HIDE DEF M, N, mid
<1>7. mid[pk] = Append(sent[pk], M) /\ \A j \in Conns : j # pk => mid[j] = sent[j]
  BY <1>1, <1>3, <1>5
<1>8. \A j \in Conns : sent'[j] = mid[j] \/ (j = k /\ sent'[j] = Append(mid[j], N))
  BY <1>3, <1>6
<1>9. /\ \A i \in DOMAIN sent[pk] : i < n /\ mid[pk][i] = sent[pk][i] /\ i \in DOMAIN mid[pk]
      /\ n \notin DOMAIN sent[pk] /\ mid[pk][n] = M
      /\ ToldIn(mid[pk]) = ToldIn(sent[pk])
      /\ GivenIn(mid[pk]) = GivenIn(sent[pk]) \cup {n}
      /\ NoticesIn(mid[pk]) = NoticesIn(sent[pk])
  BY <1>1, <1>2, <1>3, <1>4, <1>7, AppendEffect
<1>10. ASSUME NEW j \in Conns
       PROVE  /\ GivenIn(sent'[j]) = GivenIn(mid[j])
              /\ ToldIn(sent'[j]) = ToldIn(mid[j])
              /\ \/ NoticesIn(sent'[j]) = NoticesIn(mid[j])
                 \/ j = k /\ \E x : NoticesIn(sent'[j]) = NoticesIn(mid[j]) \cup {x}
              /\ \A i \in DOMAIN mid[j] : sent'[j][i] = mid[j][i]
  <2>1. CASE sent'[j] = mid[j]
    BY <2>1
  <2>2. CASE j = k /\ sent'[j] = Append(mid[j], N)
    <3>1. mid[j] \in Seq(Msgs)
      BY <1>3
    <3>2. /\ GivenIn(Append(mid[j], N)) = GivenIn(mid[j])
          /\ ToldIn(Append(mid[j], N)) = ToldIn(mid[j])
          /\ NoticesIn(Append(mid[j], N)) = NoticesIn(mid[j]) \cup {Len(mid[j]) + 1}
          /\ \A i \in DOMAIN mid[j] : Append(mid[j], N)[i] = mid[j][i]
      BY <1>2, <1>4, <3>1, AppendEffect
    <3>3. \E x : NoticesIn(sent'[j]) = NoticesIn(mid[j]) \cup {x}
      BY <2>2, <3>2, Zenon
    <3> QED BY <2>2, <3>2, <3>3
  <2> QED BY <1>8, <2>1, <2>2
<1> HIDE DEF n
<1>11. n \notin Given(pk) /\ \A i \in Given(pk) : i < n
  BY <1>9 DEF Given
<1>12. n \in DOMAIN mid[pk] /\ sent'[pk][n].bundle = d.bundle
  <2>1. n \in GivenIn(mid[pk])
    BY <1>9
  <2>2. n \in DOMAIN mid[pk]
    BY <2>1 DEF GivenIn
  <2> QED BY <1>1, <1>4, <1>9, <1>10, <2>2
<1>13. \A j \in Conns : \A i \in DOMAIN sent[j] : sent'[j][i] = sent[j][i]
  BY <1>7, <1>9, <1>10
<1>14. /\ Given(pk)' = Given(pk) \cup {n}
       /\ \A j \in Conns : j # pk => Given(j)' = Given(j)
       /\ \A j \in Conns : Told(j)' = Told(j)
  <2>1. /\ GivenIn(sent'[pk]) = GivenIn(mid[pk])
        /\ \A j \in Conns : GivenIn(sent'[j]) = GivenIn(mid[j])
        /\ \A j \in Conns : ToldIn(sent'[j]) = ToldIn(mid[j])
    BY <1>1, <1>10, Zenon
  <2>2. \A j \in Conns : ToldIn(mid[j]) = ToldIn(sent[j])
    BY <1>7, <1>9
  <2>3. Given(pk)' = Given(pk) \cup {n}
    BY <1>9, <2>1, LogOf
  <2>4. ASSUME NEW j \in Conns, j # pk PROVE Given(j)' = Given(j)
    BY <1>7, <2>1, <2>4, LogOf
  <2>5. ASSUME NEW j \in Conns PROVE Told(j)' = Told(j)
    BY <2>1, <2>2, <2>5, LogOf
  <2> QED BY <2>3, <2>4, <2>5
<1>15. ASSUME NEW j \in Conns
       PROVE  \/ Notices(j)' = Notices(j)
              \/ j = k /\ \E x : Notices(j)' = Notices(j) \cup {x}
  <2>1. NoticesIn(mid[j]) = NoticesIn(sent[j])
    BY <1>7, <1>9
  <2>2. /\ Notices(j) = NoticesIn(mid[j])
        /\ Notices(j)' = NoticesIn(sent'[j])
    BY <2>1, LogOf
  <2> QED BY <1>10, <2>2
<1>16. Handed(pk, n, d.bundle, k)
  BY <1>1, <1>11, <1>12, <1>13, <1>14, <1>15 DEF Handed
<1> QED BY <1>1, <1>16

-----------------------------------------------------------------------------
(* Which step writes what. *)

DepositType == [fds : 0..MAX_FDS, bundle : Bundles \cup {NULL}]

\* A deposit stays, or it is delivered at once and nothing is left.
LEMMA DepositMoves ==
  ASSUME NEW d, NEW k, Deposit(d, k) \/ try_deliver_fds(d, k)
  PROVE  \/ deposit' = d /\ sent' = sent
         \/ deposit' = NoDeposit /\ Delivers(d, k)
BY DEF Deposit, try_deliver_fds, Delivers

\* The connection of a client, or none: always one that is open.
LEMMA ClientConns ==
  ASSUME IInv
  PROVE  /\ producer # NULL => ConnAt(producer) \in Conns /\ link[ConnAt(producer)] = "open"
         /\ ConsumerConn \in Conns \cup {NULL}
         /\ ConsumerConn # NULL => consumer # NULL /\ ConsumerConn = ConnAt(consumer)
                                   /\ link[ConsumerConn] = "open"
         /\ greeting # NULL => sock[greeting] \in Conns /\ link[sock[greeting]] = "open"
<1>1. producer # NULL => producer \in live
  BY DEF IInv, ClientsOwnSockets
<1>2. consumer # NULL => consumer \in live
  BY DEF IInv, ClientsOwnSockets
<1>3. greeting # NULL => sock[greeting] \in Conns /\ link[sock[greeting]] = "open"
  BY NullAssumption DEF IInv, ClientsOwnSockets, SocketTable, TypeOK
<1> QED BY <1>1, <1>2, <1>3, LiveConn DEF IInv, ConsumerConn

\* A step takes the first message of connection k, or of some connection.
Takes(k) == k \in Conns /\ inq[k] # <<>> /\ inq' = [inq EXCEPT ![k] = Tail(@)]
Drains == inq' = inq \/ \E k \in Conns : Takes(k)

\* A delivery as the handlers make it: of the bundle on deposit, with a notice to the
\* consumer, or of the bundle of the message just read, with a notice to its sender.
Delivery(d, k) ==
  /\ Delivers(d, k)
  /\ deposit' = NoDeposit
  /\ UNCHANGED <<nmsgs, peer, stored_screen, producer, producer_waiting_screen>>
  /\ greeting' = NULL
  /\ \/ d = deposit /\ k = ConsumerConn /\ Drains
     \/ Takes(k) /\ d = Carried(Msg(k)) /\ link[k] = "open"

\* A bundle is put on deposit by its sender k, the consumer.
Deposits(k) ==
  /\ Takes(k)
  /\ deposit' = Carried(Msg(k))
  /\ UNCHANGED <<nmsgs, peer, stored_screen, producer, producer_waiting_screen, sent>>
  /\ greeting' = NULL

\* The handlers of CONSUMER_HELLO, in a greeting and later, and of PICKUP_FDS.
LEMMA HandlerMoves ==
  ASSUME IInv, NEW k \in Conns, NEW c \in Addr,
         NewConsumer(k) \/ ClientRedeposit(c, k) \/ ClientPickup(c, k)
  PROVE  \/ (NewConsumer(k) \/ ClientRedeposit(c, k)) /\ Deposits(k)
         \/ /\ ClientPickup(c, k)
            /\ Drains
            /\ deposit' = deposit
            /\ UNCHANGED <<nmsgs, peer, stored_screen, producer, producer_waiting_screen, sent,
                           consumer>>
            /\ greeting' = NULL
         \/ \E d \in DepositType, n \in Conns \cup {NULL} : Delivery(d, n)
<1>1. CASE NewConsumer(k)
  <2>1. /\ Takes(k) /\ greeting' = NULL /\ link[k] = "open"
        /\ UNCHANGED <<nmsgs, peer, stored_screen, producer, producer_waiting_screen>>
    BY <1>1, ClientConns DEF NewConsumer, Greeted, Takes
  <2>2. Carried(Msg(k)) \in DepositType
    BY <2>1, HeadType DEF Takes, IInv, DepositType
  <2>3. \/ deposit' = Carried(Msg(k)) /\ sent' = sent
        \/ deposit' = NoDeposit /\ Delivers(Carried(Msg(k)), k)
    BY <1>1, DepositMoves DEF NewConsumer
  <2> QED BY <1>1, <2>1, <2>2, <2>3 DEF Delivery, Deposits
<1>2. CASE ClientRedeposit(c, k)
  <2>1. /\ Takes(k) /\ greeting' = NULL
        /\ UNCHANGED <<nmsgs, peer, stored_screen, producer, producer_waiting_screen>>
    BY <1>2 DEF ClientRedeposit, Reads, Serving, Takes
  <2>2. Carried(Msg(k)) \in DepositType
    BY <2>1, HeadType DEF Takes, IInv, DepositType
  <2>3. \/ deposit' = Carried(Msg(k)) /\ sent' = sent
        \/ deposit' = NoDeposit /\ Delivers(Carried(Msg(k)), k)
    BY <1>2, DepositMoves DEF ClientRedeposit
  <2>4. link[k] = "open"
    <3>1. k = ConnAt(consumer) /\ consumer # NULL
      BY <1>2, NullAssumption DEF ClientRedeposit, Reads
    <3>2. ConsumerConn = k /\ k # NULL
      BY <3>1, NullAssumption DEF ConsumerConn
    <3> QED BY <3>2, ClientConns
  <2> QED BY <1>2, <2>1, <2>2, <2>3, <2>4 DEF Delivery, Deposits
<1>3. CASE ClientPickup(c, k)
  <2>1. /\ Takes(k) /\ greeting' = NULL
        /\ UNCHANGED <<nmsgs, peer, stored_screen, producer, producer_waiting_screen, consumer>>
    BY <1>3 DEF ClientPickup, Reads, Serving, Takes
  <2>2. deposit \in DepositType /\ Drains /\ ConsumerConn \in Conns \cup {NULL}
    BY <2>1, ClientConns DEF Drains, IInv, TypeOK, DepositType
  <2>3. \/ deposit' = deposit /\ sent' = sent
        \/ deposit' = NoDeposit /\ Delivers(deposit, ConsumerConn)
    BY <1>3, DepositMoves DEF ClientPickup
  <2> QED BY <1>3, <2>1, <2>2, <2>3 DEF Delivery
<1> QED BY <1>1, <1>2, <1>3

\* A step that writes nothing and brings neither a bundle nor a screen.
Quiet ==
  /\ sent' = sent
  /\ deposit' \in {deposit, NoDeposit}
  /\ Drains
  /\ UNCHANGED <<nmsgs, stored_screen>>
  /\ consumer' \in {consumer, NULL}
  /\ producer' = producer => producer_waiting_screen' = producer_waiting_screen
  /\ \A j \in Conns : link[j] = "open" /\ peer'[j] => peer[j]

\* handle_disconnect is such a step, unless the producer is lost.
LEMMA DisconnectQuiet ==
  ASSUME IInv, NEW c \in Addr, handle_disconnect(c), Drains
  PROVE  Quiet
<1>1. /\ UNCHANGED <<sent, deposit, nmsgs, stored_screen, peer>>
      /\ consumer' = IF c = consumer THEN NULL ELSE consumer
      /\ producer' = IF c = producer THEN NULL ELSE producer
      /\ producer_waiting_screen' = (c # producer /\ producer_waiting_screen)
  BY DEF handle_disconnect
<1>2. producer' = producer => c # producer
  BY <1>1, NullAssumption
<1>3. producer_waiting_screen \in BOOLEAN
  BY DEF IInv, TypeOK
<1>4. producer' = producer => producer_waiting_screen' = producer_waiting_screen
  BY <1>1, <1>2, <1>3
<1> QED BY <1>1, <1>4 DEF Quiet

\* Every step is of one of six kinds.
LEMMA Moves ==
  ASSUME IInv, IInv', Next
  PROVE  \/ Quiet
         \/ \E k \in Conns, m \in Msgs : m \in Requests(k) /\ Send(k, m)
         \/ \E k \in Conns, c \in Addr : (NewConsumer(k) \/ ClientRedeposit(c, k)) /\ Deposits(k)
         \/ \E d \in DepositType, n \in Conns \cup {NULL} : Delivery(d, n)
         \/ \E k \in Conns : NewProducer(k)
         \/ \E k \in Conns, c \in Addr : ClientScreenInfo(c, k)
<1>1. ASSUME NEW k \in Conns, Connect(k) PROVE Quiet
  BY <1>1 DEF Connect, Quiet, Drains, daemonVars, IInv, TypeOK
<1>2. ASSUME NEW k \in Conns, NEW m \in Requests(k), Send(k, m) PROVE m \in Msgs
  BY <1>2, RequestType DEF Send, IInv
<1>3. ASSUME NEW k \in Conns, Hangup(k) PROVE Quiet
  BY <1>3 DEF Hangup, Quiet, Drains, daemonVars, IInv, TypeOK
<1>4. CASE EpollWait
  BY <1>4 DEF EpollWait, Quiet, Drains, socketVars
<1>5. CASE AcceptConnection
  BY <1>5 DEF AcceptConnection, Quiet, Drains
<1>6. CASE RejectConnection
  BY <1>6 DEF RejectConnection, Quiet, Drains
<1>7. CASE Shutdown
  <2>1. UNCHANGED <<sent, inq, nmsgs, stored_screen, peer>> /\ deposit' = NoDeposit
        /\ consumer' = NULL /\ producer' = NULL /\ producer_waiting_screen' = FALSE
    BY <1>7 DEF Shutdown
  <2>2. producer' = producer => producer_waiting_screen = FALSE
    BY <2>1 DEF IInv, NoLostScreen, TypeOK
  <2> QED BY <2>1, <2>2 DEF Quiet, Drains
<1>8. ASSUME NEW k \in Conns, NEW c \in Addr, Reads(c, k) PROVE Drains
  BY <1>8 DEF Reads, Drains, Takes
<1>9. ASSUME NEW c \in Addr, ClientHup(c) \/ ClientGone(c) PROVE Quiet
  BY <1>9, DisconnectQuiet DEF ClientHup, ClientGone, Drains
<1>10. ASSUME NEW k \in Conns, NEW c \in Addr, ClientOversized(c, k) PROVE Quiet
  BY <1>8, <1>10, DisconnectQuiet DEF ClientOversized
<1>11. ASSUME NEW k \in Conns, NEW c \in Addr, ClientIgnored(c, k) PROVE Quiet
  BY <1>8, <1>11 DEF ClientIgnored, Quiet
<1>12. ASSUME NEW k \in Conns, NewConsumer(k) PROVE \E c \in Addr : NewConsumer(k)
  BY <1>12 DEF NewConsumer, NewAddr, Unused
<1>13. ASSUME NEW k \in Conns, NEW c \in Addr,
              NewConsumer(k) \/ ClientRedeposit(c, k) \/ ClientPickup(c, k)
       PROVE  \/ (NewConsumer(k) \/ ClientRedeposit(c, k)) /\ Deposits(k)
              \/ Quiet
              \/ \E d \in DepositType, n \in Conns \cup {NULL} : Delivery(d, n)
  BY <1>13, HandlerMoves DEF Quiet
<1>14. CASE ClientStep
  BY <1>1, <1>2, <1>3, <1>14 DEF ClientStep
<1>15. CASE Greet
  BY <1>6, <1>12, <1>13, <1>15 DEF Greet
<1>16. CASE ClientEvent
  BY <1>9, <1>10, <1>11, <1>13, <1>16 DEF ClientEvent
<1> QED BY <1>4, <1>5, <1>7, <1>14, <1>15, <1>16 DEF Next, DaemonStep

-----------------------------------------------------------------------------
(* Screens. *)

\* Nothing is written to a connection that is not open.
LEMMA WritesToOpen ==
  ASSUME IInv, IInv', Next, NEW j \in Conns, link[j] # "open"
  PROVE  sent'[j] = sent[j]
<1>1. ASSUME NEW k \in Conns, link[k] = "open", NEW m, NEW log \in [Conns -> Seq(Msgs)]
      PROVE  Post(log, k, m)[j] = log[j]
  BY <1>1 DEF Post
<1>2. sent \in [Conns -> Seq(Msgs)]
  BY DEF IInv, TypeOK
<1>3. ASSUME NEW d \in DepositType, NEW n \in Conns \cup {NULL}, Delivery(d, n)
      PROVE  sent'[j] = sent[j]
  <2> DEFINE M == WithFds("FDS_READY", d.fds, d.bundle)
             mid == Post(sent, ConnAt(producer), M)
  <2>1. ConnAt(producer) \in Conns /\ link[ConnAt(producer)] = "open"
    BY <1>3, ClientConns DEF Delivery, Delivers
  <2>2. n # NULL => n \in Conns /\ link[n] = "open"
    BY <1>3, ClientConns DEF Delivery
  <2>3. M \in Msgs
    BY MsgTypesOK DEF MsgTypes, DepositType
  <2>4. mid[j] = sent[j] /\ mid \in [Conns -> Seq(Msgs)]
    BY <1>1, <1>2, <2>1, <2>3, PostType
  <2>5. sent' = Notify(mid, n)
    BY <1>3 DEF Delivery, Delivers
  <2> HIDE DEF mid
  <2>6. n # NULL => Post(mid, n, Plain("FDS_READY"))[j] = mid[j]
    BY <1>1, <2>2, <2>4
  <2> QED BY <2>4, <2>5, <2>6 DEF Notify
<1>4. ASSUME NEW k \in Conns, NewProducer(k) PROVE sent'[j] = sent[j]
  <2>1. link[k] = "open"
    BY <1>4, ClientConns DEF NewProducer, Greeted
  <2> QED BY <1>1, <1>2, <1>4, <2>1 DEF NewProducer
<1>5. ASSUME NEW k \in Conns, NEW c \in Addr, ClientScreenInfo(c, k) PROVE sent'[j] = sent[j]
  BY <1>1, <1>2, <1>5, ClientConns DEF ClientScreenInfo
<1> QED BY <1>3, <1>4, <1>5, Moves DEF Quiet, Send, Deposits

\* A connection is greeted once: it leaves the backlog for good.
LEMMA LinkMoves ==
  ASSUME IInv, IInv', Next, NEW j \in Conns, link'[j] \in {"none", "backlog"}
  PROVE  link[j] \in {"none", "backlog"}
<1> USE DEF IInv, TypeOK
<1>1. ASSUME NEW a, link' = FreeLink(a) PROVE link[j] \in {"none", "backlog"}
  BY <1>1 DEF FreeLink
<1>2. CASE ClientStep
  BY <1>2 DEF ClientStep, Connect, Send, Hangup
<1>3. CASE EpollWait
  BY <1>3 DEF EpollWait, socketVars
<1>4. CASE AcceptConnection
  <2>1. Head(backlog) \in Conns
    BY <1>4 DEF AcceptConnection
  <2> QED BY <1>4, <2>1 DEF AcceptConnection
<1>5. CASE RejectConnection
  BY <1>5 DEF RejectConnection
<1>6. CASE Greet
  BY <1>1, <1>5, <1>6 DEF Greet, NewConsumer, NewProducer
<1>7. ASSUME NEW c, handle_disconnect(c) PROVE link[j] \in {"none", "backlog"}
  BY <1>1, <1>7 DEF handle_disconnect
<1>8. CASE ClientEvent
  BY <1>1, <1>7, <1>8 DEF ClientEvent, ClientHup, ClientGone, ClientOversized,
     ClientRedeposit, ClientScreenInfo, ClientPickup, ClientIgnored
<1>9. CASE Shutdown
  BY <1>9 DEF Shutdown
<1> QED BY <1>2, <1>3, <1>4, <1>6, <1>8, <1>9 DEF Next, DaemonStep

\* So a connection is silent until it has been greeted.
LEMMA SilentStep == ASSUME IInv, IInv', Next, SilentBeforeGreeting PROVE SilentBeforeGreeting'
<1>1. \A k \in Conns : link'[k] \in {"none", "backlog"} => sent'[k] = <<>>
  BY LinkMoves, WritesToOpen DEF SilentBeforeGreeting
<1>2. CASE greeting' = NULL
  BY <1>1, <1>2 DEF SilentBeforeGreeting
<1>3. CASE AcceptConnection
  <2>1. /\ backlog # <<>> /\ Head(backlog) \in Conns
        /\ greeting' \in Fds /\ sock'[greeting'] = Head(backlog) /\ sent' = sent
    BY <1>3 DEF AcceptConnection, NewFd, Unused, IInv, TypeOK
  <2>2. link[Head(backlog)] = "backlog"
    BY <2>1 DEF IInv, TypeOK, ClientsOwnSockets, SocketTable
  <2>3. sent'[sock'[greeting']] = <<>>
    BY <2>1, <2>2 DEF SilentBeforeGreeting
  <2> QED BY <1>1, <2>3 DEF SilentBeforeGreeting
<1>4. CASE ClientStep
  <2>1. UNCHANGED <<greeting, sock, sent>>
    BY <1>4 DEF ClientStep, Connect, Send, Hangup, daemonVars
  <2> QED BY <1>1, <2>1 DEF SilentBeforeGreeting
<1>5. EpollWait \/ Greet \/ ClientEvent \/ Shutdown => greeting' = NULL
  BY DEF EpollWait, Greet, NewConsumer, NewProducer, Greeted, RejectConnection, ClientEvent,
     ClientHup, ClientGone, ClientOversized, handle_disconnect, ClientRedeposit,
     ClientScreenInfo, ClientPickup, ClientIgnored, Reads, Serving, Shutdown
<1> QED BY <1>2, <1>3, <1>4, <1>5 DEF Next, DaemonStep

\* A read takes the first message of one socket: the others move up.
LEMMA TakeEffect ==
  ASSUME TypeOK, NEW k \in Conns, Takes(k)
  PROVE  /\ 1 \in DOMAIN inq[k] /\ Msg(k) = inq[k][1] /\ Msg(k) \in Msgs
         /\ \A i \in DOMAIN inq'[k] : /\ i \in Nat /\ 1 < i + 1 /\ i + 1 \in DOMAIN inq[k]
                                      /\ inq'[k][i] = inq[k][i + 1]
         /\ \A j \in Conns : j # k => inq'[j] = inq[j]
<1>1. inq[k] \in Seq(Msgs) /\ inq[k] # <<>>
  BY DEF TypeOK, Takes
<1>2. inq'[k] = Tail(inq[k]) /\ \A j \in Conns : j # k => inq'[j] = inq[j]
  BY DEF TypeOK, Takes
<1>3. \A i \in DOMAIN Tail(inq[k]) : /\ i \in Nat /\ 1 < i + 1 /\ i + 1 \in DOMAIN inq[k]
                                     /\ Tail(inq[k])[i] = inq[k][i + 1]
  BY <1>1
<1>4. 1 \in DOMAIN inq[k] /\ Head(inq[k]) = inq[k][1] /\ Head(inq[k]) \in Msgs
  BY <1>1
<1> QED BY <1>2, <1>3, <1>4 DEF Msg

\* Whatever the step, what waits in a socket after it waited there before, in the
\* same order, unless the client has just sent it.
LEMMA DrainEffect ==
  ASSUME TypeOK, Drains, NEW k \in Conns
  PROVE  \E s \in {0, 1} : \A i \in DOMAIN inq'[k] :
           i \in Nat /\ i + s \in DOMAIN inq[k] /\ inq'[k][i] = inq[k][i + s]
<1>0. inq[k] \in Seq(Msgs)
  BY DEF TypeOK
<1>1. CASE inq'[k] = inq[k]
  <2>1. \A i \in DOMAIN inq[k] : i \in Nat /\ i + 0 = i
    BY <1>0
  <2>2. \A i \in DOMAIN inq'[k] : i \in Nat /\ i + 0 \in DOMAIN inq[k] /\ inq'[k][i] = inq[k][i + 0]
    BY <1>1, <2>1
  <2> QED BY <2>2
<1>2. CASE Takes(k)
  BY <1>2, TakeEffect
<1>3. CASE \E j \in Conns : j # k /\ Takes(j)
  BY <1>1, <1>3, TakeEffect
<1> QED BY <1>1, <1>2, <1>3 DEF Drains

\* What a client sends.
LEMMA RequestShape ==
  ASSUME TypeOK, NEW k \in Conns, NEW m \in Requests(k)
  PROVE  /\ m.type = "SCREEN_INFO" => m.screen \in Screens
         /\ m.fds > 0 => m.bundle = <<k, nmsgs[k] + 1>>
<1>1. \A n \in HelloFds : LET h == WithFds("CONSUMER_HELLO", n, <<k, nmsgs[k] + 1>>)
                          IN  h.type # "SCREEN_INFO" /\ h.bundle = <<k, nmsgs[k] + 1>>
  BY DEF WithFds
<1>2. \A sc \in Screens : ScreenInfo(sc).screen = sc /\ ScreenInfo(sc).fds = 0
  BY DEF ScreenInfo
<1>3. \A t \in {"PRODUCER_HELLO", "PICKUP_FDS", "UNKNOWN", "OVERSIZED"} :
        Plain(t).type # "SCREEN_INFO" /\ Plain(t).fds = 0
  BY DEF Plain, WithFds
<1>4. ~(0 > 0)
  OBVIOUS
<1>5. \/ \E n \in HelloFds : m = WithFds("CONSUMER_HELLO", n, <<k, nmsgs[k] + 1>>)
      \/ \E sc \in Screens : m = ScreenInfo(sc)
      \/ \E t \in {"PRODUCER_HELLO", "PICKUP_FDS", "UNKNOWN", "OVERSIZED"} : m = Plain(t)
  BY DEF Requests
<1>6. CASE \E n \in HelloFds : m = WithFds("CONSUMER_HELLO", n, <<k, nmsgs[k] + 1>>)
  BY <1>1, <1>6
<1>7. CASE \E sc \in Screens : m = ScreenInfo(sc)
  BY <1>2, <1>4, <1>7
<1>8. CASE \E t \in {"PRODUCER_HELLO", "PICKUP_FDS", "UNKNOWN", "OVERSIZED"} : m = Plain(t)
  BY <1>3, <1>4, <1>8
<1> QED BY <1>5, <1>6, <1>7, <1>8

\* A message that is queued waits behind the others.
LEMMA QueueEffect ==
  ASSUME TypeOK, NEW k \in Conns, NEW m \in Msgs, inq' = [inq EXCEPT ![k] = Append(@, m)]
  PROVE  /\ \A j \in Conns : j # k => inq'[j] = inq[j]
         /\ \A i \in DOMAIN inq'[k] :
              \/ i \in DOMAIN inq[k] /\ inq'[k][i] = inq[k][i]
              \/ inq'[k][i] = m /\ \A j \in DOMAIN inq'[k] : j <= i
<1>1. inq[k] \in Seq(Msgs) /\ inq'[k] = Append(inq[k], m)
  BY DEF TypeOK
<1>2. \A i \in DOMAIN Append(inq[k], m) :
              \/ i \in DOMAIN inq[k] /\ Append(inq[k], m)[i] = inq[k][i]
              \/ Append(inq[k], m)[i] = m /\ \A j \in DOMAIN Append(inq[k], m) : j <= i
  BY <1>1
<1> QED BY <1>1, <1>2 DEF TypeOK

\* So does a message that a client sends.
LEMMA SendEffect ==
  ASSUME TypeOK, NEW k \in Conns, NEW m \in Msgs, Send(k, m)
  PROVE  /\ \A j \in Conns : j # k => inq'[j] = inq[j] /\ nmsgs'[j] = nmsgs[j]
         /\ \A i \in DOMAIN inq'[k] :
              \/ i \in DOMAIN inq[k] /\ inq'[k][i] = inq[k][i]
              \/ inq'[k][i] = m /\ \A j \in DOMAIN inq'[k] : j <= i
         /\ nmsgs'[k] = nmsgs[k] + 1
<1>1. inq' = [inq EXCEPT ![k] = Append(@, m)]
  BY DEF Send
<1>2. /\ \A j \in Conns : j # k => nmsgs'[j] = nmsgs[j]
      /\ nmsgs'[k] = nmsgs[k] + 1
  BY DEF Send, TypeOK
<1> QED BY <1>1, <1>2, QueueEffect

\* No step queues a SCREEN_INFO that describes none.
LEMMA QueuedScreensStep == ASSUME IInv, IInv', Next, QueuedScreens PROVE QueuedScreens'
<1>1. ASSUME NEW k \in Conns, NEW m \in Msgs, m \in Requests(k), Send(k, m) PROVE QueuedScreens'
  <2>1. m.type = "SCREEN_INFO" => m.screen \in Screens
    BY <1>1, RequestShape DEF IInv
  <2> QED BY <1>1, <2>1, SendEffect DEF IInv, QueuedScreens
<1>2. ASSUME Drains PROVE QueuedScreens'
  <2> SUFFICES ASSUME NEW k \in Conns, NEW i \in DOMAIN inq'[k], inq'[k][i].type = "SCREEN_INFO"
               PROVE  inq'[k][i].screen \in Screens
    BY DEF QueuedScreens
  <2>1. \E s \in {0, 1} : i + s \in DOMAIN inq[k] /\ inq'[k][i] = inq[k][i + s]
    BY <1>2, DrainEffect DEF IInv
  <2> QED BY <2>1 DEF QueuedScreens
<1>3. ASSUME NEW k \in Conns, NEW c \in Addr,
             Deposits(k) \/ NewProducer(k) \/ ClientScreenInfo(c, k)
      PROVE  Drains
  BY <1>3 DEF Deposits, NewProducer, Greeted, ClientScreenInfo, Reads, Takes, Drains
<1>4. ASSUME NEW k \in Conns, NewProducer(k) PROVE Drains
  BY <1>4 DEF NewProducer, Greeted, Takes, Drains
<1>5. ASSUME NEW d, NEW n, Delivery(d, n) PROVE Drains
  BY <1>5 DEF Delivery, Takes, Drains
<1>6. Quiet => Drains
  BY DEF Quiet
<1> QED BY <1>1, <1>2, <1>3, <1>4, <1>5, <1>6, Moves

\* The two facts about what a producer on connection k was told.
ToldRight(k) ==
  /\ stored_screen = NULL => Told(k) = {}
  /\ Told(k) \subseteq {stored_screen}
  /\ Told(k) = {} => producer_waiting_screen \/ ~peer[k]

\* The producer that greets is told the stored screen, or waits for one.
LEMMA NewProducerTold ==
  ASSUME IInv, SilentBeforeGreeting, NEW k \in Conns, NewProducer(k)
  PROVE  ToldRight(k)'
<1>1. /\ sent' = IF stored_screen = NULL THEN sent ELSE Post(sent, k, ScreenInfo(stored_screen))
      /\ UNCHANGED <<stored_screen, peer>> /\ k = sock[greeting] /\ greeting # NULL
  BY DEF NewProducer, Greeted
<1>2. producer_waiting_screen' = (stored_screen = NULL)
  BY DEF NewProducer
<1>3. Told(k) = {}
  <2>1. sent[k] = <<>>
    BY <1>1 DEF SilentBeforeGreeting
  <2> QED BY <2>1 DEF Told
<1>4. CASE stored_screen = NULL
  <2>1. Told(k)' = {}
    BY <1>1, <1>3, <1>4, LogOf
  <2> QED BY <1>1, <1>2, <1>4, <2>1 DEF ToldRight
<1>5. CASE stored_screen # NULL
  <2>1. Told(k)' = IF peer[k] THEN Told(k) \cup {stored_screen} ELSE Told(k)
    BY <1>1, <1>5, AnnounceEffect DEF IInv, TypeOK
  <2>2. Told(k)' = IF peer[k] THEN {stored_screen} ELSE {}
    BY <1>3, <2>1
  <2> QED BY <1>1, <1>2, <1>5, <2>2 DEF ToldRight
<1> QED BY <1>4, <1>5

\* A producer that survives SCREEN_INFO has been told the screen described there.
LEMMA ScreenInfoTold ==
  ASSUME IInv, QueuedScreens, NEW k \in Conns, NEW c \in Addr, ClientScreenInfo(c, k),
         producer # NULL, producer' # NULL, NEW p \in Conns, p = ConnAt(producer), ToldRight(p)
  PROVE  ToldRight(p)'
<1> DEFINE s == Msg(k).screen
<1>1. Takes(k)
  BY DEF ClientScreenInfo, Reads, Takes
<1>2. s \in Screens /\ s # NULL
  BY <1>1, TakeEffect, NullAssumption DEF ClientScreenInfo, QueuedScreens, IInv
<1>3. stored_screen \in {NULL, s}
  BY DEF ClientScreenInfo, ScreenChanged
<1>4. /\ stored_screen' = s /\ peer' = peer
      /\ sent' = IF producer_waiting_screen THEN Post(sent, p, ScreenInfo(s)) ELSE sent
  BY <1>3 DEF ClientScreenInfo, ScreenChanged
<1> HIDE DEF s
<1>5. CASE producer_waiting_screen
  <2>1. stored_screen = NULL
    BY <1>5 DEF IInv, NoLostScreen
  <2>2. Told(p) = {}
    BY <2>1 DEF ToldRight
  <2>3. Told(p)' = IF peer[p] THEN Told(p) \cup {s} ELSE Told(p)
    BY <1>2, <1>4, <1>5, AnnounceEffect DEF IInv
  <2>4. Told(p)' = IF peer[p] THEN {s} ELSE {}
    BY <2>2, <2>3
  <2> QED BY <1>2, <1>4, <2>4 DEF ToldRight
<1>6. CASE ~producer_waiting_screen
  <2>1. Told(p)' = Told(p)
    BY <1>4, <1>6, LogOf
  <2>2. Told(p) \subseteq {s} /\ (Told(p) = {} => ~peer[p])
    BY <1>3, <1>6 DEF ToldRight
  <2> QED BY <1>2, <1>4, <2>1, <2>2 DEF ToldRight
<1> QED BY <1>5, <1>6

\* No other step tells a connected producer a screen, or stores one.
LEMMA OtherTold ==
  ASSUME IInv, IInv', Next, producer # NULL, producer' = producer,
         NEW p \in Conns, p = ConnAt(producer), ToldRight(p),
         \A k \in Conns : ~NewProducer(k),
         \A k \in Conns, c \in Addr : ~ClientScreenInfo(c, k)
  PROVE  ToldRight(p)'
<1>0. link[p] = "open"
  BY ClientConns
<1>1. CASE sent' = sent /\ (peer'[p] => peer[p])
           /\ UNCHANGED <<stored_screen, producer_waiting_screen>>
  <2>1. Told(p)' = Told(p)
    BY <1>1, LogOf
  <2> QED BY <1>1, <2>1 DEF ToldRight
<1>2. CASE Quiet
  BY <1>0, <1>1, <1>2 DEF Quiet
<1>3. ASSUME NEW k \in Conns, NEW m \in Msgs, Send(k, m) PROVE ToldRight(p)'
  BY <1>1, <1>3 DEF Send, daemonVars
<1>4. ASSUME NEW k \in Conns, Deposits(k) PROVE ToldRight(p)'
  BY <1>1, <1>4 DEF Deposits
<1>5. ASSUME NEW d \in DepositType, NEW n \in Conns \cup {NULL}, Delivery(d, n) PROVE ToldRight(p)'
  <2>1. Told(p)' = Told(p)
    <3>1. Delivers(d, n) /\ d \in [fds : 0..MAX_FDS, bundle : Bundles \cup {NULL}]
      BY <1>5 DEF Delivery, DepositType
    <3> QED BY <3>1, DeliverEffect DEF Handed
  <2>2. UNCHANGED <<stored_screen, producer_waiting_screen, peer>>
    BY <1>5 DEF Delivery
  <2> QED BY <2>1, <2>2 DEF ToldRight
<1> QED BY <1>2, <1>3, <1>4, <1>5, Moves

\* ScreenInv is inductive on top of IInv.
LEMMA ScreenStep == ASSUME IInv, IInv', Next, ScreenInv PROVE ScreenInv'
<1>1. SilentBeforeGreeting' /\ QueuedScreens'
  BY SilentStep, QueuedScreensStep DEF ScreenInv
<1>2. ASSUME producer # NULL PROVE ConnAt(producer) \in Conns /\ ToldRight(ConnAt(producer))
  BY <1>2, ClientConns DEF ScreenInv, NothingToTell, ScreenAgreement, ToldRight
<1>3. ASSUME NEW p \in Conns, p = ConnAt(producer)', ToldRight(p)' PROVE ScreenInv'
  <2>1. /\ Told(p)' = Told(ConnAt(producer))'
        /\ peer'[p] = peer[ConnAt(producer)]'
    BY <1>3 DEF Told
  <2> QED BY <1>1, <1>3, <2>1 DEF ScreenInv, NothingToTell, ScreenAgreement, ToldRight
<1>4. CASE producer' = NULL
  BY <1>1, <1>4 DEF ScreenInv, NothingToTell, ScreenAgreement
<1>5. ASSUME NEW k \in Conns, NewProducer(k) PROVE ScreenInv'
  <2>1. ToldRight(k)'
    BY <1>5, NewProducerTold DEF ScreenInv
  <2>2. producer' # NULL /\ producer' # producer
    BY <1>5, NullAssumption DEF NewProducer, NewAddr, Unused, IInv, ClientsOwnSockets
  <2>3. CASE \E j \in Conns : NewProducer(j) /\ ConnAt(producer)' = j
    BY <1>3, <2>3, NewProducerTold DEF ScreenInv
  <2> QED BY <2>2, <2>3, ProducerMoves
<1>6. CASE /\ producer' # NULL /\ producer' = producer /\ ConnAt(producer)' = ConnAt(producer)
           /\ \A k \in Conns : ~NewProducer(k)
  <2> PICK p \in Conns : p = ConnAt(producer)
    BY <1>2, <1>6
  <2>1. ToldRight(p)
    BY <1>2, <1>6
  <2>2. ASSUME NEW k \in Conns, NEW c \in Addr, ClientScreenInfo(c, k) PROVE ToldRight(p)'
    BY <1>6, <2>1, <2>2, ScreenInfoTold DEF ScreenInv
  <2>3. ToldRight(p)'
    BY <1>6, <2>1, <2>2, OtherTold
  <2> QED BY <1>3, <1>6, <2>3
<1> QED BY <1>4, <1>5, <1>6, ProducerMoves

\* Nothing was told at the start.
LEMMA InitScreens == Init => ScreenInv
BY DEF Init, ScreenInv, SilentBeforeGreeting, QueuedScreens, NothingToTell, ScreenAgreement

\* The screens of a connected producer are the stored one (ScreenAgreement).
THEOREM ScreensAgree == Spec => []ScreenAgreement
<1>1. Init => ScreenInv
  BY InitScreens
<1>2. IInv /\ IInv' /\ [Next]_vars /\ ScreenInv => ScreenInv'
  <2>1. ASSUME UNCHANGED vars, ScreenInv PROVE ScreenInv'
    <3>1. /\ UNCHANGED <<producer, heap, sock, link, greeting, inq, sent, peer>>
          /\ UNCHANGED <<stored_screen, producer_waiting_screen>>
      BY <2>1 DEF vars, daemonVars, socketVars
    <3>2. SilentBeforeGreeting' /\ QueuedScreens'
      BY <2>1, <3>1 DEF ScreenInv, SilentBeforeGreeting, QueuedScreens
    <3>3. /\ Told(ConnAt(producer))' = Told(ConnAt(producer))
          /\ peer[ConnAt(producer)]' = peer[ConnAt(producer)]
      BY <3>1 DEF Told, ConnAt
    <3> QED BY <2>1, <3>1, <3>2, <3>3 DEF ScreenInv, NothingToTell, ScreenAgreement
  <2> QED BY <2>1, ScreenStep
<1>3. ScreenInv => ScreenAgreement
  BY DEF ScreenInv
<1> QED BY <1>1, <1>2, <1>3, SpecIInv, PTL DEF Spec

-----------------------------------------------------------------------------
(* Bundles. *)

\* No bundle is handed out and no notice is given.
Kept ==
  /\ \A j \in Conns : Given(j)' = Given(j) /\ Notices(j)' = Notices(j)
  /\ \A j \in Conns : \A i \in DOMAIN sent[j] : sent'[j][i] = sent[j][i]

\* A delivery is a place in the log of a connection.
LEMMA DeliveryPlace ==
  /\ \A k \in Conns : \A i \in Given(k) : <<k, i>> \in Deliveries
  /\ \A d \in Deliveries : \E k \in Conns : \E i \in Given(k) : d = <<k, i>>
BY DEF Deliveries

\* The same in the next state.
LEMMA DeliveryPlaceNext ==
  /\ \A k \in Conns : \A i \in Given(k)' : <<k, i>> \in Deliveries'
  /\ \A d \in Deliveries' : \E k \in Conns : \E i \in Given(k)' : d = <<k, i>>
BY DEF Deliveries

\* Where nothing is handed out, the deliveries and their bundles stay.
LEMMA KeptEffect ==
  ASSUME Kept
  PROVE  Deliveries' = Deliveries /\ \A d \in Deliveries : BundleOf(d)' = BundleOf(d)
<1>1. Deliveries' \subseteq Deliveries
  BY DeliveryPlace, DeliveryPlaceNext DEF Kept
<1>2. Deliveries \subseteq Deliveries'
  BY DeliveryPlace, DeliveryPlaceNext DEF Kept
<1>3. ASSUME NEW d \in Deliveries PROVE BundleOf(d)' = BundleOf(d)
  <2>1. PICK k \in Conns : \E i \in Given(k) : d = <<k, i>>
    BY DeliveryPlace
  <2>2. PICK i \in Given(k) : d = <<k, i>>
    BY <2>1
  <2>3. sent'[k][i] = sent[k][i]
    BY DEF Kept, Given
  <2> QED BY <2>2, <2>3 DEF BundleOf
<1> QED BY <1>1, <1>2, <1>3

\* A delivery adds one, at a place that was free.
LEMMA HandedEffect ==
  ASSUME NEW pk \in Conns, NEW n \in Nat, NEW b, NEW k, Handed(pk, n, b, k)
  PROVE  /\ Deliveries' = Deliveries \cup {<<pk, n>>} /\ <<pk, n>> \notin Deliveries
         /\ \A d \in Deliveries : BundleOf(d)' = BundleOf(d)
         /\ BundleOf(<<pk, n>>)' = b
<1>1. <<pk, n>> \in Deliveries' /\ Deliveries \subseteq Deliveries'
  BY DeliveryPlace, DeliveryPlaceNext DEF Handed
<1>2. Deliveries' \subseteq Deliveries \cup {<<pk, n>>}
  <2> SUFFICES ASSUME NEW d \in Deliveries' PROVE d \in Deliveries \cup {<<pk, n>>}
    OBVIOUS
  <2>1. PICK j \in Conns : \E i \in Given(j)' : d = <<j, i>>
    BY DeliveryPlaceNext
  <2>2. PICK i \in Given(j)' : d = <<j, i>>
    BY <2>1
  <2>3. i \in Given(j) \/ (j = pk /\ i = n)
    BY DEF Handed
  <2> QED BY <2>2, <2>3, DeliveryPlace
<1>3. <<pk, n>> \notin Deliveries
  BY DeliveryPlace DEF Handed
<1>4. ASSUME NEW d \in Deliveries PROVE BundleOf(d)' = BundleOf(d)
  <2>1. PICK j \in Conns : \E i \in Given(j) : d = <<j, i>>
    BY DeliveryPlace
  <2>2. PICK i \in Given(j) : d = <<j, i>>
    BY <2>1
  <2>3. sent'[j][i] = sent[j][i]
    BY DEF Handed, Given
  <2> QED BY <2>2, <2>3 DEF BundleOf
<1>5. BundleOf(<<pk, n>>)' = b
  BY DEF Handed, BundleOf
<1> QED BY <1>1, <1>2, <1>3, <1>4, <1>5

\* Steps that hand out nothing.
LEMMA KeptSteps ==
  ASSUME IInv, IInv', Next
  PROVE  Kept \/ \E d \in DepositType, n \in Conns \cup {NULL} : Delivery(d, n)
<1>1. sent' = sent => Kept
  <2> SUFFICES ASSUME sent' = sent PROVE Kept
    OBVIOUS
  <2> QED BY LogOf DEF Kept
<1>2. ASSUME NEW k \in Conns, NewProducer(k) PROVE Kept
  <2>1. sent' = sent \/ (/\ stored_screen \in Screens \cup {NULL}
                         /\ sent' = Post(sent, k, ScreenInfo(stored_screen)))
    BY <1>2 DEF NewProducer, IInv, TypeOK
  <2> QED BY <1>1, <2>1, AnnounceEffect DEF Kept, IInv
<1>3. ASSUME NEW k \in Conns, NEW c \in Addr, ClientScreenInfo(c, k) PROVE Kept
  <2>1. Takes(k)
    BY <1>3 DEF ClientScreenInfo, Reads, Takes
  <2>2. Msg(k).screen \in Screens \cup {NULL}
    BY <2>1, TakeEffect DEF IInv, Msgs
  <2>3. sent' = sent \/ (/\ ConnAt(producer) \in Conns
                         /\ sent' = Post(sent, ConnAt(producer), ScreenInfo(Msg(k).screen)))
    BY <1>3, ClientConns DEF ClientScreenInfo
  <2> QED BY <1>1, <2>2, <2>3, AnnounceEffect DEF Kept, IInv
<1> QED BY <1>1, <1>2, <1>3, Moves DEF Quiet, Send, Deposits

\* A bundle is a connection and a number.
LEMMA BundleShape ==
  \A b \in Bundles : b[1] \in Conns /\ b[2] \in Nat /\ b = <<b[1], b[2]>> /\ b # NULL
BY BoundAssumption, NullAssumption DEF Bundles

\* Where nothing is handed out, what was fresh stays fresh, and the order of what was
\* handed out before cannot change.
LEMMA KeptFresh ==
  ASSUME IInv, IInv', Kept, BundleInv, \A j \in Conns : nmsgs[j] <= nmsgs'[j]
  PROVE  /\ \A b : Unspent(b) => Unspent(b)'
         /\ \A d \in Deliveries' : BundleOf(d)' \in Bundles /\ BundleOf(d)'[2] <= nmsgs'[BundleOf(d)'[1]]
         /\ (deposit.fds > 0 => Unspent(deposit.bundle))' => BundlesInOrder'
<1>0. \A j \in Conns : nmsgs[j] \in Nat /\ nmsgs'[j] \in Nat
  BY BoundAssumption DEF IInv, TypeOK
<1>1. ASSUME NEW b, Unspent(b) PROVE Unspent(b)'
  <2>1. b[1] \in Conns /\ b[2] \in Nat /\ b[2] <= nmsgs'[b[1]]
    BY <1>0, <1>1, BundleShape DEF Unspent
  <2> QED BY <1>1, <2>1, KeptEffect DEF Unspent
<1>2. ASSUME NEW d \in Deliveries'
      PROVE  BundleOf(d)' \in Bundles /\ BundleOf(d)'[2] <= nmsgs'[BundleOf(d)'[1]]
  <2>1. BundleOf(d)' = BundleOf(d) /\ BundleOf(d) \in Bundles /\ BundleOf(d)[2] <= nmsgs[BundleOf(d)[1]]
    BY KeptEffect DEF BundleInv
  <2>2. BundleOf(d)[2] \in Nat /\ BundleOf(d)[1] \in Conns
    BY <2>1, BundleShape
  <2> QED BY <1>0, <2>1, <2>2
<1>3. ASSUME (deposit.fds > 0 => Unspent(deposit.bundle))' PROVE BundlesInOrder'
  <2>1. \A d, e \in Deliveries' : BundleOf(d)' = BundleOf(e)' => d = e
    BY KeptEffect DEF BundleInv, BundlesInOrder
  <2>2. \A k \in Conns : \A i, j \in Given(k)' :
          sent'[k][i].bundle[1] = sent'[k][j].bundle[1] /\ i < j
          => sent'[k][i].bundle[2] < sent'[k][j].bundle[2]
    <3> SUFFICES ASSUME NEW k \in Conns, NEW i \in Given(k), NEW j \in Given(k), i < j,
                        sent'[k][i].bundle[1] = sent'[k][j].bundle[1]
                 PROVE  sent'[k][i].bundle[2] < sent'[k][j].bundle[2]
      BY DEF Kept
    <3>1. sent'[k][i] = sent[k][i] /\ sent'[k][j] = sent[k][j]
      BY DEF Kept, Given
    <3> QED BY <3>1 DEF BundleInv, BundlesInOrder
  <2>3. (deposit.fds > 0 => \A d \in Deliveries :
           BundleOf(d)[1] = deposit.bundle[1] => BundleOf(d)[2] < deposit.bundle[2])'
    BY <1>3 DEF Unspent
  <2> QED BY <2>1, <2>2, <2>3 DEF BundlesInOrder
<1> QED BY <1>1, <1>2, <1>3

\* Reading keeps the queues in order, if what is left there stays fresh.
LEMMA DrainOrder ==
  ASSUME TypeOK, Drains, NEW k \in Conns, InOrder(k, inq[k]),
         \A b : /\ Unspent(b)
                /\ \E i \in DOMAIN inq'[k] : inq'[k][i].fds > 0 /\ b = inq'[k][i].bundle
                => Unspent(b)'
  PROVE  InOrder(k, inq[k])' /\ \A d : Older(d, k, inq[k]) => Older(d, k, inq'[k])
<1>1. PICK s \in {0, 1} : \A i \in DOMAIN inq'[k] :
         i \in Nat /\ i + s \in DOMAIN inq[k] /\ inq'[k][i] = inq[k][i + s]
  BY DrainEffect
<1> PICK p, q : p = inq[k] /\ q = inq'[k]
  OBVIOUS
<1>2. \A i \in DOMAIN q : i \in Nat /\ i + s \in DOMAIN p /\ q[i] = p[i + s]
  BY <1>1
<1>3. ASSUME NEW i \in DOMAIN q, q[i].fds > 0 PROVE q[i].bundle[1] = k /\ Unspent(q[i].bundle)'
  <2>1. q[i].bundle[1] = k /\ Unspent(q[i].bundle)
    BY <1>2, <1>3 DEF InOrder
  <2> QED BY <1>3, <2>1
<1>4. \A i, j \in DOMAIN q :
        i < j /\ q[i].fds > 0 /\ q[j].fds > 0 => q[i].bundle[2] < q[j].bundle[2]
  BY <1>2 DEF InOrder
<1>5. \A d : Older(d, k, p) => Older(d, k, q)
  BY <1>2 DEF Older
<1>6. InOrder(k, q)'
  BY <1>3, <1>4 DEF InOrder
<1> QED BY <1>5, <1>6

\* A step that brings no bundle.
LEMMA DrainBundles ==
  ASSUME IInv, IInv', Kept, BundleInv, Drains, nmsgs' = nmsgs, deposit' \in {deposit, NoDeposit}
  PROVE  BundleInv'
<1>1. \A j \in Conns : nmsgs[j] <= nmsgs'[j]
  BY BoundAssumption DEF IInv, TypeOK
<1>2. \A b : Unspent(b) => Unspent(b)'
  BY <1>1, KeptFresh
<1>3. ~(NoDeposit.fds > 0)
  BY DEF NoDeposit
<1>4. (deposit.fds > 0 => Unspent(deposit.bundle))'
  <2>1. CASE deposit' = deposit
    <3>1. deposit.fds > 0 => Unspent(deposit.bundle)
      BY DEF BundleInv
    <3> PICK b : b = deposit.bundle
      OBVIOUS
    <3>2. deposit.fds > 0 => Unspent(b)'
      BY <1>2, <3>1
    <3>3. Unspent(deposit.bundle)' = Unspent(b)'
      BY <2>1 DEF Unspent
    <3> QED BY <2>1, <3>2, <3>3
  <2> QED BY <1>3, <2>1
<1>5. ASSUME NEW k \in Conns PROVE InOrder(k, inq[k])' /\ Older(deposit, k, inq[k])'
  <2>1. InOrder(k, inq[k]) /\ Older(deposit, k, inq[k])
    BY DEF BundleInv
  <2>2. InOrder(k, inq[k])' /\ Older(deposit, k, inq'[k])
    BY <1>2, <2>1, DrainOrder DEF IInv
  <2>3. Older(NoDeposit, k, inq'[k])
    BY <1>3 DEF Older
  <2> QED BY <2>2, <2>3
<1> QED BY <1>1, <1>4, <1>5, KeptFresh DEF BundleInv

\* The bundle of the message that is read is fresh, and older than those that wait.
LEMMA FirstBundle ==
  ASSUME IInv, BundleInv, NEW k \in Conns, Takes(k), Carried(Msg(k)).fds > 0
  PROVE  LET b == Carried(Msg(k)).bundle
         IN  /\ b[1] = k
             /\ Unspent(b)
             /\ \A i \in DOMAIN inq'[k] : inq'[k][i].fds > 0 => b[2] < inq'[k][i].bundle[2]
<1>1. /\ 1 \in DOMAIN inq[k] /\ Msg(k) = inq[k][1] /\ Msg(k) \in Msgs
      /\ \A i \in DOMAIN inq'[k] : /\ i \in Nat /\ 1 < i + 1 /\ i + 1 \in DOMAIN inq[k]
                                   /\ inq'[k][i] = inq[k][i + 1]
  BY TakeEffect DEF IInv
<1>2. Carried(Msg(k)).bundle = Msg(k).bundle /\ Msg(k).fds > 0
  BY <1>1 DEF Carried, Msgs
<1>3. InOrder(k, inq[k])
  BY DEF BundleInv
<1>4. Msg(k).bundle[1] = k /\ Unspent(Msg(k).bundle)
  BY <1>1, <1>2, <1>3 DEF InOrder
<1>5. ASSUME NEW i \in DOMAIN inq'[k], inq'[k][i].fds > 0
      PROVE  Msg(k).bundle[2] < inq'[k][i].bundle[2]
  BY <1>1, <1>2, <1>3, <1>5 DEF InOrder
<1> QED BY <1>2, <1>4, <1>5

\* A bundle is put on deposit.
LEMMA DepositBundles ==
  ASSUME IInv, IInv', BundleInv, NEW k \in Conns, Deposits(k), Kept
  PROVE  BundleInv'
<1>0. Takes(k) /\ Drains /\ deposit' = Carried(Msg(k)) /\ nmsgs' = nmsgs
  BY DEF Deposits, Drains
<1>1. \A j \in Conns : nmsgs[j] <= nmsgs'[j]
  BY <1>0, BoundAssumption DEF IInv, TypeOK
<1>2. \A b : Unspent(b) => Unspent(b)'
  BY <1>1, KeptFresh
<1> PICK d : d = Carried(Msg(k))
  OBVIOUS
<1>3. ASSUME d.fds > 0
      PROVE  /\ d.bundle[1] = k /\ Unspent(d.bundle)
             /\ \A i \in DOMAIN inq'[k] : inq'[k][i].fds > 0 => d.bundle[2] < inq'[k][i].bundle[2]
  BY <1>0, <1>3, FirstBundle
<1>4. (deposit.fds > 0 => Unspent(deposit.bundle))'
  <2>1. d.fds > 0 => Unspent(d.bundle)'
    BY <1>2, <1>3
  <2>2. Unspent(deposit.bundle)' = Unspent(d.bundle)'
    BY <1>0 DEF Unspent
  <2> QED BY <1>0, <2>1, <2>2
<1>5. ASSUME NEW j \in Conns PROVE InOrder(j, inq[j])' /\ Older(deposit, j, inq[j])'
  <2>1. InOrder(j, inq[j])'
    BY <1>0, <1>2, DrainOrder DEF IInv, BundleInv
  <2>2. Older(d, j, inq'[j])
    BY <1>3 DEF Older
  <2> QED BY <1>0, <2>1, <2>2
<1> QED BY <1>1, <1>4, <1>5, KeptFresh DEF BundleInv

\* A message is queued, perhaps with a bundle: the newest of all.
LEMMA QueueBundles ==
  ASSUME IInv, IInv', BundleInv, Kept, NEW k \in Conns, NEW m \in Msgs,
         inq' = [inq EXCEPT ![k] = Append(@, m)], deposit' = deposit,
         \A j \in Conns : nmsgs[j] <= nmsgs'[j],
         m.fds > 0 => m.bundle = <<k, nmsgs[k] + 1>> /\ nmsgs'[k] = nmsgs[k] + 1
  PROVE  BundleInv'
<1>0. /\ \A j \in Conns : nmsgs[j] \in Nat
      /\ nmsgs'[k] \in 0..MaxMsgs
      /\ deposit' = deposit
  BY BoundAssumption DEF IInv, TypeOK
<1>1. \A j \in Conns : nmsgs[j] <= nmsgs'[j]
  OBVIOUS
<1>2. \A b : Unspent(b) => Unspent(b)'
  BY <1>1, KeptFresh
<1>3. m.fds > 0 => m.bundle = <<k, nmsgs[k] + 1>> /\ nmsgs'[k] = nmsgs[k] + 1
  OBVIOUS
<1>4. m.fds > 0 => Unspent(m.bundle)'
  <2> SUFFICES ASSUME m.fds > 0 PROVE Unspent(m.bundle)'
    OBVIOUS
  <2>1. m.bundle \in Bundles /\ m.bundle[1] = k /\ m.bundle[2] = nmsgs[k] + 1
    <3>1. <<k, nmsgs[k] + 1>> \in Bundles
      BY <1>0, <1>3, BoundAssumption DEF Bundles
    <3> QED BY <1>3, <3>1
  <2>2. \A d \in Deliveries' : BundleOf(d)'[1] = k => BundleOf(d)'[2] < nmsgs[k] + 1
    <3> SUFFICES ASSUME NEW d \in Deliveries, BundleOf(d)[1] = k PROVE BundleOf(d)[2] < nmsgs[k] + 1
      BY KeptEffect
    <3>1. BundleOf(d)[2] \in Nat /\ BundleOf(d)[2] <= nmsgs[k]
      BY BundleShape DEF BundleInv
    <3> QED BY <1>0, <3>1
  <2>3. m.bundle[2] <= nmsgs'[m.bundle[1]]
    BY <1>0, <1>3, <2>1
  <2> QED BY <2>1, <2>2, <2>3 DEF Unspent
<1>5. (deposit.fds > 0 => Unspent(deposit.bundle))'
  <2> PICK b : b = deposit.bundle
    OBVIOUS
  <2>1. deposit.fds > 0 => Unspent(b)'
    BY <1>2 DEF BundleInv
  <2>2. Unspent(deposit.bundle)' = Unspent(b)'
    BY <1>0 DEF Unspent
  <2> QED BY <1>0, <2>1, <2>2
<1>6. ASSUME NEW j \in Conns PROVE InOrder(j, inq[j])' /\ Older(deposit, j, inq[j])'
  <2> PICK p, q : p = inq[j] /\ q = inq'[j]
    OBVIOUS
  <2>1. InOrder(j, p) /\ Older(deposit, j, p)
    BY DEF BundleInv
  <2>2. ASSUME NEW b, Unspent(b) PROVE b[2] \in Nat /\ b[2] <= nmsgs[b[1]]
    BY <2>2, BundleShape DEF Unspent
  <2>3. \A i \in DOMAIN q : \/ i \in DOMAIN p /\ q[i] = p[i]
                            \/ j = k /\ q[i] = m /\ \A h \in DOMAIN q : h <= i
    BY <1>0, QueueEffect DEF IInv
  <2>4. ASSUME NEW i \in DOMAIN q, q[i].fds > 0 PROVE q[i].bundle[1] = j /\ Unspent(q[i].bundle)'
    <3>1. CASE i \in DOMAIN p /\ q[i] = p[i]
      BY <1>2, <2>1, <2>4, <3>1 DEF InOrder
    <3>2. CASE j = k /\ q[i] = m
      BY <1>3, <1>4, <2>4, <3>2
    <3> QED BY <2>3, <3>1, <3>2
  <2>5. ASSUME NEW i \in DOMAIN p, p[i].fds > 0, j = k, m.fds > 0 PROVE p[i].bundle[2] < m.bundle[2]
    <3>1. p[i].bundle[2] \in Nat /\ p[i].bundle[2] <= nmsgs[k]
      BY <2>1, <2>2, <2>5 DEF InOrder
    <3>2. m.bundle[2] = nmsgs[k] + 1
      BY <1>3, <2>5
    <3> QED BY <1>0, <3>1, <3>2
  <2>6. ASSUME NEW i \in DOMAIN q, NEW h \in DOMAIN q, i < h, q[i].fds > 0, q[h].fds > 0
        PROVE  q[i].bundle[2] < q[h].bundle[2]
    <3>0. q \in Seq(Msgs)
      BY DEF IInv, TypeOK
    <3>1. ~(h <= i)
      BY <2>6, <3>0
    <3>2. i \in DOMAIN p /\ q[i] = p[i]
      BY <2>3, <3>1
    <3>3. CASE h \in DOMAIN p /\ q[h] = p[h]
      BY <2>1, <2>6, <3>2, <3>3 DEF InOrder
    <3>4. CASE j = k /\ q[h] = m
      BY <2>5, <2>6, <3>2, <3>4
    <3> QED BY <2>3, <3>3, <3>4
  <2>7. Older(deposit, j, q)
    <3> SUFFICES ASSUME deposit.fds > 0, deposit.bundle[1] = j, NEW i \in DOMAIN q, q[i].fds > 0
                 PROVE  deposit.bundle[2] < q[i].bundle[2]
      BY DEF Older
    <3>1. CASE i \in DOMAIN p /\ q[i] = p[i]
      BY <2>1, <3>1 DEF Older
    <3>2. CASE j = k /\ q[i] = m
      <4>1. deposit.bundle[2] \in Nat /\ deposit.bundle[2] <= nmsgs[k]
        BY <2>2, <3>2 DEF BundleInv
      <4>2. m.bundle[2] = nmsgs[k] + 1
        BY <1>3, <3>2
      <4> QED BY <1>0, <3>2, <4>1, <4>2
    <3> QED BY <2>3, <3>1, <3>2
  <2>8. InOrder(j, q)'
    BY <2>4, <2>6 DEF InOrder
  <2> QED BY <1>0, <2>7, <2>8
<1> QED BY <1>1, <1>5, <1>6, KeptFresh DEF BundleInv

\* So it is with what a client sends.
LEMMA SendBundles ==
  ASSUME IInv, IInv', BundleInv, NEW k \in Conns, NEW m \in Msgs, m \in Requests(k), Send(k, m), Kept
  PROVE  BundleInv'
<1>1. inq' = [inq EXCEPT ![k] = Append(@, m)] /\ deposit' = deposit
  BY DEF Send, daemonVars
<1>2. m.fds > 0 => m.bundle = <<k, nmsgs[k] + 1>>
  BY RequestShape DEF IInv
<1>3. nmsgs'[k] = nmsgs[k] + 1 /\ \A j \in Conns : nmsgs[j] \in Nat /\ (j # k => nmsgs'[j] = nmsgs[j])
  BY SendEffect, BoundAssumption DEF IInv, TypeOK
<1>4. \A j \in Conns : nmsgs[j] <= nmsgs'[j]
  BY <1>3
<1> QED BY <1>1, <1>2, <1>3, <1>4, QueueBundles

\* The bundle that is handed out is fresh, older than those that wait, and of the
\* consumer that gets the notice.
LEMMA DeliveredBundle ==
  ASSUME IInv, BundleInv, NoticeIsForOwnBundle,
         NEW d \in DepositType, NEW n \in Conns \cup {NULL}, Delivery(d, n)
  PROVE  /\ Unspent(d.bundle)
         /\ \A k \in Conns : Older(d, k, inq'[k])
         /\ n # NULL => d.bundle[1] = n
         /\ d.fds > 0 /\ Drains /\ Delivers(d, n)
<1>1. d.fds > 0 /\ Delivers(d, n)
  BY DEF Delivery, Delivers, Complete, DepositType
<1>2. CASE d = deposit /\ n = ConsumerConn /\ Drains
  <2>1. Unspent(d.bundle)
    BY <1>1, <1>2 DEF BundleInv
  <2>2. n # NULL => d.bundle[1] = n
    BY <1>1, <1>2, ClientConns DEF NoticeIsForOwnBundle
  <2>3. ASSUME NEW k \in Conns PROVE Older(d, k, inq'[k])
    <3>1. PICK s \in {0, 1} : \A i \in DOMAIN inq'[k] :
             i \in Nat /\ i + s \in DOMAIN inq[k] /\ inq'[k][i] = inq[k][i + s]
      BY <1>2, DrainEffect DEF IInv
    <3>2. Older(d, k, inq[k])
      BY <1>2 DEF BundleInv
    <3> QED BY <3>1, <3>2 DEF Older
  <2> QED BY <1>1, <1>2, <2>1, <2>2, <2>3
<1>3. CASE Takes(n) /\ d = Carried(Msg(n))
  <2>1. n \in Conns /\ Drains
    BY <1>3 DEF Takes, Drains
  <2>2. /\ d.bundle[1] = n /\ Unspent(d.bundle)
        /\ \A i \in DOMAIN inq'[n] : inq'[n][i].fds > 0 => d.bundle[2] < inq'[n][i].bundle[2]
    BY <1>1, <1>3, <2>1, FirstBundle
  <2>3. \A k \in Conns : Older(d, k, inq'[k])
    BY <2>2 DEF Older
  <2> QED BY <1>1, <2>1, <2>2, <2>3
<1> QED BY <1>2, <1>3 DEF Delivery

\* A bundle is handed out.
LEMMA DeliverBundles ==
  ASSUME IInv, IInv', BundleInv, NoticeIsForOwnBundle,
         NEW d \in DepositType, NEW n \in Conns \cup {NULL}, Delivery(d, n)
  PROVE  BundleInv'
<1>1. /\ Unspent(d.bundle)
      /\ \A k \in Conns : Older(d, k, inq'[k])
      /\ d.fds > 0 /\ Drains /\ Delivers(d, n)
  BY DeliveredBundle
<1>2. nmsgs' = nmsgs /\ deposit' = NoDeposit
  BY DEF Delivery
<1>3. ~(NoDeposit.fds > 0)
  BY DEF NoDeposit
<1>4. PICK pk \in Conns, x \in Nat : Handed(pk, x, d.bundle, n)
  BY <1>1, DeliverEffect DEF DepositType
<1> PICK b : b = d.bundle
  OBVIOUS
<1>5. /\ Deliveries' = Deliveries \cup {<<pk, x>>} /\ <<pk, x>> \notin Deliveries
      /\ \A e \in Deliveries : BundleOf(e)' = BundleOf(e)
      /\ BundleOf(<<pk, x>>)' = b
  BY <1>4, HandedEffect
<1>6. b \in Bundles /\ b[2] <= nmsgs[b[1]] /\ b[1] \in Conns /\ b[2] \in Nat
      /\ \A e \in Deliveries : BundleOf(e)[1] = b[1] => BundleOf(e)[2] < b[2]
  BY <1>1, BundleShape DEF Unspent
<1>7. \A e \in Deliveries' : BundleOf(e)' \in Bundles /\ BundleOf(e)'[2] <= nmsgs'[BundleOf(e)'[1]]
  BY <1>2, <1>5, <1>6 DEF BundleInv
<1>8. ASSUME NEW k \in Conns PROVE InOrder(k, inq[k])' /\ Older(deposit, k, inq[k])'
  <2>1. ASSUME NEW g, Unspent(g),
               \E i \in DOMAIN inq'[k] : inq'[k][i].fds > 0 /\ g = inq'[k][i].bundle
        PROVE  Unspent(g)'
    <3>0. g[1] = k
      <4>1. PICK s \in {0, 1} : \A i \in DOMAIN inq'[k] :
               i \in Nat /\ i + s \in DOMAIN inq[k] /\ inq'[k][i] = inq[k][i + s]
        BY <1>1, DrainEffect DEF IInv
      <4> QED BY <2>1, <4>1 DEF BundleInv, InOrder
    <3>1. b[1] = g[1] => b[2] < g[2]
      BY <1>1, <2>1, <3>0 DEF Older
    <3>2. \A e \in Deliveries' : BundleOf(e)'[1] = g[1] => BundleOf(e)'[2] < g[2]
      BY <1>5, <2>1, <3>1 DEF Unspent
    <3> QED BY <1>2, <2>1, <3>2 DEF Unspent
  <2>2. InOrder(k, inq[k])'
    BY <1>1, <2>1, DrainOrder DEF IInv, BundleInv
  <2>3. Older(NoDeposit, k, inq'[k])
    BY <1>3 DEF Older
  <2> QED BY <1>2, <2>2, <2>3
<1>9. BundlesInOrder'
  <2>1. \A e, f \in Deliveries' : BundleOf(e)' = BundleOf(f)' => e = f
    <3>1. \A e \in Deliveries : BundleOf(e) # b
      BY <1>6
    <3> QED BY <1>5, <3>1 DEF BundleInv, BundlesInOrder
  <2>2. ASSUME NEW k \in Conns, NEW i \in Given(k)', NEW j \in Given(k)', i < j,
               sent'[k][i].bundle[1] = sent'[k][j].bundle[1]
        PROVE  sent'[k][i].bundle[2] < sent'[k][j].bundle[2]
    <3>1. CASE i \in Given(k) /\ j \in Given(k)
      <4>1. sent'[k][i] = sent[k][i] /\ sent'[k][j] = sent[k][j]
        BY <1>4, <3>1 DEF Handed, Given
      <4> QED BY <2>2, <3>1, <4>1 DEF BundleInv, BundlesInOrder
    <3>2. CASE i \in Given(k) /\ k = pk /\ j = x
      <4>1. sent'[k][i] = sent[k][i] /\ sent'[k][j].bundle = b
        BY <1>4, <3>2 DEF Handed, Given
      <4>2. <<k, i>> \in Deliveries /\ BundleOf(<<k, i>>) = sent[k][i].bundle
        BY <3>2, DeliveryPlace DEF BundleOf
      <4> QED BY <1>6, <2>2, <4>1, <4>2
    <3>3. CASE k = pk /\ i = x
      <4>1. j \in Given(pk) => j < x
        BY <1>4 DEF Handed
      <4>2. j \in Given(pk) \cup {x}
        BY <1>4, <3>3 DEF Handed
      <4>3. j \in Nat
        <5>1. j \in DOMAIN sent'[k] /\ sent'[k] \in Seq(Msgs)
          BY DEF Given, IInv, TypeOK
        <5> QED BY <5>1
      <4> QED BY <2>2, <3>3, <4>1, <4>2, <4>3
    <3> QED BY <1>4, <3>1, <3>2, <3>3 DEF Handed
  <2> QED BY <1>2, <1>3, <2>1, <2>2 DEF BundlesInOrder
<1> QED BY <1>2, <1>3, <1>7, <1>8, <1>9 DEF BundleInv

-----------------------------------------------------------------------------
(* Notices. *)

\* The deposit belongs to the consumer that is connected.
DepositOwned == deposit.fds > 0 /\ consumer # NULL => deposit.bundle[1] = ConnAt(consumer)

\* A new consumer replaces the deposit of the one before it.
LEMMA DepositOwnedStep ==
  ASSUME IInv, IInv', Next, BundleInv, DepositOwned
  PROVE  DepositOwned'
<1>0. ~(NoDeposit.fds > 0)
  BY DEF NoDeposit
<1>1. ASSUME consumer' = consumer, consumer # NULL PROVE ConnAt(consumer)' = ConnAt(consumer)
  BY <1>1, ConnStays DEF IInv, ClientsOwnSockets
<1>2. CASE consumer' \in {consumer, NULL} /\ deposit' \in {deposit, NoDeposit}
  BY <1>0, <1>1, <1>2 DEF DepositOwned
<1>3. ASSUME NEW k \in Conns, NEW c \in Addr, NewConsumer(k) \/ ClientRedeposit(c, k), Deposits(k)
      PROVE  DepositOwned'
  <2>1. Takes(k) /\ deposit' = Carried(Msg(k))
    BY <1>3 DEF Deposits
  <2>2. ConnAt(consumer)' = k
    <3>1. CASE NewConsumer(k)
      <4>1. consumer' # NULL /\ consumer' # consumer
        BY <3>1, NullAssumption DEF NewConsumer, NewAddr, Unused, IInv, ClientsOwnSockets
      <4>2. ASSUME NEW j \in Conns, NewConsumer(j) PROVE j = k
        BY <3>1, <4>2 DEF NewConsumer, Greeted
      <4> QED BY <4>1, <4>2, ConsumerMoves
    <3>2. CASE ClientRedeposit(c, k)
      <4>1. consumer' = consumer /\ consumer # NULL /\ k = ConnAt(consumer)
        BY <3>2, NullAssumption DEF ClientRedeposit, Reads
      <4> QED BY <1>1, <4>1
    <3> QED BY <1>3, <3>1, <3>2
  <2>3. Carried(Msg(k)).fds > 0 => Carried(Msg(k)).bundle[1] = k
    BY <2>1, FirstBundle
  <2> QED BY <2>1, <2>2, <2>3 DEF DepositOwned
<1>4. ASSUME NEW d, NEW n, Delivery(d, n) PROVE DepositOwned'
  BY <1>0, <1>4 DEF Delivery, DepositOwned
<1>5. Quiet => consumer' \in {consumer, NULL} /\ deposit' \in {deposit, NoDeposit}
  BY DEF Quiet
<1>6. ASSUME NEW k \in Conns, NEW m \in Msgs, Send(k, m)
      PROVE  consumer' \in {consumer, NULL} /\ deposit' \in {deposit, NoDeposit}
  BY <1>6 DEF Send, daemonVars
<1>7. ASSUME NEW k \in Conns, NewProducer(k)
      PROVE  consumer' \in {consumer, NULL} /\ deposit' \in {deposit, NoDeposit}
  BY <1>7 DEF NewProducer
<1>8. ASSUME NEW k \in Conns, NEW c \in Addr, ClientScreenInfo(c, k)
      PROVE  consumer' \in {consumer, NULL} /\ deposit' \in {deposit, NoDeposit}
  BY <1>8 DEF ClientScreenInfo
<1> QED BY <1>2, <1>3, <1>4, <1>5, <1>6, <1>7, <1>8, Moves

\* The notices of a connection are finitely many.
LEMMA NoticesFinite == ASSUME TypeOK, NEW k \in Conns PROVE IsFiniteSet(Notices(k))
<1>1. sent[k] \in Seq(Msgs)
  BY DEF TypeOK
<1>2. Len(sent[k]) \in Nat /\ DOMAIN sent[k] = 1..Len(sent[k])
  BY <1>1
<1>3. IsFiniteSet(1..Len(sent[k]))
  BY <1>2, FS_Interval
<1>4. Notices(k) \subseteq 1..Len(sent[k])
  BY <1>2 DEF Notices
<1> QED BY <1>3, <1>4, FS_Subset

\* A delivery adds a bundle before it adds a notice.
LEMMA PaidStep ==
  ASSUME IInv, IInv', Next, BundleInv, NoticeInv
  PROVE  \A k \in Conns : IsFiniteSet(Own(k))' /\ (Cardinality(Notices(k)) <= Cardinality(Own(k)))'
<1> SUFFICES ASSUME NEW k \in Conns
             PROVE  IsFiniteSet(Own(k))' /\ (Cardinality(Notices(k)) <= Cardinality(Own(k)))'
  OBVIOUS
<1>0. /\ IsFiniteSet(Own(k)) /\ Cardinality(Own(k)) \in Nat
      /\ IsFiniteSet(Notices(k)) /\ Cardinality(Notices(k)) \in Nat
      /\ Cardinality(Notices(k)) <= Cardinality(Own(k))
  BY NoticesFinite, FS_CardinalityType DEF NoticeInv, NoticeIsForOwnBundle, Own, IInv
<1>1. CASE Kept
  <2>1. Own(k)' = Own(k)
    BY <1>1, KeptEffect DEF Own
  <2>2. Notices(k)' = Notices(k)
    BY <1>1 DEF Kept
  <2> QED BY <1>0, <2>1, <2>2
<1>2. ASSUME NEW d \in DepositType, NEW n \in Conns \cup {NULL}, Delivery(d, n)
      PROVE  IsFiniteSet(Own(k))' /\ (Cardinality(Notices(k)) <= Cardinality(Own(k)))'
  <2>1. (n # NULL => d.bundle[1] = n) /\ Delivers(d, n)
    BY <1>2, DeliveredBundle DEF NoticeInv
  <2>2. PICK pk \in Conns, x \in Nat : Handed(pk, x, d.bundle, n)
    BY <2>1, DeliverEffect DEF DepositType
  <2> PICK b : b = d.bundle
    OBVIOUS
  <2>3. /\ Deliveries' = Deliveries \cup {<<pk, x>>} /\ <<pk, x>> \notin Deliveries
        /\ \A e \in Deliveries : BundleOf(e)' = BundleOf(e)
        /\ BundleOf(<<pk, x>>)' = b
    BY <2>2, HandedEffect
  <2>4. CASE b[1] = k
    <3>1. Own(k)' = Own(k) \cup {<<pk, x>>} /\ <<pk, x>> \notin Own(k)
      BY <2>3, <2>4 DEF Own
    <3>2. IsFiniteSet(Own(k))' /\ Cardinality(Own(k))' = Cardinality(Own(k)) + 1
      <4> PICK S, e : S = Own(k) /\ e = <<pk, x>>
        OBVIOUS
      <4>1. IsFiniteSet(S \cup {e}) /\ Cardinality(S \cup {e}) = Cardinality(S) + 1
        BY <1>0, <3>1, FS_AddElement
      <4> QED BY <3>1, <4>1
    <3>3. Cardinality(Notices(k))' <= Cardinality(Notices(k)) + 1 /\ Cardinality(Notices(k))' \in Nat
      <4>1. CASE Notices(k)' = Notices(k)
        BY <1>0, <4>1
      <4>2. CASE \E y : Notices(k)' = Notices(k) \cup {y}
        <5>1. PICK y : Notices(k)' = Notices(k) \cup {y}
          BY <4>2
        <5> PICK S : S = Notices(k)
          OBVIOUS
        <5>2. Cardinality(S \cup {y}) \in {Cardinality(S), Cardinality(S) + 1}
          BY <1>0, FS_AddElement
        <5> QED BY <1>0, <5>1, <5>2
      <4> QED BY <2>2, <4>1, <4>2 DEF Handed
    <3> QED BY <1>0, <3>2, <3>3
  <2>5. CASE b[1] # k
    <3>1. Own(k)' = Own(k)
      BY <2>3, <2>5 DEF Own
    <3>2. k # n
      BY <2>1, <2>5, NullAssumption
    <3>3. Notices(k)' = Notices(k)
      BY <2>2, <3>2 DEF Handed
    <3> QED BY <1>0, <3>1, <3>3
  <2> QED BY <2>4, <2>5
<1> QED BY <1>1, <1>2, KeptSteps

\* BundleInv and NoticeInv are inductive on top of IInv, each with the other's help: a
\* delivery is fresh because of the order, and notified to its owner.
LEMMA BundleStep ==
  ASSUME IInv, IInv', Next, BundleInv, NoticeInv
  PROVE  BundleInv' /\ NoticeInv'
<1>1. NoticeInv'
  <2>1. DepositOwned'
    BY DepositOwnedStep DEF NoticeInv, NoticeIsForOwnBundle, DepositOwned
  <2>2. \A k \in Conns : IsFiniteSet(Own(k))' /\ (Cardinality(Notices(k)) <= Cardinality(Own(k)))'
    BY PaidStep
  <2> QED BY <2>1, <2>2 DEF NoticeInv, NoticeIsForOwnBundle, DepositOwned, Own
<1>2. ASSUME NEW d \in DepositType, NEW n \in Conns \cup {NULL}, Delivery(d, n) PROVE BundleInv'
  BY <1>2, DeliverBundles DEF NoticeInv
<1>3. CASE Kept
  <2>1. ASSUME NEW k \in Conns, NEW m \in Msgs, m \in Requests(k), Send(k, m) PROVE BundleInv'
    BY <1>3, <2>1, SendBundles
  <2>2. ASSUME NEW k \in Conns, Deposits(k) PROVE BundleInv'
    BY <1>3, <2>2, DepositBundles
  <2>3. CASE Quiet
    <3>1. Drains /\ nmsgs' = nmsgs /\ deposit' \in {deposit, NoDeposit}
      BY <2>3 DEF Quiet
    <3>2. BundleInv'
      BY <1>3, <3>1, DrainBundles
    <3> QED BY <1>1, <3>2
  <2>4. ASSUME NEW k \in Conns, NewProducer(k) PROVE BundleInv'
    <3>1. Drains /\ nmsgs' = nmsgs /\ deposit' = deposit
      BY <2>4 DEF NewProducer, Greeted, Drains, Takes
    <3> QED BY <1>3, <3>1, DrainBundles
  <2>5. ASSUME NEW k \in Conns, NEW c \in Addr, ClientScreenInfo(c, k) PROVE BundleInv'
    <3>1. Drains /\ nmsgs' = nmsgs /\ deposit' = deposit
      BY <2>5 DEF ClientScreenInfo, Reads, Drains, Takes
    <3> QED BY <1>3, <3>1, DrainBundles
  <2> QED BY <1>1, <1>2, <2>1, <2>2, <2>3, <2>4, <2>5, Moves
<1> QED BY <1>1, <1>2, <1>3, KeptSteps

\* Nothing was handed out or noticed at the start.
LEMMA InitBundles == Init => BundleInv /\ NoticeInv
<1> SUFFICES ASSUME Init PROVE BundleInv /\ NoticeInv
  OBVIOUS
<1>1. \A k \in Conns : sent[k] = <<>> /\ inq[k] = <<>>
  BY DEF Init
<1>2. deposit.fds = 0 /\ consumer = NULL
  BY DEF Init, NoDeposit
<1>3. \A k \in Conns : Given(k) = {} /\ Notices(k) = {}
  BY <1>1 DEF Given, Notices
<1>4. Deliveries = {}
  BY <1>3, DeliveryPlace
<1>5. \A k \in Conns : Own(k) = {}
  BY <1>4 DEF Own
<1>6. BundleInv
  BY <1>1, <1>2, <1>3, <1>4 DEF BundleInv, InOrder, Older, BundlesInOrder
<1>7. NoticeInv
  <2>1. IsFiniteSet({}) /\ Cardinality({}) = 0
    BY FS_EmptySet
  <2>2. \A k \in Conns : Cardinality(Notices(k)) <= Cardinality(Own(k))
    BY <1>3, <1>5, <2>1
  <2>3. NoticeIsForOwnBundle
    BY <1>2, <2>2 DEF NoticeIsForOwnBundle, Own
  <2> QED BY <1>5, <2>1, <2>3 DEF NoticeInv
<1> QED BY <1>6, <1>7

\* A bundle is handed out at most once and in the order sent (BundlesInOrder), and
\* FDS_READY goes to the consumer whose bundle was taken (NoticeIsForOwnBundle).
LEMMA BundlesAndNotices == Spec => [](BundleInv /\ NoticeInv)
<1>1. Init => BundleInv /\ NoticeInv
  BY InitBundles
<1>2. IInv /\ IInv' /\ [Next]_vars /\ (BundleInv /\ NoticeInv) => (BundleInv /\ NoticeInv)'
  <2>1. ASSUME UNCHANGED vars, BundleInv, NoticeInv PROVE BundleInv' /\ NoticeInv'
    <3>1. UNCHANGED <<consumer, heap, sock, inq, sent, nmsgs, deposit>>
      BY <2>1 DEF vars, daemonVars, socketVars
    <3>2. BundleInv'
      BY <2>1, <3>1 DEF BundleInv, InOrder, Older, BundlesInOrder, Unspent, Deliveries, BundleOf, Given
    <3>3. NoticeInv'
      BY <2>1, <3>1 DEF NoticeInv, NoticeIsForOwnBundle, Own, Notices, Deliveries, BundleOf,
         Given, ConnAt
    <3> QED BY <3>2, <3>3
  <2> QED BY <2>1, BundleStep
<1> QED BY <1>1, <1>2, SpecIInv, PTL DEF Spec

\* Whatever clients come, go and ask for, a bundle is handed out at most once, the
\* bundles of a consumer in the order it deposited them (BundlesInOrder).
THEOREM BundlesOnceInOrder == Spec => []BundlesInOrder
<1>1. BundleInv /\ NoticeInv => BundlesInOrder
  BY DEF BundleInv
<1> QED BY <1>1, BundlesAndNotices, PTL

\* The consumer that is told FDS_READY is the one whose bundle was taken
\* (NoticeIsForOwnBundle).
THEOREM NoticesEarned == Spec => []NoticeIsForOwnBundle
<1>1. BundleInv /\ NoticeInv => NoticeIsForOwnBundle
  BY DEF NoticeInv
<1> QED BY <1>1, BundlesAndNotices, PTL
=============================================================================
