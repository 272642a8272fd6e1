---------------------------- MODULE DisplayLink ----------------------------
(***************************************************************************)
(* The display link: the Android consumer and the Weston producer around   *)
(* the display daemon.                                                     *)
(*                                                                         *)
(*   consumer   libdisplay_consumer driven by the render thread of         *)
(*              jni/native_consumer.c                                      *)
(*   producer   libdisplay_producer driven by the event loop of            *)
(*              weston/libweston/backend-anland/anland.c                   *)
(*   daemon     every action of DisplayDaemon, unchanged                   *)
(*                                                                         *)
(* A bundle b is one set of shared objects made by the consumer: the two   *)
(* eventfds, the shared index and a socket pair.  The consumer keeps one   *)
(* end of the pair; the other end travels through the daemon to the        *)
(* producer.  An end that is closed everywhere hangs up the other one.     *)
(*                                                                         *)
(* Each connect of the consumer and each start of the compositor uses a    *)
(* connection of its own.                                                  *)
(***************************************************************************)
EXTENDS DisplayDaemon

CONSTANTS
  Disturbances, \* which disturbances happen: see Disturb
  MaxEvents     \* bound: how many of them

\* The consumer library sends at most four messages on a connection (a greeting,
\* a screen, two new bundles); the bound on messages leaves room for them.
ASSUME LinkAssumption == MaxMsgs >= 4 /\ MaxEvents \in Nat

VARIABLES
  c_pc,         \* where the render thread is
  c_conn,       \* ctx->ctrl_fd, or NULL
  c_bundle,     \* the bundle of ctx, or NULL
  c_fallback,   \* ctx->fallback
  c_pending,    \* ctx->buffer_pending
  c_running,    \* g_state.running
  need_reconnect,
  c_read,       \* control messages read from c_conn
  p_pc,         \* where the compositor is
  p_conn, p_bundle, p_fallback, p_read,
  p_bufs,       \* dmabuf_received, and the buffers are imported
  p_ready,      \* consumer_ready
  p_again,      \* the bundle was picked up by try_reconnect
  buf_ready,    \* bundle -> buf_ready_efd is readable
  refresh,      \* bundle -> refresh_done_efd is readable
  data,         \* bundle -> messages from the consumer on the socket pair
  events        \* disturbances so far

consumerVars == <<c_pc, c_conn, c_bundle, c_fallback, c_pending, c_read, c_running,
                  need_reconnect>>
producerVars == <<p_pc, p_conn, p_bundle, p_fallback, p_read, p_bufs, p_ready,
                  p_again>>
objectVars == <<buf_ready, refresh, data>>
linkVars == <<vars, consumerVars, producerVars, objectVars, events>>

LinkTypeOK ==
  /\ c_pc \in {"off", "top", "connect", "hello", "screen", "draw", "push", "select",
               "await"}
  /\ c_conn \in Consumers \cup {NULL}
  /\ c_bundle \in Bundles \cup {NULL}
  /\ c_fallback \in BOOLEAN
  /\ c_pending \in BOOLEAN
  /\ c_running \in BOOLEAN
  /\ need_reconnect \in BOOLEAN
  /\ c_read \in Nat
  /\ p_pc \in {"off", "hello", "screen", "pickup", "take", "run", "retry"}
  /\ p_conn \in Producers \cup {NULL}
  /\ p_bundle \in Bundles \cup {NULL}
  /\ p_fallback \in BOOLEAN
  /\ p_read \in Nat
  /\ p_bufs \in BOOLEAN
  /\ p_ready \in BOOLEAN
  /\ p_again \in BOOLEAN
  /\ buf_ready \in [Bundles -> BOOLEAN]
  /\ refresh \in [Bundles -> BOOLEAN]
  /\ data \in [Bundles -> Seq({"BUFS_READY", "INPUT_EVENT"})]
  /\ events \in 0..MaxEvents

LinkInit ==
  /\ Init
  /\ c_pc = "off"
  /\ c_conn = NULL
  /\ c_bundle = NULL
  /\ c_fallback = TRUE
  /\ c_pending = FALSE
  /\ c_read = 0
  /\ c_running = FALSE
  /\ need_reconnect = FALSE
  /\ p_pc = "off"
  /\ p_conn = NULL
  /\ p_bundle = NULL
  /\ p_fallback = TRUE
  /\ p_read = 0
  /\ p_bufs = FALSE
  /\ p_ready = FALSE
  /\ p_again = FALSE
  /\ buf_ready = [b \in Bundles |-> FALSE]
  /\ refresh = [b \in Bundles |-> FALSE]
  /\ data = [b \in Bundles |-> <<>>]
  /\ events = 0

-----------------------------------------------------------------------------
(* Sockets as the libraries see them. *)

Unread(k, n) == SubSeq(sent[k], n + 1, Len(sent[k]))
Linked(k) == link[k] \in {"backlog", "open"}

\* The producer's end of a bundle is open while it is held by the producer,
\* on deposit, or on its way through a socket.
ProducerEnd(b) ==
  \/ p_bundle = b
  \/ deposit.bundle = b
  \/ \E k \in Consumers : Linked(k) /\ \E i \in 1..Len(inq[k]) : inq[k][i].bundle = b
  \/ /\ p_conn # NULL
     /\ peer[p_conn]
     /\ \E i \in (p_read + 1)..Len(sent[p_conn]) : sent[p_conn][i].bundle = b

ConsumerEnd(b) == c_bundle = b

\* A message on the control socket; a send to a closed socket fails.
Request(k, m) ==
  IF Linked(k)
  THEN /\ inq' = [inq EXCEPT ![k] = Append(@, m)]
       /\ nmsgs' = [nmsgs EXCEPT ![k] = IF k \in Consumers THEN @ + 1 ELSE @]
       /\ UNCHANGED <<daemonVars, backlog, sock, link, peer, sent>>
  ELSE UNCHANGED vars

\* One unused connection; which one makes no difference.
Fresh(S) == {k \in S : link[k] = "none" /\ k = CHOOSE j \in S : link[j] = "none"}

\* Mutation: the number of the previous message is used again.
NewBundleStale(k) == <<k, nmsgs[k]>>

\* The descriptors that send_hello_fds attaches to the next message.
NewBundle(k) == <<k, nmsgs[k] + 1>>
Hello(k) == WithFds("CONSUMER_HELLO", 4, NewBundle(k))

-----------------------------------------------------------------------------
(* The consumer: the loop of render_thread_func, and the threads that call *)
(* into the context beside it.                                             *)

\* nativeStart
CStart ==
  /\ c_pc = "off"
  /\ c_pc' = "top"
  /\ c_running' = TRUE
  /\ need_reconnect' = TRUE
  /\ UNCHANGED <<vars, c_conn, c_bundle, c_fallback, c_pending, c_read,
                 producerVars, objectVars, events>>

\* disconnect: both ends of the context are closed.
DropContext ==
  /\ peer' = [k \in Conns |-> peer[k] /\ k # c_conn]
  /\ c_bundle' = NULL
  /\ c_conn' = NULL
  /\ c_fallback' = TRUE
  /\ c_pending' = FALSE
  /\ UNCHANGED <<daemonVars, backlog, sock, link, inq, sent, nmsgs, c_read,
                 producerVars, objectVars>>

\* The top of the loop: leave it (nativeStop joins the thread and destroys the
\* context), reconnect (do_connect first drops the old context), or draw.
CTop ==
  /\ c_pc = "top"
  /\ UNCHANGED <<need_reconnect, events>>
  /\ \/ /\ ~c_running \/ need_reconnect
        /\ DropContext
        /\ c_pc' = IF c_running THEN "connect" ELSE "off"
        /\ UNCHANGED c_running
     \/ /\ c_running
        /\ ~need_reconnect
        /\ c_pc' = "draw"
        /\ UNCHANGED <<vars, c_conn, c_bundle, c_fallback, c_pending, c_read, c_running,
                       producerVars, objectVars>>

\* do_connect: connect_to_deamon on a new context, then set_screen_info.
CConnect ==
  /\ c_pc = "connect"
  /\ \E k \in Fresh(Consumers) : Connect(k) /\ c_conn' = k
  /\ c_pc' = "hello"
  /\ c_read' = 0
  /\ UNCHANGED <<c_bundle, c_fallback, c_pending, c_running, need_reconnect,
                 producerVars, objectVars, events>>

CHello ==
  /\ c_pc = "hello"
  /\ Request(c_conn, Hello(c_conn))
  /\ c_bundle' = NewBundle(c_conn)
  /\ c_pc' = "screen"
  /\ UNCHANGED <<c_conn, c_fallback, c_pending, c_read, c_running, need_reconnect,
                 producerVars, objectVars, events>>

CScreen ==
  /\ c_pc = "screen"
  /\ \E s \in Screens : Request(c_conn, ScreenInfo(s))
  /\ need_reconnect' = FALSE
  /\ c_pc' = "draw"
  /\ UNCHANGED <<c_conn, c_bundle, c_fallback, c_pending, c_read, c_running,
                 producerVars, objectVars, events>>

\* Mutation: try_exit_fallback blocks until a message arrives.
CExitFallbackBlocking ==
  /\ c_pc = "draw"
  /\ c_fallback
  /\ Unread(c_conn, c_read) # <<>>
  /\ c_read' = c_read + 1
  /\ c_fallback' = FALSE
  /\ c_pc' = "push"
  /\ UNCHANGED <<vars, c_conn, c_bundle, c_pending, c_running, need_reconnect,
                 producerVars, objectVars, events>>

\* Mutation: the buffers are not pushed when the fallback ends.
CExitFallbackNoPush ==
  /\ c_pc = "draw"
  /\ c_fallback
  /\ IF Unread(c_conn, c_read) = <<>>
     THEN c_pc' = "top" /\ UNCHANGED <<c_read, c_fallback>>
     ELSE c_pc' = "select" /\ c_read' = c_read + 1 /\ c_fallback' = FALSE
  /\ UNCHANGED <<vars, c_conn, c_bundle, c_pending, c_running, need_reconnect,
                 producerVars, objectVars, events>>

\* select_dmabuf in fallback: try_exit_fallback looks for FDS_READY, which ends
\* the fallback before the buffers are pushed.
CExitFallback ==
  /\ c_pc = "draw"
  /\ c_fallback
  /\ IF Unread(c_conn, c_read) = <<>>
     THEN c_pc' = "top" /\ UNCHANGED <<c_read, c_fallback>>
     ELSE /\ c_read' = c_read + 1
          /\ c_fallback' = (Head(Unread(c_conn, c_read)).type # "FDS_READY")
          /\ c_pc' = IF c_fallback' THEN "top" ELSE "push"
  /\ UNCHANGED <<vars, c_conn, c_bundle, c_pending, c_running, need_reconnect,
                 producerVars, objectVars, events>>

\* push_dmabufs_internal; a thread of the app may have entered fallback again.
CPush ==
  /\ c_pc = "push"
  /\ ProducerEnd(c_bundle) \/ c_fallback
  /\ data' = IF ProducerEnd(c_bundle)
             THEN [data EXCEPT ![c_bundle] = Append(@, "BUFS_READY")] ELSE data
  /\ c_pc' = "select"
  /\ UNCHANGED <<vars, c_conn, c_bundle, c_fallback, c_pending, c_read, c_running,
                 need_reconnect, producerVars, buf_ready, refresh, events>>

\* select_dmabuf; it checks the flag again after try_exit_fallback.  Which
\* buffer the shared index names is left out.
CSelect ==
  /\ \/ c_pc = "draw" /\ ~c_fallback
     \/ c_pc = "select"
  /\ IF c_fallback
     THEN c_pc' = "top" /\ UNCHANGED <<buf_ready, c_pending>>
     ELSE /\ buf_ready' = [buf_ready EXCEPT ![c_bundle] = TRUE]
          /\ c_pending' = TRUE
          /\ c_pc' = "await"
  /\ UNCHANGED <<vars, c_conn, c_bundle, c_fallback, c_read, c_running, need_reconnect,
                 producerVars, refresh, data, events>>

\* Mutation: the eventfd is polled but not read.
CRefreshDoneUnread ==
  /\ c_pc = "await"
  /\ c_pending => ProducerEnd(c_bundle) /\ refresh[c_bundle]
  /\ c_pending' = FALSE
  /\ c_pc' = "top"
  /\ UNCHANGED <<vars, c_conn, c_bundle, c_fallback, c_read, c_running, need_reconnect,
                 producerVars, objectVars, events>>

\* refresh_done: a hangup comes first, and with it enter_fallback; otherwise the
\* buffer is posted and the loop starts over.
CRefreshDone ==
  /\ c_pc = "await"
  /\ c_pending => ProducerEnd(c_bundle) /\ refresh[c_bundle]
  /\ refresh' = IF c_pending THEN [refresh EXCEPT ![c_bundle] = FALSE] ELSE refresh
  /\ c_pending' = FALSE
  /\ c_pc' = "top"
  /\ UNCHANGED <<vars, c_conn, c_bundle, c_fallback, c_read, c_running, need_reconnect,
                 producerVars, buf_ready, data, events>>

\* enter_fallback after a hangup: a new bundle is offered on the old
\* connection, and on_fallback asks the render thread to reconnect.
enter_fallback ==
  /\ ~c_fallback
  /\ ~ProducerEnd(c_bundle)
  /\ Request(c_conn, Hello(c_conn))
  /\ c_bundle' = NewBundle(c_conn)
  /\ c_fallback' = TRUE
  /\ c_pending' = FALSE
  /\ need_reconnect' = TRUE
  /\ UNCHANGED <<c_conn, c_read, c_running, producerVars, objectVars, events>>

\* Mutation: refresh_done does not poll the data socket.
CHangupUnpolled == c_pc = "push" /\ enter_fallback /\ c_pc' = "top"

\* The render thread finds the hangup when it pushes the buffers or waits.
CHangup ==
  /\ \/ c_pc = "push"
     \/ c_pc = "await" /\ c_pending
  /\ enter_fallback
  /\ c_pc' = "top"

\* poll_window_event, push_input_event and push_window_command find it on a
\* thread of the app, wherever the render thread is.
CAppHangup ==
  /\ enter_fallback
  /\ UNCHANGED c_pc

\* wake_display_consumer writes both eventfds of the context, if there is one.
wake_display_consumer ==
  /\ buf_ready' = [b \in Bundles |-> buf_ready[b] \/ b = c_bundle]
  /\ refresh' = [b \in Bundles |-> refresh[b] \/ b = c_bundle]

\* nativeStop: the thread it wakes is joined in CTop.
CWake ==
  /\ c_running
  /\ c_running' = FALSE
  /\ wake_display_consumer
  /\ UNCHANGED <<vars, c_pc, c_conn, c_bundle, c_fallback, c_pending, c_read,
                 need_reconnect, producerVars, data>>

\* nativeSetSocketPath
CSetSocketPath ==
  /\ need_reconnect' = TRUE
  /\ c_pc # "off"
  /\ UNCHANGED <<vars, c_pc, c_conn, c_bundle, c_fallback, c_pending, c_read, c_running,
                 producerVars, objectVars>>

\* The app's process dies.
CCrash ==
  /\ c_conn # NULL
  /\ DropContext
  /\ c_pc' = "off"
  /\ c_running' = FALSE
  /\ need_reconnect' = FALSE

\* push_input_event, from the user-interface thread.
CInput ==
  /\ ~c_fallback
  /\ ProducerEnd(c_bundle)
  /\ Len(data[c_bundle]) < MaxQueue
  /\ data' = [data EXCEPT ![c_bundle] = Append(@, "INPUT_EVENT")]
  /\ UNCHANGED <<vars, consumerVars, producerVars, buf_ready, refresh>>

-----------------------------------------------------------------------------
(* The producer. *)

\* connect_to_deamon
PStart ==
  /\ p_pc = "off"
  /\ \E k \in Fresh(Producers) : Connect(k) /\ p_conn' = k
  /\ p_pc' = "hello"
  /\ p_read' = 0
  /\ UNCHANGED <<p_bundle, p_fallback, p_bufs, p_ready, p_again, consumerVars, objectVars, events>>

PHello ==
  /\ p_pc = "hello"
  /\ Request(p_conn, Plain("PRODUCER_HELLO"))
  /\ p_pc' = "screen"
  /\ UNCHANGED <<p_conn, p_bundle, p_fallback, p_read, p_bufs, p_ready, p_again,
                 consumerVars, objectVars, events>>

PScreen ==
  /\ p_pc = "screen"
  /\ Unread(p_conn, p_read) # <<>>
  /\ Head(Unread(p_conn, p_read)).type = "SCREEN_INFO"
  /\ p_read' = p_read + 1
  /\ p_pc' = "pickup"
  /\ UNCHANGED <<vars, p_conn, p_bundle, p_fallback, p_bufs, p_ready, p_again,
                 consumerVars, objectVars, events>>

\* pickup_fds asks for a bundle and waits for it.
PPickup ==
  /\ p_pc = "pickup"
  /\ Linked(p_conn)
  /\ Request(p_conn, Plain("PICKUP_FDS"))
  /\ p_pc' = "take"
  /\ UNCHANGED <<p_conn, p_bundle, p_fallback, p_read, p_bufs, p_ready, p_again,
                 consumerVars, objectVars, events>>

\* Mutation: the reconnect timer is never armed.
PRetryNever == FALSE /\ UNCHANGED linkVars

\* anland_reconnect_timer_handler asks again.
PRetry ==
  /\ p_pc = "run"
  /\ p_fallback
  /\ Linked(p_conn)
  /\ Len(inq[p_conn]) < MaxQueue
  /\ Request(p_conn, Plain("PICKUP_FDS"))
  /\ p_pc' = "retry"
  /\ UNCHANGED <<p_conn, p_bundle, p_fallback, p_read, p_bufs, p_ready, p_again,
                 consumerVars, objectVars, events>>

\* The next message on the control socket is a bundle, which becomes the
\* context's; it may answer an earlier request.
TakeFds ==
  /\ Unread(p_conn, p_read) # <<>>
  /\ LET m == Head(Unread(p_conn, p_read))
     IN  /\ m.type = "FDS_READY"
         /\ m.fds >= 4
         /\ p_bundle' = m.bundle
  /\ p_read' = p_read + 1
  /\ p_fallback' = FALSE
  /\ p_pc' = "run"
  /\ UNCHANGED <<vars, p_conn, p_bufs, p_ready, consumerVars, objectVars, events>>

PTake == p_pc = "take" /\ TakeFds /\ p_again' = FALSE

\* anland_try_reconnect: the timer is stopped, and buf_ready_efd watched.
PReconnect == p_pc = "retry" /\ TakeFds /\ p_again' = TRUE

\* try_reconnect gives up after 100 ms; the request stays with the daemon.
PTimeout ==
  /\ p_pc = "retry"
  /\ Unread(p_conn, p_read) = <<>>
  /\ p_pc' = "run"
  /\ UNCHANGED <<vars, p_conn, p_bundle, p_fallback, p_read, p_bufs, p_ready, p_again,
                 consumerVars, objectVars, events>>

\* The daemon closed the control socket during connect_to_deamon: Weston exits.
PRefused ==
  /\ p_pc \in {"screen", "take", "pickup"}
  /\ ~Linked(p_conn)
  /\ p_pc = "pickup" \/ Unread(p_conn, p_read) = <<>>
  /\ p_pc' = "off"
  /\ p_conn' = NULL
  /\ UNCHANGED <<vars, p_bundle, p_fallback, p_read, p_bufs, p_ready, p_again,
                 consumerVars, objectVars, events>>

\* anland_fallback_cb: nothing is watched any more, and the timer is armed.
anland_fallback_cb ==
  /\ p_bufs' = FALSE
  /\ p_ready' = FALSE

\* enter_fallback of the producer library
EnterFallback ==
  /\ p_bundle' = NULL
  /\ p_fallback' = TRUE
  /\ anland_fallback_cb
  /\ UNCHANGED <<vars, p_pc, p_conn, p_read, p_again, consumerVars, objectVars>>

\* Mutation: the event that announced the buffers is not read.
receive_dmabufsUnread ==
  /\ data[p_bundle] # <<>>
  /\ data' = [data EXCEPT ![p_bundle] = Tail(@)]
  /\ p_bufs' = TRUE
  /\ p_ready' = TRUE
  /\ UNCHANGED <<vars, p_pc, p_conn, p_bundle, p_fallback, p_read, p_again,
                 consumerVars, buf_ready, refresh>>

\* receive_dmabufs: the first message must bring the buffers.
receive_dmabufs ==
  /\ data[p_bundle] # <<>>
  /\ \/ /\ Head(data[p_bundle]) # "BUFS_READY"
        /\ EnterFallback
     \/ /\ Head(data[p_bundle]) = "BUFS_READY"
        /\ data' = [data EXCEPT ![p_bundle] = Tail(@)]
        /\ buf_ready' = [buf_ready EXCEPT ![p_bundle] = FALSE]
        /\ p_bufs' = TRUE
        /\ p_ready' = TRUE
        /\ UNCHANGED <<vars, p_pc, p_conn, p_bundle, p_fallback, p_read, p_again,
                       consumerVars, refresh>>

\* anland_buf_ready_handler, first event of a bundle: wait_buffer_async_result
\* looks for a hangup and then waits for the buffers.
PFirstBuffer ==
  /\ p_pc = "run"
  /\ ~p_fallback
  /\ ~p_bufs
  /\ buf_ready[p_bundle]
  /\ UNCHANGED events
  /\ IF ConsumerEnd(p_bundle) THEN receive_dmabufs ELSE EnterFallback

\* anland_buf_ready_handler, later events
PBufReady ==
  /\ p_pc = "run"
  /\ ~p_fallback
  /\ p_bufs
  /\ buf_ready[p_bundle]
  /\ buf_ready' = [buf_ready EXCEPT ![p_bundle] = FALSE]
  /\ p_ready' = TRUE
  /\ UNCHANGED <<vars, p_pc, p_conn, p_bundle, p_fallback, p_read, p_bufs, p_again,
                 consumerVars, refresh, data, events>>

\* anland_output_repaint: the selected buffer is painted and handed back.
PRepaint ==
  /\ p_pc = "run"
  /\ p_bufs
  /\ p_ready
  /\ refresh' = [refresh EXCEPT ![p_bundle] = TRUE]
  /\ p_ready' = FALSE
  /\ UNCHANGED <<vars, p_pc, p_conn, p_bundle, p_fallback, p_read, p_bufs, p_again,
                 consumerVars, buf_ready, data, events>>

\* poll_display_event: a hangup, or one message.
poll_display_event ==
  \/ /\ ~ConsumerEnd(p_bundle)
     /\ EnterFallback
  \/ /\ ConsumerEnd(p_bundle)
     /\ data[p_bundle] # <<>>
     /\ data' = [data EXCEPT ![p_bundle] = Tail(@)]
     /\ UNCHANGED <<vars, consumerVars, producerVars, buf_ready, refresh>>

\* anland_input_fd_handler; the socket is watched once the buffers are there.
PInput ==
  /\ p_pc = "run"
  /\ p_bufs
  /\ poll_display_event
  /\ UNCHANGED events

\* push_window_event finds the socket closed.
PWindowEvent ==
  /\ p_pc = "run"
  /\ ~p_fallback
  /\ ~ConsumerEnd(p_bundle)
  /\ EnterFallback

\* The compositor process dies.
PCrash ==
  /\ p_conn # NULL
  /\ peer' = [peer EXCEPT ![p_conn] = FALSE]
  /\ p_pc' = "off"
  /\ p_conn' = NULL
  /\ p_bundle' = NULL
  /\ p_fallback' = TRUE
  /\ p_bufs' = FALSE
  /\ p_ready' = FALSE
  /\ UNCHANGED <<daemonVars, backlog, sock, link, inq, sent, nmsgs, p_read, p_again,
                 consumerVars, objectVars>>

-----------------------------------------------------------------------------
\* What may disturb the link, chosen by Disturbances and bounded by MaxEvents.
Disturb ==
  /\ events < MaxEvents
  /\ events' = events + 1
  /\ \/ "stop" \in Disturbances /\ CWake
     \/ "path" \in Disturbances /\ CSetSocketPath
     \/ "consumer_crash" \in Disturbances /\ CCrash
     \/ "producer_crash" \in Disturbances /\ PCrash
     \/ "input" \in Disturbances /\ CInput
     \/ "window" \in Disturbances /\ PWindowEvent

DaemonServes ==
  /\ EpollWait \/ AcceptConnection \/ Greet \/ ClientEvent
  /\ UNCHANGED <<consumerVars, producerVars, objectVars, events>>

ConsumerRuns ==
  \/ CTop \/ CConnect \/ CHello \/ CScreen \/ CExitFallback \/ CPush \/ CSelect
  \/ CRefreshDone \/ CHangup

ProducerRuns ==
  \/ PHello \/ PScreen \/ PPickup \/ PTake \/ PRetry \/ PReconnect \/ PTimeout
  \/ PRefused \/ PFirstBuffer \/ PBufReady \/ PRepaint \/ PInput

LinkNext ==
  \/ CStart
  \/ PStart
  \/ ConsumerRuns
  \/ CAppHangup
  \/ ProducerRuns
  \/ DaemonServes
  \/ Disturb

\* Three sequential threads of control; nothing forces the user to start the
\* app or the compositor, or a disturbance to happen.
Fairness ==
  /\ WF_linkVars(ConsumerRuns)
  /\ WF_linkVars(ProducerRuns)
  /\ WF_linkVars(DaemonServes)

LinkSpec == LinkInit /\ [][LinkNext]_linkVars
LiveSpec == LinkSpec /\ Fairness

-----------------------------------------------------------------------------
(* Properties. *)

\* An FDS_READY never answers for another bundle: the consumer leaves fallback
\* only when the bundle it holds at that moment was handed to a producer.
LinkedBundle ==
  ~c_fallback => \E d \in Deliveries : BundleOf(d) = c_bundle

One(p) == IF p THEN 1 ELSE 0

\* While the producer's end is open, the frame the consumer waits for is in
\* exactly one place (announced, being painted, or finished), and there is
\* none when it waits for nothing: a signal is never lost or repeated, across
\* fallbacks, reconnects and buffers handed over late.
FrameConserved ==
  ~c_fallback /\ c_running /\ ProducerEnd(c_bundle) =>
    One(buf_ready[c_bundle]) + One(p_bundle = c_bundle /\ p_ready) + One(refresh[c_bundle])
      = One(c_pending)

\* The link and its frame, as FrameHandoff sees them.
LinkIsUp == ~c_fallback /\ c_running /\ ProducerEnd(c_bundle)

FramePlace ==
  CASE ~LinkIsUp -> "idle"
    [] LinkIsUp /\ buf_ready[c_bundle] -> "announced"
    [] LinkIsUp /\ p_bundle = c_bundle /\ p_ready -> "painting"
    [] LinkIsUp /\ refresh[c_bundle] -> "finished"
    [] OTHER -> "idle"

Handoff == INSTANCE FrameHandoff WITH linked <- LinkIsUp, frame <- FramePlace

\* The two programs around the daemon implement FrameHandoff: frames are taken,
\* painted, handed back and posted in that order, each once, and none is given
\* up but with the link, whoever crashes, stops or reconnects.
HandoffImplemented == Handoff!Spec

Up == c_running /\ p_pc # "off"

\* Once app and compositor are up for good, and nothing has disturbed them,
\* frames keep going round: the render loop keeps announcing buffers and
\* getting them back, whichever side came first.
FramesFlow ==
  <>[](Up /\ events = 0) => []<>c_pending /\ []<>(~c_fallback /\ ~c_pending)

\* refresh_done returns: whatever happens to the producer, the render thread
\* is not left waiting for a frame.
WaitEnds == c_pc = "await" ~> c_pc # "await"

\* nativeStop returns: the render thread it joins leaves its loop.
StopCompletes == ~c_running ~> c_pc = "off"

\* Once app and compositor are up for good, the reconnect timer of the backend
\* gets the producer out of fallback every time.
ReconnectSucceeds == <>[]Up => []<>~p_fallback

\* "Stop the reconnect timer - we're back in business" (anland_try_reconnect):
\* a producer that reconnected gets the consumer's buffers, or finds out that
\* the consumer is gone and falls back again.
BackInBusiness ==
  <>[]Up => [](p_again /\ ~p_fallback => <>(p_bufs \/ p_fallback))
=============================================================================
