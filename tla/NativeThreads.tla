--------------------------- MODULE NativeThreads ---------------------------
(***************************************************************************)
(* The threads of the Android app around the native state g_state:         *)
(* jni/native_consumer.c as DisplayActivity.java and                       *)
(* DisplayOverlayService.java use it.                                      *)
(*                                                                         *)
(* The UI thread numbers its requests (displayGeneration) and starts a     *)
(* worker for each, which calls nativeStop and nativeStart.  A nativeStart *)
(* creates a render thread, known here by the number of its request.       *)
(* Another thread polls for window events.  A critical section without a   *)
(* wait is one step; the mutex is visible where it is held across a wait.  *)
(* The link itself is DisplayLink; here a connection succeeds or fails.    *)
(***************************************************************************)
EXTENDS Naturals, FiniteSets

CONSTANTS
  Paths,            \* socket paths
  NULL,
  MaxRequests       \* bound: requests of the UI thread

ASSUME PathsAssumption == NULL \notin Paths /\ Paths # {}
ASSUME MaxRequestsAssumption == MaxRequests \in Nat

Requests == 1..MaxRequests

VARIABLES
  displayGeneration,
  surfaceReady,
  request,          \* request -> what it asks for
  worker,           \* request -> where its worker is
  call,             \* request -> the native function its worker is in
  joins,            \* request -> the thread it passed to pthread_join
  polling,          \* the poller is in poll_window_event, with g_state.lock
  socket_path, running, need_reconnect,
  ctx,              \* NULL, or the path the context was made for
  window,           \* 0, or the request whose surface it is
  render_thread,
  render,           \* render thread -> where it is
  copied,           \* render thread -> the path do_connect copied
  woken,            \* refresh_done_efd of the context is readable
  overlapped,       \* history: a call came in while another one joined
  overtaken,        \* history: a request came between a worker's check and its call
  unwoken,          \* history: a call woke a thread that was in do_connect
  cut               \* history: whose context or window nativeStart or nativeStop freed

uiVars == <<displayGeneration, surfaceReady, request>>
workerVars == <<worker, call, joins>>
connVars == <<need_reconnect, ctx, woken>>
threadVars == <<window, render_thread, render, copied>>
historyVars == <<overlapped, overtaken, unwoken, cut>>
vars == <<uiVars, workerVars, polling, socket_path, running, connVars, threadVars,
          historyVars>>

\* Every variable keeps its type; the socket path in particular is never empty,
\* because nativeSetSocketPath puts the default in its place.
NativeTypeOK ==
  /\ displayGeneration \in 0..MaxRequests
  /\ {surfaceReady, polling, running, need_reconnect, woken, overlapped, overtaken, unwoken}
       \subseteq BOOLEAN
  /\ request \in [Requests -> {"none", "start", "restart", "stop"}]
  /\ worker \in [Requests -> {"none", "check", "call", "unlocked", "join", "relock",
                              "recheck", "done"}]
  /\ call \in [Requests -> {"stop", "start"}]
  /\ joins \in [Requests -> 0..MaxRequests]
  /\ socket_path \in Paths
  /\ ctx \in Paths \cup {NULL}
  /\ window \in 0..MaxRequests
  /\ render_thread \in 0..MaxRequests
  /\ render \in [Requests -> {"none", "top", "copy", "connect", "made", "frame", "await",
                              "post", "exited"}]
  /\ copied \in [Requests -> Paths]
  /\ cut \subseteq {"render", "poller"}

\* onCreate is over: the path is set, and there is no surface yet.
Init ==
  /\ displayGeneration = 0
  /\ surfaceReady = FALSE
  /\ request = [g \in Requests |-> "none"]
  /\ worker = [g \in Requests |-> "none"]
  /\ call = [g \in Requests |-> "stop"]
  /\ joins = [g \in Requests |-> 0]
  /\ polling = FALSE
  /\ socket_path \in Paths
  /\ running = FALSE
  /\ need_reconnect = TRUE
  /\ ctx = NULL
  /\ window = 0
  /\ render_thread = 0
  /\ render = [t \in Requests |-> "none"]
  /\ copied = [t \in Requests |-> socket_path]
  /\ woken = FALSE
  /\ overlapped = FALSE
  /\ overtaken = FALSE
  /\ unwoken = FALSE
  /\ cut = {}

Live(t) == render[t] \notin {"none", "exited"}

\* Between reading g_state.window, or g_state.ctx, and the last use of it
UsesWindow(t) == render[t] \in {"connect", "made", "await", "post"}
UsesContext(t) == render[t] \in {"made", "await"}

\* g_state.lock can be taken: nobody waits for anything with it but the poller.
MutexFree == ~polling

-----------------------------------------------------------------------------
(* The UI thread. *)

\* startDisplay, restartDisplay and stopDisplayAsync, if `wanted`
Ask(wanted, kind) ==
  /\ IF wanted
     THEN /\ displayGeneration < MaxRequests
          /\ displayGeneration' = displayGeneration + 1
          /\ request' = [request EXCEPT ![displayGeneration + 1] = kind]
          /\ worker' = [worker EXCEPT ![displayGeneration + 1] = "check"]
          /\ overtaken' = (overtaken \/ \E g \in Requests : worker[g] = "call")
     ELSE UNCHANGED <<displayGeneration, request, worker, overtaken>>
  /\ UNCHANGED <<call, joins, polling, running, ctx, woken, threadVars, overlapped,
                 unwoken, cut>>

surfaceChanged ==
  /\ surfaceReady' = TRUE
  /\ Ask(TRUE, "restart")
  /\ UNCHANGED <<socket_path, need_reconnect>>

surfaceDestroyed ==
  /\ surfaceReady
  /\ surfaceReady' = FALSE
  /\ Ask(TRUE, "stop")
  /\ UNCHANGED <<socket_path, need_reconnect>>

\* Mutation: the empty path is not replaced by the default.
nativeSetSocketPathEmpty(p) ==
  /\ MutexFree
  /\ socket_path' \in {p, NULL}
  /\ need_reconnect' = TRUE

nativeSetSocketPath(p) ==
  /\ MutexFree
  /\ socket_path' = p
  /\ need_reconnect' = TRUE

\* Mutation: the render thread is left to notice need_reconnect.
onNewIntentPathOnly ==
  \E p \in Paths \ {socket_path} :
    /\ nativeSetSocketPath(p)
    /\ Ask(FALSE, "restart")
    /\ UNCHANGED surfaceReady

\* An intent with another path; one with the same path changes nothing here.
onNewIntent ==
  \E p \in Paths \ {socket_path} :
    /\ nativeSetSocketPath(p)
    /\ Ask(surfaceReady, "restart")
    /\ UNCHANGED surfaceReady

onResume ==
  /\ nativeSetSocketPath(socket_path)
  /\ Ask(surfaceReady, "start")
  /\ UNCHANGED surfaceReady

\* onPause, unless the display is kept in the background; onDestroy
onPause ==
  /\ Ask(TRUE, "stop")
  /\ UNCHANGED <<surfaceReady, socket_path, need_reconnect>>

-----------------------------------------------------------------------------
(* The workers. *)

Goto(g, where) == worker' = [worker EXCEPT ![g] = where]

\* The look at displayGeneration when the worker starts
Check(g) ==
  /\ worker[g] = "check"
  /\ Goto(g, IF g = displayGeneration THEN "call" ELSE "done")
  /\ call' = [call EXCEPT ![g] = IF request[g] = "start" THEN "start" ELSE "stop"]
  /\ UNCHANGED <<uiVars, joins, polling, socket_path, running, connVars, threadVars,
                 historyVars>>

\* Mutation: the generation is not looked at again.
RecheckNever(g) ==
  /\ worker[g] = "recheck"
  /\ Goto(g, "call")
  /\ call' = [call EXCEPT ![g] = "start"]
  /\ UNCHANGED <<uiVars, joins, polling, socket_path, running, connVars, threadVars,
                 historyVars>>

\* The look at displayGeneration between nativeStop and nativeStart
Recheck(g) ==
  /\ worker[g] = "recheck"
  /\ Goto(g, IF g = displayGeneration THEN "call" ELSE "done")
  /\ call' = [call EXCEPT ![g] = "start"]
  /\ UNCHANGED <<uiVars, joins, polling, socket_path, running, connVars, threadVars,
                 historyVars>>

\* Everything after the join, under the mutex: the context and the window are
\* freed, and nativeStart makes a window and a thread for its own surface.  It
\* fails only for a surface that is gone.
FreeAll(g) ==
  /\ cut' = cut \cup {x \in {"render"} : \E t \in Requests :
                        \/ ctx # NULL /\ UsesContext(t)
                        \/ window # 0 /\ UsesWindow(t)}
                \cup {x \in {"poller"} : ctx # NULL /\ polling}
  /\ ctx' = NULL
  /\ woken' = FALSE
  /\ Goto(g, IF call[g] = "stop" /\ request[g] = "restart" THEN "recheck" ELSE "done")
  /\ \/ /\ call[g] = "start"
        /\ window' = g
        /\ running' = TRUE
        /\ need_reconnect' = TRUE
        /\ render_thread' = g
        /\ render' = [render EXCEPT ![g] = "top"]
     \/ /\ call[g] = "start" => ~surfaceReady
        /\ window' = 0
        /\ UNCHANGED <<running, need_reconnect, render_thread, render>>

\* Mutation: the render thread is not woken.
wake_display_consumerNot == UNCHANGED woken

\* wake_display_consumer, with the context there is
wake_display_consumer == woken' = (woken \/ ctx # NULL)

\* nativeStart or nativeStop takes the mutex.  A display that runs is told to
\* stop, and the mutex given up.
Enter(g) ==
  /\ worker[g] = "call"
  /\ MutexFree
  /\ overlapped' = (overlapped \/ \E h \in Requests :
                                    worker[h] \in {"unlocked", "join", "relock"})
  /\ IF running
     THEN /\ running' = FALSE
          /\ wake_display_consumer
          /\ unwoken' = (unwoken \/ \E t \in Requests :
                                      render[t] \in {"copy", "connect", "made"})
          /\ Goto(g, "unlocked")
          /\ UNCHANGED <<need_reconnect, ctx, window, render_thread, render, cut>>
     ELSE /\ FreeAll(g)
          /\ UNCHANGED unwoken
  /\ UNCHANGED <<uiVars, call, joins, polling, socket_path, copied, overtaken>>

\* The argument of pthread_join is read after the unlock.
CallJoin(g) ==
  /\ worker[g] = "unlocked"
  /\ joins' = [joins EXCEPT ![g] = render_thread]
  /\ Goto(g, "join")
  /\ UNCHANGED <<uiVars, call, polling, socket_path, running, connVars, threadVars,
                 historyVars>>

\* Mutation: the render thread is not waited for.
JoinNot(g) ==
  /\ worker[g] = "join"
  /\ Goto(g, "relock")
  /\ UNCHANGED <<uiVars, call, joins, polling, socket_path, running, connVars, threadVars,
                 historyVars>>

Join(g) ==
  /\ worker[g] = "join"
  /\ render[joins[g]] = "exited"
  /\ joins' = [joins EXCEPT ![g] = 0]
  /\ Goto(g, "relock")
  /\ UNCHANGED <<uiVars, call, polling, socket_path, running, connVars, threadVars,
                 historyVars>>

\* Mutation: the mutex is not taken again.
RelockNot(g) ==
  /\ worker[g] = "relock"
  /\ FreeAll(g)
  /\ UNCHANGED <<uiVars, call, joins, polling, socket_path, copied, overlapped,
                 overtaken, unwoken>>

Relock(g) ==
  /\ worker[g] = "relock"
  /\ MutexFree
  /\ FreeAll(g)
  /\ UNCHANGED <<uiVars, call, joins, polling, socket_path, copied, overlapped,
                 overtaken, unwoken>>

-----------------------------------------------------------------------------
(* The render threads. *)

ThreadGoto(t, where) == render' = [render EXCEPT ![t] = where]

OthersUnchanged ==
  UNCHANGED <<uiVars, workerVars, polling, socket_path, running, window, render_thread,
              historyVars>>

\* The test of the loop, and whether there is a connection to make or to use
LoopTop(t) ==
  /\ render[t] = "top"
  /\ ThreadGoto(t, IF ~running THEN "exited"
                   ELSE IF need_reconnect THEN "copy" ELSE "frame")
  /\ UNCHANGED <<connVars, copied>>
  /\ OthersUnchanged

\* do_connect copies the path under the mutex.
CopyPath(t) ==
  /\ render[t] = "copy"
  /\ MutexFree
  /\ copied' = [copied EXCEPT ![t] = socket_path]
  /\ ThreadGoto(t, "connect")
  /\ UNCHANGED connVars
  /\ OthersUnchanged

\* Without the mutex it drops the old context and makes another, or fails.
Connect(t) ==
  /\ render[t] = "connect"
  /\ woken' = FALSE
  /\ \/ ctx' = copied[t] /\ ThreadGoto(t, "made")
     \/ ctx' = NULL /\ ThreadGoto(t, "top")
  /\ UNCHANGED <<need_reconnect, copied>>
  /\ OthersUnchanged

\* Screen and buffers were sent; the request to reconnect is taken as done.
Connected(t) ==
  /\ render[t] = "made"
  /\ need_reconnect' = FALSE
  /\ ThreadGoto(t, "frame")
  /\ UNCHANGED <<ctx, woken, copied>>
  /\ OthersUnchanged

\* A buffer of the window is locked and announced; without a context or a
\* buffer the loop starts over, and in fallback there is nothing to wait for.
Frame(t) ==
  /\ render[t] = "frame"
  /\ \/ ctx # NULL /\ window # 0 /\ ThreadGoto(t, "await")
     \/ ctx # NULL /\ window # 0 /\ ThreadGoto(t, "post")
     \/ ThreadGoto(t, "top")
  /\ UNCHANGED <<connVars, copied>>
  /\ OthersUnchanged

\* refresh_done: the eventfd was written, by the producer or by a wake
RefreshDone(t) ==
  /\ render[t] = "await"
  /\ woken
  /\ woken' = FALSE
  /\ ThreadGoto(t, "post")
  /\ UNCHANGED <<need_reconnect, ctx, copied>>
  /\ OthersUnchanged

\* unlockAndPost, and the loop once more, or its end
Post(t) ==
  /\ render[t] = "post"
  /\ ThreadGoto(t, IF running THEN "top" ELSE "exited")
  /\ UNCHANGED <<connVars, copied>>
  /\ OthersUnchanged

-----------------------------------------------------------------------------
(* The rest of the world. *)

Quiet == UNCHANGED <<uiVars, workerVars, socket_path, running, window, render_thread,
                     copied, historyVars>>

\* The producer hands the frame back.
Paint ==
  /\ \E t \in Requests : render[t] = "await"
  /\ woken' = TRUE
  /\ UNCHANGED <<polling, need_reconnect, ctx, render>>
  /\ Quiet

\* enter_fallback and on_fallback; a thread that waits for its frame is sent away.
LinkFails ==
  /\ ctx # NULL
  /\ need_reconnect' = TRUE
  /\ render' = [t \in Requests |-> IF render[t] = "await" THEN "top" ELSE render[t]]
  /\ UNCHANGED <<polling, ctx, woken>>
  /\ Quiet

\* nativePollWindowEvent
PollBegins ==
  /\ MutexFree
  /\ ctx # NULL
  /\ polling' = TRUE
  /\ UNCHANGED <<connVars, render>>
  /\ Quiet

PollEnds ==
  /\ polling
  /\ polling' = FALSE
  /\ UNCHANGED <<connVars, render>>
  /\ Quiet

-----------------------------------------------------------------------------
Worker(g) == Check(g) \/ Recheck(g) \/ Enter(g) \/ CallJoin(g) \/ Join(g) \/ Relock(g)

RenderThread(t) ==
  \/ LoopTop(t) \/ CopyPath(t) \/ Connect(t) \/ Connected(t)
  \/ Frame(t) \/ RefreshDone(t) \/ Post(t)

UserInterface ==
  surfaceChanged \/ surfaceDestroyed \/ onNewIntent \/ onResume \/ onPause

Next ==
  \/ UserInterface
  \/ \E g \in Requests : Worker(g) \/ RenderThread(g)
  \/ Paint \/ LinkFails \/ PollBegins \/ PollEnds

Spec == Init /\ [][Next]_vars

-----------------------------------------------------------------------------
(* Properties.  The calls of the workers are not serialised by the code;   *)
(* the conditions name what may go wrong only when they overlap.           *)

\* As long as no call comes in while another waits for the render thread,
\* there is one render thread at most, it is the one that g_state names, and
\* neither nativeStart nor nativeStop frees a context or a window it is using.
OneRenderThread ==
  ~overlapped =>
    /\ \A t \in Requests : Live(t) => t = render_thread
    /\ running => Live(render_thread) /\ window = render_thread
    /\ "render" \notin cut

\* Whatever overlaps, nativeStart and nativeStop do not free the context under
\* a thread that polls for a window event.
PollerKeepsContext == "poller" \notin cut

AtRest == \A g \in Requests : worker[g] \in {"none", "done"}

\* When all workers are done the display is as the last request asked for it,
\* on the surface of that request, unless a call overlapped another or was
\* overtaken by a request after its worker had looked at the generation.
LastRequestWins ==
  AtRest /\ displayGeneration > 0 /\ ~overlapped /\ ~overtaken =>
    IF request[displayGeneration] = "stop"
    THEN ~running /\ window = 0 /\ ctx = NULL
    ELSE running /\ window = displayGeneration

\* A path that was set while do_connect worked on the one before is not
\* forgotten: a display at rest that has no reconnect ahead is connected, or
\* about to be, to the path that was set last.
PathTakesEffect ==
  AtRest /\ ~overlapped /\ ~overtaken /\ running /\ ~need_reconnect /\ ctx # NULL =>
    ctx = socket_path

\* No wakeup is lost: when a call waits for a thread and the thread for its
\* frame, the eventfd is readable, so that the thread goes on and ends without
\* any help of the producer.  The exception is a thread that was connecting
\* when it was woken, through the context it was about to replace.
JoinedThreadIsWoken ==
  ~overlapped /\ ~unwoken =>
    \A g, t \in Requests :
      worker[g] \in {"unlocked", "join"} /\ render[t] = "await" => woken
=============================================================================
