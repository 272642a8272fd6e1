------------------------ MODULE NativeThreadsProofs ------------------------
(***************************************************************************)
(* Proofs about NativeThreads: for any number of requests and any socket   *)
(* paths, what g_state.lock and pthread_join protect is protected as long  *)
(* as no call of nativeStart or nativeStop overlaps another, and the       *)
(* poller keeps its context in any case.                                   *)
(***************************************************************************)
EXTENDS NativeThreads, TLAPS

\* The type invariant with one conjunct per variable.
Typed ==
  /\ displayGeneration \in 0..MaxRequests
  /\ surfaceReady \in BOOLEAN /\ polling \in BOOLEAN /\ running \in BOOLEAN
  /\ need_reconnect \in BOOLEAN /\ woken \in BOOLEAN /\ overlapped \in BOOLEAN
  /\ overtaken \in BOOLEAN /\ unwoken \in BOOLEAN
  /\ request \in [Requests -> {"none", "start", "restart", "stop"}]
  /\ worker \in [Requests -> {"none", "check", "call", "unlocked", "join", "relock",
                              "recheck", "done"}]
  /\ call \in [Requests -> {"stop", "start"}]
  /\ joins \in [Requests -> 0..MaxRequests]
  /\ socket_path \in Paths
  /\ ctx \in Paths \cup {NULL}
  /\ window \in 0..MaxRequests
  /\ render_thread \in 0..MaxRequests
  /\ render \in [Requests -> {"none", "top", "copy", "connect", "made", "frame", "await",
                              "post", "exited"}]
  /\ copied \in [Requests -> Paths]
  /\ cut \subseteq {"render", "poller"}

\* A worker that is between the two critical sections of nativeStart or nativeStop
Busy(g) == worker[g] \in {"unlocked", "join", "relock"}

\* Requests are numbered without a gap, the last of them wants a display only while
\* there is a surface, and a worker calls what its request asks for.
Numbered ==
  /\ \A g \in Requests : g <= displayGeneration <=> worker[g] # "none"
  /\ \A g \in Requests : worker[g] # "none" => request[g] # "none"
  /\ running => displayGeneration > 0
  /\ displayGeneration > 0 /\ request[displayGeneration] # "stop" => surfaceReady
  /\ \A g \in Requests : worker[g] = "recheck" => request[g] = "restart"
  /\ \A g \in Requests : worker[g] = "call" \/ Busy(g) =>
       /\ request[g] = "start" => call[g] = "start"
       /\ request[g] = "stop" => call[g] = "stop"

\* Calls that do not overlap: a display that runs has one thread and nobody who
\* stops it; one that does not run has at most the thread that is being joined,
\* and no thread once the join is over.  The thread that uses the context has one.
Serial ==
  /\ \A g, h \in Requests : Busy(g) /\ Busy(h) => g = h
  /\ \A t \in Requests : Live(t) => t = render_thread
  /\ running => /\ render_thread \in Requests
                /\ Live(render_thread)
                /\ window = render_thread
                /\ \A g \in Requests : ~Busy(g)
  /\ ~running /\ (\A g \in Requests : ~Busy(g)) => \A t \in Requests : ~Live(t)
  /\ \A g \in Requests : worker[g] = "join" => joins[g] = render_thread
  /\ \A g \in Requests : worker[g] = "relock" => \A t \in Requests : ~Live(t)
  /\ \A t \in Requests : UsesContext(t) => ctx # NULL
  /\ "render" \notin cut

\* A thread that is being stopped makes no other context, and finds the eventfd
\* readable if it waits for a frame, or is about to.
Woken ==
  \A g, t \in Requests :
    worker[g] \in {"unlocked", "join"} =>
      /\ render[t] \notin {"copy", "connect", "made"}
      /\ render[t] \in {"frame", "await"} /\ ctx # NULL => woken

\* What the worker of the last request has brought about when it is done: no other
\* is on its way, the display is as asked for, and the thread knows no path but
\* the one that was set last.
Settled ==
  /\ \A g \in Requests : ~Busy(g)
  /\ IF request[displayGeneration] = "stop"
     THEN ~running /\ window = 0 /\ ctx = NULL
     ELSE running /\ window = displayGeneration
  /\ ctx # NULL => ctx = socket_path
  /\ \A t \in Requests : render[t] = "connect" => copied[t] = socket_path

\* Calls that are not overtaken either: only the last request calls, and when its
\* worker is done the display has settled.
Last ==
  /\ \A g \in Requests : worker[g] = "call" => g = displayGeneration
  /\ displayGeneration > 0 /\ worker[displayGeneration] = "done" => Settled

\* The inductive invariant.
NativeInv ==
  /\ NativeTypeOK
  /\ Numbered
  /\ PollerKeepsContext
  /\ ~overlapped => Serial
  /\ ~overlapped /\ ~unwoken => Woken
  /\ ~overlapped /\ ~overtaken => Last

-----------------------------------------------------------------------------
(* Types. *)

\* Typed says the same as NativeTypeOK.
LEMMA TypedIsTypeOK == Typed <=> NativeTypeOK
<1>1. ASSUME Typed
      PROVE  {surfaceReady, polling, running, need_reconnect, woken, overlapped, overtaken,
              unwoken} \subseteq BOOLEAN
  BY <1>1 DEF Typed
<1>2. Typed => NativeTypeOK
  BY <1>1 DEF Typed, NativeTypeOK
<1>3. NativeTypeOK => Typed
  BY Zenon DEF Typed, NativeTypeOK
<1> QED BY <1>2, <1>3

\* The same in the next state.
LEMMA TypedIsTypeOKNext == Typed' <=> NativeTypeOK'
BY TypedIsTypeOK, PTL

\* What Ask leaves alone, and what it does when the request is wanted: the next
\* number is given out, and its worker looks at the generation first.
Asked(kind) ==
  /\ displayGeneration < MaxRequests
  /\ displayGeneration' = displayGeneration + 1
  /\ request' = [request EXCEPT ![displayGeneration + 1] = kind]
  /\ worker' = [worker EXCEPT ![displayGeneration + 1] = "check"]
  /\ overtaken' = (overtaken \/ \E g \in Requests : worker[g] = "call")

\* A callback of the UI thread asks for something or leaves the workers alone; a
\* display is asked for with a surface only, the path changes with a surface
\* only when a display is asked for, and a surface goes only with a stop.
LEMMA UserInterfaceAsks ==
  ASSUME Typed, UserInterface
  PROVE  /\ UNCHANGED <<call, joins, polling, running, ctx, woken, threadVars, overlapped,
                        unwoken, cut>>
         /\ socket_path' \in Paths
         /\ need_reconnect' \in BOOLEAN
         /\ surfaceReady' \in BOOLEAN
         /\ \/ \E kind \in {"start", "restart"} : Asked(kind) /\ surfaceReady'
            \/ Asked("stop")
            \/ /\ UNCHANGED <<displayGeneration, request, worker, overtaken, surfaceReady>>
               /\ socket_path' # socket_path => ~surfaceReady
<1>1. CASE surfaceChanged
  BY <1>1 DEF surfaceChanged, Ask, Asked, Typed
<1>2. CASE surfaceDestroyed
  BY <1>2 DEF surfaceDestroyed, Ask, Asked, Typed
<1>3. CASE onNewIntent
  <2>1. PICK p \in Paths : nativeSetSocketPath(p) /\ Ask(surfaceReady, "restart")
                          /\ UNCHANGED surfaceReady
    BY <1>3 DEF onNewIntent
  <2> QED BY <2>1 DEF nativeSetSocketPath, Ask, Asked, Typed
<1>4. CASE onResume
  BY <1>4 DEF onResume, nativeSetSocketPath, Ask, Asked, Typed
<1>5. CASE onPause
  BY <1>5 DEF onPause, Ask, Asked, Typed
<1> QED BY <1>1, <1>2, <1>3, <1>4, <1>5 DEF UserInterface

\* Every callback of the UI thread keeps the types.
LEMMA UserInterfaceType == ASSUME Typed, UserInterface PROVE Typed'
<1> USE UserInterfaceAsks DEF threadVars
<1>1. ASSUME NEW kind \in {"start", "restart", "stop"}, Asked(kind)
      PROVE  /\ displayGeneration' \in 0..MaxRequests
             /\ request' \in [Requests -> {"none", "start", "restart", "stop"}]
             /\ worker' \in [Requests -> {"none", "check", "call", "unlocked", "join",
                                          "relock", "recheck", "done"}]
             /\ overtaken' \in BOOLEAN
  BY <1>1, MaxRequestsAssumption DEF Asked, Typed, Requests
<1>2. /\ displayGeneration' \in 0..MaxRequests
      /\ request' \in [Requests -> {"none", "start", "restart", "stop"}]
      /\ worker' \in [Requests -> {"none", "check", "call", "unlocked", "join",
                                   "relock", "recheck", "done"}]
      /\ overtaken' \in BOOLEAN
  BY <1>1 DEF Typed
<1> QED BY <1>2 DEF Typed

\* What nativeStart and nativeStop free and make has its type.
LEMMA FreeAllType ==
  ASSUME Typed, NEW g \in Requests, FreeAll(g)
  PROVE  /\ cut' \subseteq {"render", "poller"}
         /\ ctx' = NULL
         /\ woken' = FALSE
         /\ worker' \in [Requests -> {"none", "check", "call", "unlocked", "join",
                                      "relock", "recheck", "done"}]
         /\ window' \in 0..MaxRequests
         /\ running' \in BOOLEAN
         /\ need_reconnect' \in BOOLEAN
         /\ render_thread' \in 0..MaxRequests
         /\ render' \in [Requests -> {"none", "top", "copy", "connect", "made", "frame",
                                      "await", "post", "exited"}]
<1> USE MaxRequestsAssumption DEF FreeAll, Typed
<1>1. cut' \subseteq {"render", "poller"} /\ ctx' = NULL /\ woken' = FALSE
  OBVIOUS
<1>2. worker' \in [Requests -> {"none", "check", "call", "unlocked", "join", "relock",
                               "recheck", "done"}]
  BY DEF Goto
<1>3. CASE window' = g /\ running' = TRUE /\ need_reconnect' = TRUE /\ render_thread' = g
           /\ render' = [render EXCEPT ![g] = "top"]
  BY <1>1, <1>2, <1>3 DEF Requests
<1>4. CASE window' = 0 /\ UNCHANGED <<running, need_reconnect, render_thread, render>>
  BY <1>1, <1>2, <1>4
<1> QED BY <1>3, <1>4

\* Every step of a worker keeps the types.
LEMMA WorkerType == ASSUME Typed, NEW g \in Requests, Worker(g) PROVE Typed'
<1> USE DEF uiVars, connVars, threadVars, historyVars, Goto
<1>1. CASE Check(g) \/ Recheck(g)
  BY <1>1 DEF Check, Recheck, Typed
<1>2. CASE Enter(g)
  <2>1. CASE running
    <3>1. /\ overlapped' \in BOOLEAN /\ unwoken' \in BOOLEAN /\ woken' \in BOOLEAN
      BY <1>2, <2>1 DEF Enter, wake_display_consumer
    <3> QED BY <1>2, <2>1, <3>1 DEF Enter, Typed
  <2>2. CASE ~running
    <3>1. overlapped' \in BOOLEAN /\ FreeAll(g) /\ UNCHANGED unwoken
      BY <1>2, <2>2 DEF Enter
    <3> QED BY <1>2, <3>1, FreeAllType DEF Enter, Typed
  <2> QED BY <2>1, <2>2 DEF Typed
<1>3. CASE CallJoin(g)
  BY <1>3 DEF CallJoin, Typed
<1>4. CASE Join(g)
  BY <1>4, MaxRequestsAssumption DEF Join, Typed
<1>5. CASE Relock(g)
  BY <1>5, FreeAllType DEF Relock, Typed
<1> QED BY <1>1, <1>2, <1>3, <1>4, <1>5 DEF Worker

\* Every step of a render thread keeps the types.
LEMMA RenderType == ASSUME Typed, NEW t \in Requests, RenderThread(t) PROVE Typed'
<1> USE DEF uiVars, workerVars, connVars, historyVars, OthersUnchanged, ThreadGoto, Typed
<1>1. CASE LoopTop(t)
  BY <1>1 DEF LoopTop
<1>2. CASE CopyPath(t)
  BY <1>2 DEF CopyPath
<1>3. CASE Connect(t)
  <2>1. ctx' \in Paths \cup {NULL}
    BY <1>3 DEF Connect
  <2>2. render' \in [Requests -> {"none", "top", "copy", "connect", "made", "frame",
                                 "await", "post", "exited"}]
    BY <1>3 DEF Connect
  <2> QED BY <1>3, <2>1, <2>2 DEF Connect
<1>4. CASE Connected(t) \/ Frame(t)
  BY <1>4 DEF Connected, Frame
<1>5. CASE RefreshDone(t) \/ Post(t)
  BY <1>5 DEF RefreshDone, Post
<1> QED BY <1>1, <1>2, <1>3, <1>4, <1>5 DEF RenderThread

\* The producer, the link and the poller
World == Paint \/ LinkFails \/ PollBegins \/ PollEnds

\* They keep the types too.
LEMMA WorldType == ASSUME Typed, World PROVE Typed'
<1> USE DEF World, Quiet, uiVars, workerVars, connVars, historyVars, Typed
<1>1. CASE LinkFails
  BY <1>1 DEF LinkFails
<1>2. CASE Paint \/ PollBegins \/ PollEnds
  BY <1>2 DEF Paint, PollBegins, PollEnds
<1> QED BY <1>1, <1>2

-----------------------------------------------------------------------------
(* The requests and their workers. *)

\* A new request has the next number, for which there was no worker.
LEMMA NumberedUI == ASSUME Typed, Numbered, UserInterface PROVE Numbered'
<1>1. ASSUME NEW kind \in {"start", "restart", "stop"}, Asked(kind),
             kind # "stop" => surfaceReady'
      PROVE  Numbered'
  <2> DEFINE n == displayGeneration + 1
  <2>1. n \in Requests /\ displayGeneration' = n
    BY <1>1, MaxRequestsAssumption DEF Asked, Typed, Requests
  <2>2. /\ worker'[n] = "check" /\ request'[n] = kind
        /\ \A g \in Requests : g # n => worker'[g] = worker[g] /\ request'[g] = request[g]
    BY <1>1, <2>1 DEF Asked, Typed
  <2>3. UNCHANGED <<running, call>>
    BY UserInterfaceAsks
  <2>4. \A g \in Requests : g <= displayGeneration' <=> worker'[g] # "none"
    BY <2>1, <2>2 DEF Numbered, Typed, Requests
  <2>5. displayGeneration' > 0
    BY <2>1 DEF Requests
  <2> HIDE DEF n
  <2> QED BY <1>1, <2>1, <2>2, <2>3, <2>4, <2>5 DEF Numbered, Busy
<1>2. ASSUME UNCHANGED <<displayGeneration, request, worker, surfaceReady>>
      PROVE  Numbered'
  BY <1>2, UserInterfaceAsks DEF Numbered, Busy
<1> QED BY <1>1, <1>2, UserInterfaceAsks

\* A worker goes on with what its request asks for.
LEMMA NumberedWorker ==
  ASSUME Typed, Numbered, NEW g \in Requests, Worker(g)
  PROVE  Numbered'
<1> USE DEF uiVars, Goto
<1>1. ASSUME NEW w \in {"done", "call", "unlocked", "join", "relock", "recheck"},
             worker' = [worker EXCEPT ![g] = w],
             worker[g] # "none",
             UNCHANGED uiVars,
             running' => running \/ displayGeneration > 0,
             \A h \in Requests : h # g => call'[h] = call[h],
             w = "recheck" => request[g] = "restart",
             w \in {"call", "unlocked", "join", "relock"} =>
               /\ request[g] = "start" => call'[g] = "start"
               /\ request[g] = "stop" => call'[g] = "stop"
      PROVE  Numbered'
  <2>1. worker'[g] = w /\ \A h \in Requests : h # g => worker'[h] = worker[h]
    BY <1>1 DEF Typed
  <2> QED BY <1>1, <2>1 DEF Numbered, Busy
<1>2. CASE Check(g)
  <2>1. call'[g] = (IF request[g] = "start" THEN "start" ELSE "stop")
    BY <1>2 DEF Check, Typed
  <2> QED BY <1>1, <1>2, <2>1 DEF Check, Typed
<1>3. CASE Recheck(g)
  BY <1>1, <1>3 DEF Recheck, Typed, Numbered
<1>4. ASSUME worker[g] # "none" PROVE displayGeneration > 0
  BY <1>4 DEF Numbered, Typed, Requests
<1>5. ASSUME FreeAll(g), UNCHANGED <<uiVars, call>>, worker[g] # "none"
      PROVE  Numbered'
  <2>1. PICK w \in {"recheck", "done"} :
          /\ worker' = [worker EXCEPT ![g] = w]
          /\ w = "recheck" => request[g] = "restart"
    BY <1>5 DEF FreeAll
  <2> QED BY <1>1, <1>4, <1>5, <2>1
<1>6. CASE Enter(g)
  <2>1. CASE running
    <3>1. /\ worker' = [worker EXCEPT ![g] = "unlocked"] /\ worker[g] = "call"
          /\ UNCHANGED <<uiVars, call>> /\ running' = FALSE
      BY <1>6, <2>1 DEF Enter
    <3> QED BY <1>1, <3>1 DEF Numbered
  <2>2. CASE ~running
    BY <1>5, <1>6, <2>2 DEF Enter
  <2> QED BY <2>1, <2>2
<1>7. CASE CallJoin(g)
  BY <1>1, <1>7 DEF CallJoin, Numbered, Busy
<1>8. CASE Join(g)
  BY <1>1, <1>8 DEF Join, Numbered, Busy
<1>9. CASE Relock(g)
  BY <1>5, <1>9 DEF Relock
<1> QED BY <1>2, <1>3, <1>6, <1>7, <1>8, <1>9 DEF Worker

\* The render threads, the producer, the link and the poller touch neither the
\* requests nor the workers.
LEMMA RenderLeaves ==
  ASSUME NEW t \in Requests, RenderThread(t)
  PROVE  UNCHANGED <<uiVars, workerVars, polling, socket_path, running, window,
                     render_thread, historyVars>>
BY DEF RenderThread, LoopTop, CopyPath, Connect, Connected, Frame, RefreshDone, Post,
       OthersUnchanged

\* The same for the rest of the world.
LEMMA WorldLeaves ==
  ASSUME World
  PROVE  UNCHANGED <<uiVars, workerVars, socket_path, running, window, render_thread,
                     copied, historyVars, ctx>>
BY DEF World, Paint, LinkFails, PollBegins, PollEnds, Quiet, connVars

\* So the numbering stays as it is.
LEMMA NumberedStays ==
  ASSUME Numbered, UNCHANGED <<uiVars, workerVars, running>>
  PROVE  Numbered'
BY DEF Numbered, Busy, uiVars, workerVars

-----------------------------------------------------------------------------
(* The poller. *)

\* Both critical sections that free the context hold the mutex, and so does the
\* poller while it is in poll_window_event.
LEMMA StepPoller == ASSUME PollerKeepsContext, Next PROVE PollerKeepsContext'
<1> USE DEF PollerKeepsContext
<1>1. CASE UserInterface
  BY <1>1 DEF UserInterface, surfaceChanged, surfaceDestroyed, onNewIntent, onResume,
              onPause, Ask
<1>2. ASSUME NEW g \in Requests, Worker(g) PROVE PollerKeepsContext'
  BY <1>2 DEF Worker, Check, Recheck, Enter, CallJoin, Join, Relock, FreeAll, MutexFree,
              historyVars
<1>3. ASSUME NEW t \in Requests, RenderThread(t) PROVE PollerKeepsContext'
  BY <1>3, RenderLeaves DEF historyVars
<1>4. CASE World
  BY <1>4, WorldLeaves DEF historyVars
<1> QED BY <1>1, <1>2, <1>3, <1>4 DEF Next, World

-----------------------------------------------------------------------------
(* One render thread. *)

\* What nativeStart and nativeStop do when no render thread is left: nothing is
\* cut, and there is the new thread and its window, or neither.
LEMMA FreeAllEffect ==
  ASSUME Typed, NEW g \in Requests, FreeAll(g), \A t \in Requests : ~Live(t)
  PROVE  /\ "render" \in cut' => "render" \in cut
         /\ ctx' = NULL
         /\ \A h \in Requests : h # g => worker'[h] = worker[h]
         /\ worker'[g] = IF call[g] = "stop" /\ request[g] = "restart"
                         THEN "recheck" ELSE "done"
         /\ \A t \in Requests : t # g => ~Live(t)'
         /\ \A t \in Requests : ~UsesContext(t)' /\ render'[t] # "connect"
         /\ \/ /\ call[g] = "start"
               /\ running' /\ render_thread' = g /\ window' = g /\ Live(g)'
            \/ /\ call[g] = "start" => ~surfaceReady
               /\ running' = running /\ window' = 0 /\ ~Live(g)'
<1>1. "render" \in cut' => "render" \in cut
  BY DEF FreeAll, Live, UsesContext, UsesWindow
<1>2. /\ ctx' = NULL
      /\ \A h \in Requests : h # g => worker'[h] = worker[h]
      /\ worker'[g] = IF call[g] = "stop" /\ request[g] = "restart"
                      THEN "recheck" ELSE "done"
  BY DEF FreeAll, Goto, Typed
<1>3. CASE /\ call[g] = "start" /\ window' = g /\ running' = TRUE /\ render_thread' = g
           /\ render' = [render EXCEPT ![g] = "top"]
  BY <1>1, <1>2, <1>3 DEF Live, UsesContext, Typed
<1>4. CASE /\ call[g] = "start" => ~surfaceReady
           /\ window' = 0 /\ UNCHANGED <<running, need_reconnect, render_thread, render>>
  BY <1>1, <1>2, <1>4 DEF Live, UsesContext, Typed
<1> QED BY <1>3, <1>4 DEF FreeAll

\* A callback of the UI thread makes no worker busy and leaves none.
LEMMA UserInterfaceBusy ==
  ASSUME Typed, Numbered, UserInterface
  PROVE  \A g \in Requests :
           worker'[g] = worker[g] \/ (worker[g] = "none" /\ worker'[g] = "check")
<1>1. ASSUME NEW kind, Asked(kind), NEW g \in Requests
      PROVE  worker'[g] = worker[g] \/ (worker[g] = "none" /\ worker'[g] = "check")
  <2>1. ~(displayGeneration + 1 <= displayGeneration)
    BY DEF Typed
  <2>2. g = displayGeneration + 1 => worker[g] = "none"
    BY <2>1 DEF Numbered
  <2> QED BY <1>1, <2>2 DEF Asked, Typed
<1> QED BY <1>1, UserInterfaceAsks

\* The UI thread leaves the calls and the threads alone.
LEMMA SerialUI == ASSUME Typed, Numbered, Serial, UserInterface PROVE Serial'
<1>1. \A g \in Requests : Busy(g)' <=> Busy(g)
  BY UserInterfaceBusy DEF Busy
<1>2. \A g \in Requests : worker'[g] \in {"join", "relock"} => worker'[g] = worker[g]
  BY UserInterfaceBusy
<1>3. UNCHANGED <<joins, running, ctx, window, render_thread, render, cut>>
  BY UserInterfaceAsks DEF threadVars
<1> HIDE DEF Busy
<1> QED BY <1>1, <1>2, <1>3 DEF Serial, Live, UsesContext

\* The end of a call, with no render thread and no other call.
LEMMA SerialFree ==
  ASSUME Typed, Serial, NEW g \in Requests, FreeAll(g), ~running,
         \A t \in Requests : ~Live(t), \A h \in Requests : h # g => ~Busy(h),
         UNCHANGED joins
  PROVE  Serial'
<1>1. \A h \in Requests : ~Busy(h)' /\ worker'[h] \notin {"join", "relock"}
  BY FreeAllEffect DEF Busy
<1>2. CASE running' /\ render_thread' = g /\ window' = g /\ Live(g)'
  BY <1>1, <1>2, FreeAllEffect DEF Serial
<1>3. CASE running' = running /\ window' = 0 /\ ~Live(g)'
  BY <1>1, <1>3, FreeAllEffect DEF Serial
<1> QED BY <1>2, <1>3, FreeAllEffect

\* A worker keeps to the protocol, as long as its call overlaps no other.
LEMMA SerialWorker ==
  ASSUME Typed, Numbered, NEW g \in Requests, Worker(g), ~overlapped', ~overlapped => Serial
  PROVE  Serial'
<1>0. Serial
  BY DEF Worker, Check, Recheck, Enter, CallJoin, Join, Relock, historyVars, Typed
<1> USE <1>0
<1>1. CASE Check(g) \/ Recheck(g)
  <2>1. /\ worker'[g] \in {"call", "done"} /\ ~Busy(g)
        /\ \A h \in Requests : h # g => worker'[h] = worker[h]
    BY <1>1 DEF Check, Recheck, Goto, Busy, Typed
  <2>2. UNCHANGED <<joins, running, ctx, window, render_thread, render, cut>>
    BY <1>1 DEF Check, Recheck, connVars, threadVars, historyVars
  <2>3. \A h \in Requests : Busy(h)' <=> Busy(h)
    BY <2>1 DEF Busy
  <2> QED BY <2>1, <2>2, <2>3 DEF Serial, Live, UsesContext
<1>2. CASE Enter(g)
  <2>1. \A h \in Requests : ~Busy(h)
    BY <1>2 DEF Enter, Busy
  <2>2. CASE running
    <3>1. /\ worker'[g] = "unlocked" /\ running' = FALSE
          /\ \A h \in Requests : h # g => worker'[h] = worker[h]
          /\ UNCHANGED <<joins, ctx, window, render_thread, render, cut>>
      BY <1>2, <2>2 DEF Enter, Goto, Typed
    <3>2. \A h \in Requests : Busy(h)' <=> h = g
      BY <2>1, <3>1 DEF Busy
    <3> QED BY <2>1, <3>1, <3>2 DEF Serial, Live, UsesContext, Busy
  <2>3. CASE ~running
    BY <1>2, <2>1, <2>3, SerialFree DEF Enter, Serial
  <2> QED BY <2>2, <2>3
<1>3. CASE CallJoin(g)
  <2>1. /\ worker'[g] = "join" /\ worker[g] = "unlocked" /\ joins'[g] = render_thread
        /\ \A h \in Requests : h # g => worker'[h] = worker[h] /\ joins'[h] = joins[h]
        /\ UNCHANGED <<running, ctx, window, render_thread, render, cut>>
    BY <1>3 DEF CallJoin, Goto, connVars, threadVars, historyVars, Typed
  <2>2. \A h \in Requests : Busy(h)' <=> Busy(h)
    BY <2>1 DEF Busy
  <2> QED BY <2>1, <2>2 DEF Serial, Live, UsesContext
<1>4. CASE Join(g)
  <2>1. /\ worker'[g] = "relock" /\ worker[g] = "join" /\ render[joins[g]] = "exited"
        /\ \A h \in Requests : h # g => worker'[h] = worker[h] /\ joins'[h] = joins[h]
        /\ UNCHANGED <<running, ctx, window, render_thread, render, cut>>
    BY <1>4 DEF Join, Goto, connVars, threadVars, historyVars, Typed
  <2>2. \A h \in Requests : Busy(h)' <=> Busy(h)
    BY <2>1 DEF Busy
  <2>3. \A t \in Requests : ~Live(t)
    BY <2>1 DEF Serial, Live
  <2>4. \A h \in Requests : Busy(h) => h = g
    BY <2>1 DEF Serial, Busy
  <2> QED BY <2>1, <2>2, <2>3, <2>4 DEF Serial, Live, UsesContext, Busy
<1>5. CASE Relock(g)
  <2>1. worker[g] = "relock" /\ FreeAll(g) /\ UNCHANGED joins
    BY <1>5 DEF Relock
  <2>2. Busy(g)
    BY <2>1 DEF Busy
  <2>3. ~running /\ (\A t \in Requests : ~Live(t)) /\ \A h \in Requests : h # g => ~Busy(h)
    BY <2>1, <2>2 DEF Serial, Typed
  <2> QED BY <2>1, <2>3, SerialFree
<1> QED BY <1>1, <1>2, <1>3, <1>4, <1>5 DEF Worker

\* Where a step of a render thread takes it.
LEMMA RenderMoves ==
  ASSUME Typed, NEW t \in Requests, RenderThread(t)
  PROVE  /\ Live(t)
         /\ \A u \in Requests : u # t => render'[u] = render[u] /\ copied'[u] = copied[u]
         /\ running => Live(t)'
         /\ UsesContext(t)' => ctx' # NULL
         /\ render[t] # "connect" => ctx' = ctx
         /\ render[t] = "connect" => ctx' \in {copied[t], NULL}
         /\ render'[t] = "connect" => copied'[t] = socket_path
         /\ render[t] \notin {"copy", "connect", "made"} =>
              \/ render'[t] = "post"
              \/ woken' = woken /\ \/ render'[t] \in {"top", "exited"}
                                   \/ render'[t] = "copy" /\ running
                                   \/ render'[t] = "frame" /\ running
                                   \/ render'[t] = "await" /\ render[t] = "frame"
<1> USE DEF ThreadGoto, Live, UsesContext, connVars, Typed
<1>1. CASE LoopTop(t)
  <2>1. /\ render[t] = "top" /\ UNCHANGED <<connVars, copied>>
        /\ \E w \in {"exited", "copy", "frame"} :
             render' = [render EXCEPT ![t] = w] /\ (w = "exited" <=> ~running)
    BY <1>1 DEF LoopTop
  <2> QED BY <2>1
<1>2. CASE CopyPath(t)
  BY <1>2 DEF CopyPath
<1>3. CASE Connect(t)
  <2>1. copied[t] # NULL
    BY PathsAssumption
  <2> QED BY <1>3, <2>1 DEF Connect
<1>4. CASE Connected(t)
  BY <1>4 DEF Connected
<1>5. CASE Frame(t)
  BY <1>5 DEF Frame
<1>6. CASE RefreshDone(t)
  BY <1>6 DEF RefreshDone
<1>7. CASE Post(t)
  BY <1>7 DEF Post
<1> QED BY <1>1, <1>2, <1>3, <1>4, <1>5, <1>6, <1>7 DEF RenderThread

\* The one render thread stays the one, and runs as long as the display does.
LEMMA SerialRender ==
  ASSUME Typed, Serial, NEW t \in Requests, RenderThread(t)
  PROVE  Serial'
<1>1. t = render_thread /\ \A u \in Requests : u # t => ~Live(u)
  BY RenderMoves DEF Serial
<1>2. UNCHANGED <<worker, joins, running, window, render_thread, cut>>
  BY RenderLeaves DEF workerVars, historyVars
<1>3. \A u \in Requests : u # t => ~Live(u)' /\ ~UsesContext(u)'
  BY <1>1, RenderMoves DEF Live, UsesContext
<1>4. \A g \in Requests : Busy(g)' <=> Busy(g)
  BY <1>2 DEF Busy
<1>5. Live(t) /\ (running => Live(t)') /\ (UsesContext(t)' => ctx' # NULL)
  BY RenderMoves
<1>6. \A g \in Requests : worker[g] # "relock"
  BY <1>5 DEF Serial
<1>7. running \/ \E g \in Requests : Busy(g)
  BY <1>5 DEF Serial
<1> QED BY <1>1, <1>2, <1>3, <1>4, <1>5, <1>6, <1>7 DEF Serial

\* A step of the world sends a thread that waits for its frame back to the top of
\* its loop, and moves no other.
LEMMA WorldMoves ==
  ASSUME Typed, World
  PROVE  /\ woken => woken'
         /\ \A t \in Requests :
              render'[t] = render[t] \/ (render[t] = "await" /\ render'[t] = "top")
BY DEF World, Paint, LinkFails, PollBegins, PollEnds, connVars, Typed

\* The world around the app keeps the protocol.
LEMMA SerialWorld == ASSUME Typed, Serial, World PROVE Serial'
<1>1. \A t \in Requests : (Live(t)' <=> Live(t)) /\ (UsesContext(t)' => UsesContext(t))
  BY WorldMoves DEF Live, UsesContext
<1>2. UNCHANGED <<worker, joins, running, window, render_thread, ctx, cut>>
  BY WorldLeaves DEF workerVars, historyVars
<1>3. \A g \in Requests : Busy(g)' <=> Busy(g)
  BY <1>2 DEF Busy
<1> QED BY <1>1, <1>2, <1>3 DEF Serial

-----------------------------------------------------------------------------
(* No lost wakeup. *)

\* Unless the thread was connecting, the eventfd is written when the display is
\* told to stop, and stays readable until the thread has left its wait.
LEMMA WokenWorker ==
  ASSUME Typed, Serial', NEW g \in Requests, Worker(g), ~overlapped', ~unwoken',
         ~overlapped => Serial, ~overlapped /\ ~unwoken => Woken
  PROVE  Woken'
<1>0. Serial /\ Woken
  BY DEF Worker, Check, Recheck, Enter, CallJoin, Join, Relock, historyVars, Typed
<1> USE <1>0
<1>1. CASE Enter(g) /\ running
  <2>1. /\ \A h \in Requests : h # g => worker'[h] \notin {"unlocked", "join"}
        /\ \A t \in Requests : render[t] \notin {"copy", "connect", "made"}
        /\ woken' = (woken \/ ctx # NULL)
        /\ UNCHANGED <<render, ctx>>
    BY <1>1 DEF Enter, wake_display_consumer, Goto, Typed
  <2> QED BY <2>1 DEF Woken
<1>2. ASSUME FreeAll(g), \A h \in Requests : h # g => ~Busy(h) PROVE Woken'
  <2>1. \A h \in Requests : worker'[h] \notin {"unlocked", "join"}
    BY <1>2 DEF FreeAll, Goto, Busy, Typed
  <2> QED BY <2>1 DEF Woken
<1>3. CASE Enter(g) /\ ~running
  BY <1>2, <1>3 DEF Enter, Busy
<1>4. CASE Relock(g)
  BY <1>2, <1>4 DEF Relock, Serial, Busy
<1>5. CASE Check(g) \/ Recheck(g) \/ CallJoin(g) \/ Join(g)
  <2>1. /\ UNCHANGED <<render, ctx, woken>>
        /\ \A h \in Requests : worker'[h] \in {"unlocked", "join"} =>
             worker[h] \in {"unlocked", "join"}
    BY <1>5 DEF Check, Recheck, CallJoin, Join, Goto, connVars, threadVars, Typed
  <2> QED BY <2>1 DEF Woken
<1> QED BY <1>1, <1>3, <1>4, <1>5 DEF Worker

\* A thread that is being stopped goes on to its end.
LEMMA WokenRender ==
  ASSUME Typed, Serial, Woken, NEW t \in Requests, RenderThread(t)
  PROVE  Woken'
<1> SUFFICES ASSUME NEW g \in Requests, NEW u \in Requests, worker'[g] \in {"unlocked", "join"}
             PROVE  /\ render'[u] \notin {"copy", "connect", "made"}
                    /\ render'[u] \in {"frame", "await"} /\ ctx' # NULL => woken'
  BY DEF Woken
<1>1. worker[g] \in {"unlocked", "join"} /\ UNCHANGED running
  BY RenderLeaves DEF workerVars
<1>2. ~running
  BY <1>1 DEF Serial, Busy
<1>3. CASE u # t
  <2>1. ~Live(u)
    BY <1>3, RenderMoves DEF Serial
  <2> QED BY <1>3, <2>1, RenderMoves DEF Live
<1>4. CASE u = t
  <2>1. render[t] \notin {"copy", "connect", "made"}
    BY <1>1 DEF Woken
  <2>2. ctx' = ctx
    BY <2>1, RenderMoves
  <2> QED BY <1>1, <1>2, <1>4, <2>1, <2>2, RenderMoves DEF Woken
<1> QED BY <1>3, <1>4

\* The world around the app does not take a wakeup away.
LEMMA WokenWorld == ASSUME Typed, Woken, World PROVE Woken'
<1>1. woken => woken'
  BY WorldMoves
<1> QED BY <1>1, WorldMoves, WorldLeaves DEF Woken, workerVars

-----------------------------------------------------------------------------
(* The last request. *)

\* A new request is not done, and until then no worker that looked at an older
\* generation is about to call.  Without a new request the path changes only
\* when there is neither a context nor a thread.
LEMMA LastUI ==
  ASSUME Typed, Numbered, Serial, Last, UserInterface, ~overtaken'
  PROVE  Last'
<1>1. ASSUME NEW kind \in {"start", "restart", "stop"}, Asked(kind) PROVE Last'
  <2>1. displayGeneration' \in Requests /\ worker'[displayGeneration'] = "check"
    BY <1>1, MaxRequestsAssumption DEF Asked, Typed, Requests
  <2>2. \A g \in Requests : worker'[g] # "call"
    BY <1>1, UserInterfaceBusy DEF Asked
  <2> QED BY <2>1, <2>2 DEF Last
<1>2. ASSUME UNCHANGED <<displayGeneration, request, worker, surfaceReady>>,
             socket_path' # socket_path => ~surfaceReady
      PROVE  Last'
  <2>1. UNCHANGED <<running, ctx, window, render, copied>>
    BY UserInterfaceAsks DEF threadVars
  <2>2. \A g \in Requests : worker'[g] = "call" => g = displayGeneration'
    BY <1>2 DEF Last
  <2>3. ASSUME displayGeneration > 0, worker[displayGeneration] = "done" PROVE Settled'
    <3>1. Settled
      BY <2>3 DEF Last, Settled
    <3>2. CASE socket_path' = socket_path
      BY <1>2, <2>1, <3>1, <3>2 DEF Settled, Busy
    <3>3. CASE socket_path' # socket_path
      <4>1. request[displayGeneration] = "stop"
        BY <1>2, <2>3, <3>3 DEF Numbered
      <4>2. \A t \in Requests : ~Live(t)
        BY <3>1, <4>1 DEF Settled, Serial
      <4> QED BY <1>2, <2>1, <3>1, <4>1, <4>2 DEF Settled, Busy, Live
    <3> QED BY <3>2, <3>3
  <2> QED BY <1>2, <2>2, <2>3 DEF Last, Settled
<1> QED BY <1>1, <1>2, UserInterfaceAsks

\* The call of the last request, at its end: the display is as asked for.
LEMMA LastFree ==
  ASSUME Typed, Numbered, NEW g \in Requests, FreeAll(g), g = displayGeneration,
         worker[g] \in {"call", "relock"}, ~running,
         \A t \in Requests : ~Live(t), \A h \in Requests : h # g => ~Busy(h),
         UNCHANGED <<uiVars, socket_path, copied>>, worker'[g] = "done"
  PROVE  Settled'
<1>1. \A h \in Requests : ~Busy(h)'
  BY FreeAllEffect DEF Busy
<1>2. /\ request[g] # "none"
      /\ request[g] # "stop" => surfaceReady
      /\ request[g] = "start" => call[g] = "start"
      /\ request[g] = "stop" => call[g] = "stop"
  BY DEF Numbered, Busy, Typed, Requests
<1>3. ~(call[g] = "stop" /\ request[g] = "restart")
  BY FreeAllEffect
<1>4. request[g] = "stop" \/ call[g] = "start"
  BY <1>2, <1>3 DEF Typed
<1>5. /\ ctx' = NULL
      /\ \A t \in Requests : render'[t] # "connect"
  BY FreeAllEffect
<1>6. IF request[g] = "stop" THEN ~running' /\ window' = 0 ELSE running' /\ window' = g
  BY <1>2, <1>4, FreeAllEffect
<1>7. displayGeneration' = g /\ request' = request
  BY DEF uiVars
<1> QED BY <1>1, <1>5, <1>6, <1>7 DEF Settled

\* Only the worker of the last request gets to call, and it finds no other call.
LEMMA LastWorker ==
  ASSUME Typed, Numbered, NEW g \in Requests, Worker(g), ~overlapped', ~overtaken',
         ~overlapped => Serial, ~overlapped /\ ~overtaken => Last
  PROVE  Last'
<1>0. Serial /\ Last /\ UNCHANGED <<uiVars, socket_path, copied>>
  BY DEF Worker, Check, Recheck, Enter, CallJoin, Join, Relock, historyVars, threadVars, Typed
<1> USE <1>0 DEF uiVars
<1>1. CASE Check(g) \/ Recheck(g)
  <2>1. /\ worker'[g] = IF g = displayGeneration THEN "call" ELSE "done"
        /\ ~Busy(g) /\ worker[g] # "done"
        /\ \A h \in Requests : h # g => worker'[h] = worker[h]
        /\ UNCHANGED <<running, ctx, window, render>>
    BY <1>1 DEF Check, Recheck, Goto, Busy, connVars, threadVars, Typed
  <2>2. \A h \in Requests : worker'[h] = "call" => h = displayGeneration'
    BY <2>1 DEF Last
  <2>3. ASSUME displayGeneration > 0, worker'[displayGeneration] = "done" PROVE Settled'
    <3>1. displayGeneration \in Requests
      BY <2>3 DEF Typed, Requests
    <3>2. g # displayGeneration /\ worker[displayGeneration] = "done"
      BY <2>1, <2>3, <3>1
    <3>3. Settled
      BY <2>3, <3>2 DEF Last, Settled
    <3>4. \A h \in Requests : ~Busy(h)'
      BY <2>1, <3>3 DEF Settled, Busy
    <3> QED BY <2>1, <3>3, <3>4 DEF Settled
  <2> QED BY <2>2, <2>3 DEF Last, Settled
<1>2. ASSUME FreeAll(g), g = displayGeneration, worker[g] \in {"call", "relock"}, ~running,
             \A t \in Requests : ~Live(t), \A h \in Requests : h # g => ~Busy(h)
      PROVE  Last'
  <2>1. \A h \in Requests : worker'[h] # "call"
    BY <1>2, FreeAllEffect DEF Last
  <2> QED BY <1>2, <2>1, LastFree DEF Last, Settled
<1>3. CASE Enter(g)
  <2>1. g = displayGeneration /\ \A h \in Requests : ~Busy(h)
    BY <1>3 DEF Enter, Busy, Last
  <2>2. CASE running
    <3>1. worker'[g] = "unlocked" /\ \A h \in Requests : h # g => worker'[h] = worker[h]
      BY <1>3, <2>2 DEF Enter, Goto, Typed
    <3> QED BY <2>1, <3>1 DEF Last
  <2>3. CASE ~running
    BY <1>2, <1>3, <2>1, <2>3 DEF Enter, Serial
  <2> QED BY <2>2, <2>3
<1>4. ASSUME Busy(g) PROVE ~(displayGeneration > 0 /\ worker[displayGeneration] = "done")
  BY <1>4 DEF Last, Settled
<1>5. CASE CallJoin(g) \/ Join(g)
  <2>1. /\ worker'[g] \in {"join", "relock"} /\ Busy(g)
        /\ \A h \in Requests : h # g => worker'[h] = worker[h]
    BY <1>5 DEF CallJoin, Join, Goto, Busy, Typed
  <2>2. displayGeneration > 0 => displayGeneration \in Requests
    BY DEF Typed, Requests
  <2> QED BY <1>4, <2>1, <2>2 DEF Last
<1>6. CASE Relock(g)
  <2>1. worker[g] = "relock" /\ FreeAll(g) /\ Busy(g)
    BY <1>6 DEF Relock, Busy
  <2>2. ~running /\ (\A t \in Requests : ~Live(t)) /\ \A h \in Requests : h # g => ~Busy(h)
    BY <2>1 DEF Serial, Typed
  <2>3. CASE g = displayGeneration
    BY <1>2, <2>1, <2>2, <2>3
  <2>4. CASE g # displayGeneration
    <3>1. /\ worker'[g] \in {"recheck", "done"}
          /\ \A h \in Requests : h # g => worker'[h] = worker[h]
      BY <2>1, <2>2, FreeAllEffect
    <3>2. displayGeneration > 0 => displayGeneration \in Requests
      BY DEF Typed, Requests
    <3> QED BY <1>4, <2>1, <2>4, <3>1, <3>2 DEF Last
  <2> QED BY <2>3, <2>4
<1> QED BY <1>1, <1>3, <1>5, <1>6 DEF Worker

\* The thread of the last request connects to the path that was set last, and after
\* a stop there is no thread.
LEMMA LastRender ==
  ASSUME Typed, Serial, Last, NEW t \in Requests, RenderThread(t)
  PROVE  Last'
<1>1. UNCHANGED <<displayGeneration, request, worker, running, window, socket_path>>
  BY RenderLeaves DEF uiVars, workerVars
<1>2. ASSUME displayGeneration > 0, worker[displayGeneration] = "done" PROVE Settled'
  <2>1. Settled
    BY <1>2 DEF Last, Settled
  <2>2. running
    BY <2>1, RenderMoves DEF Settled, Serial
  <2>3. request[displayGeneration] # "stop"
    BY <2>1, <2>2 DEF Settled
  <2>4. ctx' # NULL => ctx' = socket_path
    BY <2>1, RenderMoves DEF Settled
  <2>5. \A u \in Requests : render'[u] = "connect" => copied'[u] = socket_path
    BY <2>1, RenderMoves DEF Settled
  <2> QED BY <1>1, <2>1, <2>2, <2>3, <2>4, <2>5 DEF Settled, Busy
<1> QED BY <1>1, <1>2 DEF Last, Settled

\* The world around the app changes nothing of it.
LEMMA LastWorld == ASSUME Typed, Last, World PROVE Last'
<1>1. UNCHANGED <<displayGeneration, request, worker, running, window, socket_path, copied,
                  ctx>>
  BY WorldLeaves DEF uiVars, workerVars
<1>2. \A t \in Requests : render'[t] = "connect" => render[t] = "connect"
  BY WorldMoves
<1> QED BY <1>1, <1>2 DEF Last, Settled, Busy

-----------------------------------------------------------------------------
(* The theorems. *)

\* The start of the app satisfies the invariant.
LEMMA InitNativeInv == Init => NativeInv
<1> SUFFICES ASSUME Init PROVE NativeInv
  OBVIOUS
<1>1. NativeTypeOK
  <2>1. 0 \in 0..MaxRequests
    BY MaxRequestsAssumption
  <2>2. cut \subseteq {"render", "poller"}
    BY DEF Init
  <2>3. joins \in [Requests -> 0..MaxRequests] /\ copied \in [Requests -> Paths]
    BY <2>1 DEF Init
  <2>4. Typed
    BY <2>1, <2>2, <2>3 DEF Init, Typed
  <2> QED BY <2>4, TypedIsTypeOK
<1>2. Numbered
  BY MaxRequestsAssumption DEF Init, Numbered, Busy, Requests
<1>3. Serial /\ Woken
  BY DEF Init, Serial, Woken, Busy, Live, UsesContext
<1>4. Last
  BY DEF Init, Last
<1> QED BY <1>1, <1>2, <1>3, <1>4 DEF Init, NativeInv, PollerKeepsContext

\* Every step keeps it.
LEMMA NextNativeInv == NativeInv /\ [Next]_vars => NativeInv'
<1> SUFFICES ASSUME NativeInv, [Next]_vars PROVE NativeInv'
  OBVIOUS
<1>0. Typed
  BY TypedIsTypeOK DEF NativeInv
<1> USE DEF NativeInv
<1>1. CASE UserInterface
  <2>1. overlapped' = overlapped /\ unwoken' = unwoken
    BY <1>0, <1>1, UserInterfaceAsks
  <2>2. Typed' /\ Numbered' /\ (~overlapped' => Serial')
    BY <1>0, <1>1, <2>1, UserInterfaceType, NumberedUI, SerialUI
  <2>3. ~overlapped' /\ ~unwoken' => Woken'
    <3>1. \A g \in Requests : worker'[g] \in {"unlocked", "join"} => worker'[g] = worker[g]
      BY <1>0, <1>1, UserInterfaceBusy
    <3>2. UNCHANGED <<render, ctx, woken>>
      BY <1>0, <1>1, UserInterfaceAsks DEF threadVars
    <3> QED BY <2>1, <3>1, <3>2 DEF Woken
  <2>4. ~overtaken' => ~overtaken
    BY <1>0, <1>1, UserInterfaceAsks DEF Asked
  <2>5. ~overlapped' /\ ~overtaken' => Last'
    BY <1>0, <1>1, <2>1, <2>4, LastUI
  <2> QED BY <1>1, <2>2, <2>3, <2>5, TypedIsTypeOKNext, StepPoller DEF Next
<1>2. ASSUME NEW g \in Requests, Worker(g) PROVE NativeInv'
  <2>1. Typed' /\ Numbered'
    BY <1>0, <1>2, WorkerType, NumberedWorker
  <2>2. ~overlapped' => Serial'
    BY <1>0, <1>2, SerialWorker
  <2>3. ~overlapped' /\ ~unwoken' => Woken'
    BY <1>0, <1>2, <2>2, WokenWorker
  <2>4. ~overlapped' /\ ~overtaken' => Last'
    BY <1>0, <1>2, LastWorker
  <2> QED BY <1>2, <2>1, <2>2, <2>3, <2>4, TypedIsTypeOKNext, StepPoller DEF Next
<1>3. ASSUME NEW t \in Requests, RenderThread(t) PROVE NativeInv'
  <2>1. overlapped' = overlapped /\ unwoken' = unwoken /\ overtaken' = overtaken
    BY <1>3, RenderLeaves DEF historyVars
  <2>2. Typed' /\ Numbered'
    BY <1>0, <1>3, RenderType, RenderLeaves, NumberedStays
  <2>3. ~overlapped' => Serial'
    BY <1>0, <1>3, <2>1, SerialRender
  <2>4. ~overlapped' /\ ~unwoken' => Woken'
    BY <1>0, <1>3, <2>1, WokenRender
  <2>5. ~overlapped' /\ ~overtaken' => Last'
    BY <1>0, <1>3, <2>1, LastRender
  <2> QED BY <1>3, <2>2, <2>3, <2>4, <2>5, TypedIsTypeOKNext, StepPoller DEF Next
<1>4. CASE World
  <2>1. overlapped' = overlapped /\ unwoken' = unwoken /\ overtaken' = overtaken
    BY <1>4, WorldLeaves DEF historyVars
  <2>2. Typed' /\ Numbered'
    BY <1>0, <1>4, WorldType, WorldLeaves, NumberedStays
  <2>3. ~overlapped' => Serial'
    BY <1>0, <1>4, <2>1, SerialWorld
  <2>4. ~overlapped' /\ ~unwoken' => Woken'
    BY <1>0, <1>4, <2>1, WokenWorld
  <2>5. ~overlapped' /\ ~overtaken' => Last'
    BY <1>0, <1>4, <2>1, LastWorld
  <2> QED BY <1>4, <2>2, <2>3, <2>4, <2>5, TypedIsTypeOKNext, StepPoller DEF Next, World
<1>5. CASE UNCHANGED vars
  <2> USE <1>5 DEF vars, uiVars, workerVars, connVars, threadVars, historyVars
  <2>1. Typed'
    BY <1>0 DEF Typed
  <2>2. Numbered' /\ PollerKeepsContext'
    BY DEF Numbered, Busy, PollerKeepsContext
  <2>3. ~overlapped' => Serial'
    BY DEF Serial, Busy, Live, UsesContext
  <2>4. ~overlapped' /\ ~unwoken' => Woken'
    BY DEF Woken
  <2>5. ~overlapped' /\ ~overtaken' => Last'
    BY DEF Last, Settled, Busy
  <2> QED BY <2>1, <2>2, <2>3, <2>4, <2>5, TypedIsTypeOKNext
<1> QED BY <1>1, <1>2, <1>3, <1>4, <1>5 DEF Next, World

\* The invariant holds throughout.
LEMMA NativeInvHolds == Spec => []NativeInv
BY InitNativeInv, NextNativeInv, PTL DEF Spec

\* Every variable of the UI thread, the workers and g_state keeps its type; the
\* socket path is never empty.
THEOREM NativeTypes == Spec => []NativeTypeOK
BY NativeInvHolds, PTL DEF NativeInv

\* nativeStart and nativeStop never free the context under the thread that polls,
\* however many calls overlap.
THEOREM PollerSafe == Spec => []PollerKeepsContext
BY NativeInvHolds, PTL DEF NativeInv

\* Without overlapping calls there is one render thread, the one of g_state, and
\* nothing it uses is freed under it.
THEOREM RenderThreadIsOne == Spec => []OneRenderThread
<1>1. NativeInv => OneRenderThread
  BY DEF NativeInv, Serial, OneRenderThread
<1> QED BY <1>1, NativeInvHolds, PTL

\* A thread that a call waits for, and that waits for its frame, has been woken.
THEOREM NoLostWakeup == Spec => []JoinedThreadIsWoken
<1>1. NativeInv => JoinedThreadIsWoken
  <2> SUFFICES ASSUME NativeInv, ~overlapped, ~unwoken, NEW g \in Requests, NEW t \in Requests,
                      worker[g] \in {"unlocked", "join"}, render[t] = "await"
               PROVE  woken
    BY DEF JoinedThreadIsWoken
  <2>1. ctx # NULL
    BY DEF NativeInv, Serial, UsesContext
  <2> QED BY <2>1 DEF NativeInv, Woken
<1> QED BY <1>1, NativeInvHolds, PTL

\* When all workers are done, the display is as the last request asked for it.
THEOREM LastRequestServed == Spec => []LastRequestWins
<1>1. NativeInv => LastRequestWins
  <2> SUFFICES ASSUME NativeInv, AtRest, displayGeneration > 0, ~overlapped, ~overtaken
               PROVE  IF request[displayGeneration] = "stop"
                      THEN ~running /\ window = 0 /\ ctx = NULL
                      ELSE running /\ window = displayGeneration
    BY DEF LastRequestWins
  <2>1. Typed
    BY TypedIsTypeOK DEF NativeInv
  <2>2. displayGeneration \in Requests
    BY <2>1 DEF Typed, Requests
  <2>3. displayGeneration <= displayGeneration
    BY <2>1 DEF Typed
  <2>4. worker[displayGeneration] = "done"
    BY <2>2, <2>3 DEF NativeInv, Numbered, AtRest
  <2> QED BY <2>4 DEF NativeInv, Last, Settled
<1> QED BY <1>1, NativeInvHolds, PTL

\* A display at rest is connected to no path but the one that was set last.
THEOREM LastPathServed == Spec => []PathTakesEffect
<1>1. NativeInv => PathTakesEffect
  <2> SUFFICES ASSUME NativeInv, AtRest, ~overlapped, ~overtaken, running, ctx # NULL
               PROVE  ctx = socket_path
    BY DEF PathTakesEffect
  <2>1. Typed
    BY TypedIsTypeOK DEF NativeInv
  <2>2. displayGeneration > 0
    BY DEF NativeInv, Numbered
  <2>3. displayGeneration \in Requests /\ displayGeneration <= displayGeneration
    BY <2>1, <2>2 DEF Typed, Requests
  <2>4. worker[displayGeneration] = "done"
    BY <2>3 DEF NativeInv, Numbered, AtRest
  <2> QED BY <2>2, <2>4 DEF NativeInv, Last, Settled
<1> QED BY <1>1, NativeInvHolds, PTL
=============================================================================
