------------------------- MODULE DisplayTaskProofs -------------------------
(***************************************************************************)
(* Proofs about DisplayTask, for any number of windows: the delayed check  *)
(* that removes an Android task never removes one whose windows it knows.  *)
(***************************************************************************)
EXTENDS DisplayTask, SequenceTheorems, TLAPS

\* The type invariant with one conjunct per variable.
Typed ==
  /\ win \in [Windows -> {"none", "open", "minimized", "closed"}]
  /\ events \in Seq(Events)
  /\ commands \in Seq(Windows)
  /\ linked \in BOOLEAN /\ lost \in BOOLEAN /\ display \in BOOLEAN
  /\ resumed \in BOOLEAN /\ surfaceReady \in BOOLEAN /\ customMinimized \in BOOLEAN
  /\ destroyed \in BOOLEAN /\ windowMinimizedByCompositor \in BOOLEAN
  /\ keepDisplayWhileBackgrounded \in BOOLEAN
  /\ finished \in {"no", "timer", "back"}
  /\ activeWindowIds \subseteq Windows
  /\ lastWindowId \in Windows \cup {NoWindow}
  /\ emptyWindowExitGeneration \in Nat
  /\ timers \subseteq 1..emptyWindowExitGeneration
  /\ restoring \subseteq Windows
  /\ nminimize \in 0..MaxMinimize
  /\ nleaves \in 0..MaxLeaves

\* A close that is on its way is of a window that is closed: ids are not used again.
CloseMeansClosed ==
  \A i \in DOMAIN events : events[i].type = "CLOSED" => win[events[i].id] = "closed"

\* The task is going to hear that window w opened.
Announced(w) == \E i \in DOMAIN events : events[i] = [type |-> "OPENED", id |-> w]

\* As long as no event was lost, a task that is not closing knows every window that
\* is there, or is going to hear of it.
EveryWindowKnown ==
  ~lost /\ finished = "no" => \A w \in Windows : Live(w) => w \in activeWindowIds \/ Announced(w)

\* The inductive invariant.
TaskInv == Typed /\ CloseMeansClosed /\ EveryWindowKnown

\* Typed says the same as TaskTypeOK.
LEMMA TypedIsTypeOK == Typed <=> TaskTypeOK
<1>1. ASSUME Typed
      PROVE  {linked, lost, display, resumed, surfaceReady, customMinimized, destroyed,
              windowMinimizedByCompositor, keepDisplayWhileBackgrounded} \subseteq BOOLEAN
  BY <1>1 DEF Typed
<1>2. Typed => TaskTypeOK
  BY <1>1 DEF Typed, TaskTypeOK
<1>3. TaskTypeOK => Typed
  BY Zenon DEF Typed, TaskTypeOK
<1> QED BY <1>2, <1>3

-----------------------------------------------------------------------------
(* The data socket. *)

\* One more event is written, or is lost.
LEMMA EmitEffect ==
  ASSUME Typed, NEW t \in {"OPENED", "CLOSED", "MINIMIZED", "RESTORED"}, NEW w \in Windows,
         acglass_emit_window_event(t, w)
  PROVE  /\ events' \in Seq(Events) /\ lost' \in BOOLEAN
         /\ \A i \in DOMAIN events : i \in DOMAIN events' /\ events'[i] = events[i]
         /\ \A i \in DOMAIN events' : \/ i \in DOMAIN events /\ events'[i] = events[i]
                                      \/ events'[i] = [type |-> t, id |-> w]
         /\ ~lost' => ~lost /\ \E i \in DOMAIN events' : events'[i] = [type |-> t, id |-> w]
<1> DEFINE e == [type |-> t, id |-> w]
<1>1. e \in Events
  BY DEF Events
<1>2. events \in Seq(Events)
  BY DEF Typed
<1>3. lost' = (lost \/ ~linked)
  BY DEF acglass_emit_window_event
<1>4. lost' \in BOOLEAN
  BY <1>3
<1>5. CASE linked
  <2>1. events' = Append(events, e)
    BY <1>5 DEF acglass_emit_window_event
  <2> HIDE DEF e
  <2>2. /\ events' \in Seq(Events)
        /\ \A i \in DOMAIN events : i \in DOMAIN events' /\ events'[i] = events[i]
        /\ \A i \in DOMAIN events' : \/ i \in DOMAIN events /\ events'[i] = events[i]
                                     \/ events'[i] = e
        /\ Len(events) + 1 \in DOMAIN events' /\ events'[Len(events) + 1] = e
    BY <1>1, <1>2, <2>1
  <2>3. ~lost' => ~lost
    BY <1>3
  <2> QED BY <1>4, <2>2, <2>3 DEF e
<1>6. CASE ~linked
  <2>1. events' = events /\ lost'
    BY <1>3, <1>6 DEF acglass_emit_window_event
  <2> QED BY <1>2, <1>4, <2>1
<1> QED BY <1>5, <1>6 DEF Typed

\* A cut keeps a beginning of the events, and all of them if it loses none.
LEMMA CutEffect ==
  ASSUME Typed, Cut
  PROVE  /\ events' \in Seq(Events) /\ lost' \in BOOLEAN
         /\ commands' \in Seq(Windows) /\ linked' \in BOOLEAN
         /\ \A i \in DOMAIN events' : i \in DOMAIN events /\ events'[i] = events[i]
         /\ ~lost' => ~lost /\ events' = events
<1>1. events \in Seq(Events) /\ Len(events) \in Nat
  BY DEF Typed
<1>2. PICK n \in (IF linked THEN 0 ELSE Len(events))..Len(events) :
        events' = SubSeq(events, 1, n) /\ lost' = (lost \/ n < Len(events))
  BY DEF Cut
<1>3. n \in 0..Len(events)
  BY <1>1, <1>2
<1>4. /\ events' \in Seq(Events) /\ Len(events') = n
      /\ \A i \in DOMAIN events' : i \in DOMAIN events /\ events'[i] = events[i]
  BY <1>1, <1>2, <1>3
<1>5. n = Len(events) => events' = events
  BY <1>1, <1>3, <1>4
<1>6. lost' \in BOOLEAN /\ (~lost' => ~lost /\ ~(n < Len(events)))
  BY <1>2
<1>7. ~(n < Len(events)) => n = Len(events)
  BY <1>1, <1>3
<1>8. commands' = <<>> /\ linked' = FALSE
  BY DEF Cut
<1>9. commands' \in Seq(Windows)
  BY <1>8
<1>10. linked' \in BOOLEAN
  BY <1>8
<1> QED BY <1>4, <1>5, <1>6, <1>7, <1>9, <1>10

\* The next event is taken from the queue of the UI thread.
LEMMA TakeEffect ==
  ASSUME Typed, events # <<>>, events' = Tail(events)
  PROVE  /\ events' \in Seq(Events) /\ Head(events) \in Events
         /\ 1 \in DOMAIN events /\ Head(events) = events[1]
         /\ \A i \in DOMAIN events' : i + 1 \in DOMAIN events /\ events'[i] = events[i + 1]
         /\ \A i \in DOMAIN events : i = 1 \/ (i - 1 \in DOMAIN events' /\ events'[i - 1] = events[i])
<1>1. events \in Seq(Events)
  BY DEF Typed
<1> QED BY <1>1

-----------------------------------------------------------------------------
(* The steps of the kiosk shell. *)

\* What a change of window w and its event leave to the rest of the invariant.
LEMMA ShellStep ==
  ASSUME TaskInv, NEW w \in Windows, NEW to \in {"open", "minimized", "closed"},
         NEW t \in {"OPENED", "CLOSED", "MINIMIZED", "RESTORED"},
         win' = [win EXCEPT ![w] = to], acglass_emit_window_event(t, w),
         t = "CLOSED" <=> to = "closed", Live(w) \/ win[w] = "none", win[w] = "none" => t = "OPENED",
         UNCHANGED <<linked, display, windowVars, lifeVars, customMinimized,
                     keepDisplayWhileBackgrounded, restoring>>,
         nminimize' \in 0..MaxMinimize, commands' \in Seq(Windows)
  PROVE  TaskInv'
<1>0. Typed
  BY DEF TaskInv
<1>1. /\ win' \in [Windows -> {"none", "open", "minimized", "closed"}]
      /\ win'[w] = to /\ \A v \in Windows : v # w => win'[v] = win[v]
  BY <1>0 DEF Typed
<1>2. /\ events' \in Seq(Events) /\ lost' \in BOOLEAN
      /\ \A i \in DOMAIN events : i \in DOMAIN events' /\ events'[i] = events[i]
      /\ \A i \in DOMAIN events' : \/ i \in DOMAIN events /\ events'[i] = events[i]
                                   \/ events'[i] = [type |-> t, id |-> w]
      /\ ~lost' => ~lost /\ \E i \in DOMAIN events' : events'[i] = [type |-> t, id |-> w]
  BY <1>0, EmitEffect
<1>3. Typed'
  BY <1>0, <1>1, <1>2 DEF Typed, windowVars, lifeVars
<1>4. CloseMeansClosed'
  <2> SUFFICES ASSUME NEW i \in DOMAIN events', events'[i].type = "CLOSED"
               PROVE  win'[events'[i].id] = "closed"
    BY DEF CloseMeansClosed
  <2>1. CASE events'[i] = [type |-> t, id |-> w]
    BY <1>1, <2>1
  <2>2. CASE i \in DOMAIN events /\ events'[i] = events[i]
    <3>1. win[events[i].id] = "closed"
      BY <2>2 DEF TaskInv, CloseMeansClosed
    <3>2. events[i].id \in Windows
      <4>1. events[i] \in Events
        BY <1>0, <2>2 DEF Typed
      <4> QED BY <4>1 DEF Events
    <3> QED BY <1>1, <2>2, <3>1, <3>2 DEF Live
  <2> QED BY <1>2, <2>1, <2>2
<1>5. EveryWindowKnown'
  <2> SUFFICES ASSUME ~lost', finished' = "no", NEW v \in Windows, Live(v)'
               PROVE  v \in activeWindowIds \/ Announced(v)'
    BY DEF EveryWindowKnown, windowVars
  <2>1. Announced(v) => Announced(v)'
    BY <1>2 DEF Announced
  <2>2. finished = "no"
    BY DEF lifeVars
  <2>3. CASE Live(v)
    BY <1>2, <2>1, <2>2, <2>3 DEF TaskInv, EveryWindowKnown
  <2>4. CASE ~Live(v)
    <3>1. v = w /\ win[w] = "none"
      BY <1>1, <2>4 DEF Live
    <3>2. \E i \in DOMAIN events' : events'[i] = [type |-> "OPENED", id |-> v]
      BY <1>2, <3>1
    <3> QED BY <3>2 DEF Announced
  <2> QED BY <2>3, <2>4
<1> QED BY <1>3, <1>4, <1>5 DEF TaskInv

\* Opening, closing, minimizing and restoring a window.
LEMMA ShellKeeps == ASSUME TaskInv, Shell PROVE TaskInv'
<1>0. Typed
  BY DEF TaskInv
<1>1. ASSUME NEW w \in Windows, desktop_surface_added(w) PROVE TaskInv'
  <2>1. /\ nminimize' \in 0..MaxMinimize /\ commands' \in Seq(Windows)
        /\ win' = [win EXCEPT ![w] = "open"] /\ win[w] = "none"
        /\ UNCHANGED <<linked, display, windowVars, lifeVars, customMinimized,
                       keepDisplayWhileBackgrounded, restoring>>
    BY <1>0, <1>1 DEF desktop_surface_added, Typed
  <2>2. acglass_emit_window_event("OPENED", w)
    BY <1>1 DEF desktop_surface_added
  <2> QED BY <2>1, <2>2, ShellStep
<1>2. ASSUME NEW w \in Windows, desktop_surface_removed(w) PROVE TaskInv'
  <2>1. /\ nminimize' \in 0..MaxMinimize /\ commands' \in Seq(Windows)
        /\ win' = [win EXCEPT ![w] = "closed"] /\ Live(w) /\ win[w] # "none"
        /\ UNCHANGED <<linked, display, windowVars, lifeVars, customMinimized,
                       keepDisplayWhileBackgrounded, restoring>>
    BY <1>0, <1>2 DEF desktop_surface_removed, Typed, Live
  <2>2. acglass_emit_window_event("CLOSED", w)
    BY <1>2 DEF desktop_surface_removed
  <2> QED BY <2>1, <2>2, ShellStep
<1>3. ASSUME NEW w \in Windows, desktop_surface_minimized_requested(w) PROVE TaskInv'
  <2>1. /\ nminimize' \in 0..MaxMinimize /\ commands' \in Seq(Windows)
        /\ win' = [win EXCEPT ![w] = "minimized"] /\ Live(w) /\ win[w] # "none"
        /\ UNCHANGED <<linked, display, windowVars, lifeVars, customMinimized,
                       keepDisplayWhileBackgrounded, restoring>>
    BY <1>0, <1>3, BoundsAssumption DEF desktop_surface_minimized_requested, Typed, Live
  <2>2. acglass_emit_window_event("MINIMIZED", w)
    BY <1>3 DEF desktop_surface_minimized_requested
  <2> QED BY <2>1, <2>2, ShellStep
<1>4. CASE acglass_restore_window
  <2> DEFINE w == Head(commands)
  <2>1. /\ w \in Windows /\ commands' \in Seq(Windows) /\ nminimize' \in 0..MaxMinimize
        /\ UNCHANGED <<linked, display, windowVars, lifeVars, customMinimized,
                       keepDisplayWhileBackgrounded, restoring>>
    BY <1>0, <1>4 DEF acglass_restore_window, Typed
  <2> HIDE DEF w
  <2>2. CASE win[w] \in {"open", "minimized"}
    <3>1. /\ win' = [win EXCEPT ![w] = "open"] /\ Live(w) /\ win[w] # "none"
          /\ acglass_emit_window_event("RESTORED", w)
      BY <1>4, <2>2 DEF acglass_restore_window, Live, w
    <3> QED BY <2>1, <3>1, ShellStep
  <2>3. CASE win[w] \notin {"open", "minimized"}
    <3>1. UNCHANGED <<win, events, lost>>
      BY <1>4, <2>3 DEF acglass_restore_window, w
    <3>2. Typed'
      BY <1>0, <2>1, <3>1 DEF Typed, windowVars, lifeVars
    <3> QED BY <2>1, <3>1, <3>2 DEF TaskInv, CloseMeansClosed, EveryWindowKnown, Live, Announced,
            windowVars, lifeVars
  <2> QED BY <2>2, <2>3
<1> QED BY <1>1, <1>2, <1>3, <1>4 DEF Shell

-----------------------------------------------------------------------------
(* The steps of the task. *)

\* A step that loses events only if it says so, and forgets no window of a task that
\* is not closing.
LEMMA QuietStep ==
  ASSUME TaskInv, Typed', win' = win,
         \A i \in DOMAIN events' : i \in DOMAIN events /\ events'[i] = events[i],
         ~lost' => ~lost /\ events' = events,
         finished' = "no" => finished = "no" /\ activeWindowIds' = activeWindowIds
  PROVE  TaskInv'
<1>1. CloseMeansClosed'
  BY DEF TaskInv, CloseMeansClosed
<1>2. EveryWindowKnown'
  BY DEF TaskInv, EveryWindowKnown, Live, Announced
<1> QED BY <1>1, <1>2 DEF TaskInv

\* The UI thread takes an event.  Only a close makes it forget a window, and that one
\* is closed.
LEMMA HandleStep ==
  ASSUME TaskInv, Typed', events # <<>>, events' = Tail(events), win' = win, lost' = lost,
         finished' = "no" => /\ finished = "no"
                             /\ \/ activeWindowIds' = activeWindowIds /\ Head(events).type # "OPENED"
                                \/ activeWindowIds' = activeWindowIds \cup {Head(events).id}
                                \/ /\ activeWindowIds' = activeWindowIds \ {Head(events).id}
                                   /\ Head(events).type = "CLOSED"
  PROVE  TaskInv'
<1>0. /\ 1 \in DOMAIN events /\ Head(events) = events[1]
      /\ \A i \in DOMAIN events' : i + 1 \in DOMAIN events /\ events'[i] = events[i + 1]
      /\ \A i \in DOMAIN events : i = 1 \/ (i - 1 \in DOMAIN events' /\ events'[i - 1] = events[i])
  BY TakeEffect DEF TaskInv
<1>1. CloseMeansClosed'
  BY <1>0 DEF TaskInv, CloseMeansClosed
<1>2. EveryWindowKnown'
  <2> SUFFICES ASSUME ~lost, finished' = "no", NEW w \in Windows, Live(w)
               PROVE  w \in activeWindowIds' \/ Announced(w)'
    BY DEF EveryWindowKnown, Live
  <2> DEFINE e == Head(events)
  <2>1. e.type = "CLOSED" => e.id # w
    BY <1>0 DEF TaskInv, CloseMeansClosed, Live
  <2>2. CASE w \in activeWindowIds
    BY <2>1, <2>2
  <2>3. CASE Announced(w)
    <3>1. PICK i \in DOMAIN events : events[i] = [type |-> "OPENED", id |-> w]
      BY <2>3 DEF Announced
    <3>2. CASE i = 1
      <4>1. e.type = "OPENED" /\ e.id = w
        BY <1>0, <3>1, <3>2
      <4>2. activeWindowIds' = activeWindowIds \cup {e.id}
        BY <4>1
      <4> QED BY <4>1, <4>2
    <3>3. CASE i # 1
      BY <1>0, <3>1, <3>3 DEF Announced
    <3> QED BY <3>2, <3>3
  <2> QED BY <2>2, <2>3 DEF TaskInv, EveryWindowKnown
<1> QED BY <1>1, <1>2 DEF TaskInv

\* handleWindowEvent, for each type of event.
LEMMA HandleKeeps == ASSUME TaskInv, handleWindowEvent PROVE TaskInv'
<1>0. Typed
  BY DEF TaskInv
<1>1. ASSUME NEW t, Handles(t)
      PROVE  /\ events # <<>> /\ events' = Tail(events) /\ Head(events).type = t
             /\ win' = win /\ lost' = lost /\ finished' = finished /\ finished = "no"
             /\ events' \in Seq(Events) /\ lastWindowId' \in Windows /\ Head(events).id \in Windows
             /\ UNCHANGED <<westonVars, commands, linked, display, lifeVars, restoring>>
  <2>1. /\ events # <<>> /\ events' = Tail(events) /\ Head(events).type = t
        /\ lastWindowId' = Head(events).id /\ finished = "no"
        /\ UNCHANGED <<westonVars, commands, linked, lost, display, lifeVars, restoring>>
    BY <1>1 DEF Handles
  <2>2. events' \in Seq(Events) /\ Head(events) \in Events
    BY <1>0, <2>1, TakeEffect
  <2>3. Head(events).id \in Windows
    BY <2>2 DEF Events
  <2> QED BY <2>1, <2>2, <2>3 DEF westonVars, lifeVars
<1>2. CASE HandleCloseMinimized
  <2>1. Handles("CLOSED")
    BY <1>2 DEF HandleCloseMinimized
  <2>2. UNCHANGED <<activeWindowIds, windowMinimizedByCompositor, customMinimized,
                    keepDisplayWhileBackgrounded, emptyWindowExitGeneration, timers>>
    BY <1>2 DEF HandleCloseMinimized
  <2>3. Typed'
    BY <1>0, <1>1, <2>1, <2>2 DEF Typed, westonVars, lifeVars
  <2> QED BY <1>1, <2>1, <2>2, <2>3, HandleStep
<1>3. CASE HandleClosed
  <2>1. Handles("CLOSED")
    BY <1>3 DEF HandleClosed
  <2>2. /\ activeWindowIds' = activeWindowIds \ {Head(events).id}
        /\ UNCHANGED <<windowMinimizedByCompositor, customMinimized, keepDisplayWhileBackgrounded>>
    BY <1>3 DEF HandleClosed
  <2>3. emptyWindowExitGeneration' \in Nat /\ timers' \subseteq 1..emptyWindowExitGeneration'
    <3>1. \/ /\ emptyWindowExitGeneration' = emptyWindowExitGeneration + 1
             /\ timers' = timers \cup {emptyWindowExitGeneration + 1}
          \/ emptyWindowExitGeneration' = emptyWindowExitGeneration /\ timers' = timers
      BY <1>3 DEF HandleClosed, scheduleFinishIfNoWindows
    <3>2. emptyWindowExitGeneration \in Nat /\ timers \subseteq 1..emptyWindowExitGeneration
      BY <1>0 DEF Typed
    <3>3. /\ emptyWindowExitGeneration + 1 \in 1..(emptyWindowExitGeneration + 1)
          /\ 1..emptyWindowExitGeneration \subseteq 1..(emptyWindowExitGeneration + 1)
      BY <3>2
    <3>4. timers \cup {emptyWindowExitGeneration + 1} \subseteq 1..(emptyWindowExitGeneration + 1)
      BY <3>2, <3>3
    <3>5. emptyWindowExitGeneration + 1 \in Nat
      BY <3>2
    <3> QED BY <3>1, <3>2, <3>4, <3>5, Zenon
  <2>4. Typed'
    BY <1>0, <1>1, <2>1, <2>2, <2>3 DEF Typed, westonVars, lifeVars
  <2> QED BY <1>1, <2>1, <2>2, <2>4, HandleStep
<1>4. CASE HandleMinimized
  <2>1. Handles("MINIMIZED")
    BY <1>4 DEF HandleMinimized
  <2>2. /\ windowMinimizedByCompositor' = TRUE /\ keepDisplayWhileBackgrounded' = TRUE
        /\ customMinimized' = TRUE
        /\ UNCHANGED <<activeWindowIds, emptyWindowExitGeneration, timers>>
    BY <1>4 DEF HandleMinimized
  <2>3. Typed'
    BY <1>0, <1>1, <2>1, <2>2 DEF Typed, westonVars, lifeVars
  <2> QED BY <1>1, <2>1, <2>2, <2>3, HandleStep
<1>5. CASE HandleShown
  <2>1. Handles("OPENED") \/ Handles("RESTORED")
    BY <1>5 DEF HandleShown
  <2>2. /\ activeWindowIds' = activeWindowIds \cup {Head(events).id}
        /\ emptyWindowExitGeneration' = emptyWindowExitGeneration + 1
        /\ windowMinimizedByCompositor' = FALSE /\ keepDisplayWhileBackgrounded' = FALSE
        /\ customMinimized' = FALSE /\ timers' = timers
    BY <1>5 DEF HandleShown
  <2>3. emptyWindowExitGeneration' \in Nat /\ timers' \subseteq 1..emptyWindowExitGeneration'
    BY <1>0, <2>2 DEF Typed
  <2>4. Typed'
    BY <1>0, <1>1, <2>1, <2>2, <2>3 DEF Typed, westonVars, lifeVars
  <2> QED BY <1>1, <2>1, <2>2, <2>4, HandleStep
<1>6. CASE HandleIgnored
  <2>1. /\ events # <<>> /\ events' = Tail(events) /\ finished # "no" /\ finished' = finished
        /\ win' = win /\ lost' = lost
        /\ UNCHANGED <<westonVars, commands, linked, lost, display, windowVars, lifeVars,
                       customMinimized, keepDisplayWhileBackgrounded, restoring>>
    BY <1>6 DEF HandleIgnored, westonVars, lifeVars
  <2>2. events' \in Seq(Events)
    BY <1>0, <2>1, TakeEffect
  <2>3. Typed'
    BY <1>0, <2>1, <2>2 DEF Typed, westonVars, windowVars, lifeVars
  <2> QED BY <2>1, <2>3, HandleStep
<1> QED BY <1>2, <1>3, <1>4, <1>5, <1>6 DEF handleWindowEvent

\* The delayed check and the threads that send a restore command.
LEMMA TaskKeeps == ASSUME TaskInv, Task PROVE TaskInv'
<1>0. Typed
  BY DEF TaskInv
<1>1. ASSUME NEW g \in timers, FinishIfNoWindows(g) PROVE TaskInv'
  <2>1. /\ timers' = timers \ {g} /\ finished' \in {finished, "timer"}
        /\ UNCHANGED <<westonVars, linkVars, activeWindowIds, lastWindowId,
                       windowMinimizedByCompositor, emptyWindowExitGeneration, resumed,
                       surfaceReady, destroyed, nleaves, customMinimized,
                       keepDisplayWhileBackgrounded, restoring>>
    BY <1>1 DEF FinishIfNoWindows
  <2>2. Typed'
    BY <1>0, <2>1 DEF Typed, westonVars, linkVars
  <2> QED BY <2>1, <2>2, QuietStep DEF westonVars, linkVars
<1>2. ASSUME NEW w \in restoring, RestoreSend(w) PROVE TaskInv'
  <2>1. /\ commands' = Append(commands, w) /\ restoring' = restoring \ {w} /\ w \in Windows
        /\ UNCHANGED <<westonVars, events, linked, lost, display, windowVars, lifeVars,
                       customMinimized, keepDisplayWhileBackgrounded>>
    BY <1>0, <1>2 DEF RestoreSend, Typed
  <2>2. commands' \in Seq(Windows)
    BY <1>0, <2>1 DEF Typed
  <2>3. Typed'
    BY <1>0, <2>1, <2>2 DEF Typed, westonVars, windowVars, lifeVars
  <2> QED BY <2>1, <2>3, QuietStep DEF westonVars, windowVars, lifeVars
<1>3. ASSUME NEW w \in restoring, RestoreGiveUp(w) PROVE TaskInv'
  <2>1. /\ restoring' = restoring \ {w}
        /\ UNCHANGED <<westonVars, linkVars, windowVars, lifeVars, customMinimized,
                       keepDisplayWhileBackgrounded>>
    BY <1>3 DEF RestoreGiveUp
  <2>2. Typed'
    BY <1>0, <2>1 DEF Typed, westonVars, linkVars, windowVars, lifeVars
  <2> QED BY <2>1, <2>2, QuietStep DEF westonVars, linkVars, windowVars, lifeVars
<1> QED BY <1>1, <1>2, <1>3, HandleKeeps DEF Task, Timer

-----------------------------------------------------------------------------
(* The user, Android and the link. *)

\* The steps that leave the data socket alone.
LEMMA CalmKeeps ==
  ASSUME TaskInv, LinkUp \/ minimizeCustomWindow \/ TapRestore \/ closeFromBack
  PROVE  TaskInv'
<1>0. Typed
  BY DEF TaskInv
<1>1. CASE LinkUp
  <2>1. Typed'
    BY <1>0, <1>1 DEF LinkUp, Typed, westonVars, windowVars, lifeVars
  <2> QED BY <1>1, <2>1, QuietStep DEF LinkUp, westonVars, windowVars, lifeVars
<1>2. CASE minimizeCustomWindow
  <2>1. nleaves' \in 0..MaxLeaves
    BY <1>0, <1>2, BoundsAssumption DEF minimizeCustomWindow, Typed
  <2>2. /\ customMinimized' = TRUE
        /\ UNCHANGED <<westonVars, linkVars, windowVars, resumed, surfaceReady, finished,
                       destroyed, keepDisplayWhileBackgrounded, restoring>>
    BY <1>2 DEF minimizeCustomWindow
  <2>3. Typed'
    BY <1>0, <2>1, <2>2 DEF Typed, westonVars, linkVars, windowVars
  <2> QED BY <2>2, <2>3, QuietStep DEF westonVars, linkVars, windowVars
<1>3. CASE TapRestore
  <2>1. restoring' \subseteq Windows
    BY <1>0, <1>3 DEF TapRestore, requestRestoreLastWindow, Typed
  <2>2. /\ customMinimized' = FALSE
        /\ UNCHANGED <<westonVars, linkVars, windowVars, lifeVars, keepDisplayWhileBackgrounded>>
    BY <1>3 DEF TapRestore
  <2>3. Typed'
    BY <1>0, <2>1, <2>2 DEF Typed, westonVars, linkVars, windowVars, lifeVars
  <2> QED BY <2>2, <2>3, QuietStep DEF westonVars, linkVars, windowVars, lifeVars
<1>4. CASE closeFromBack
  <2>1. /\ finished' = "back"
        /\ UNCHANGED <<westonVars, linkVars, windowVars, resumed, surfaceReady, destroyed,
                       nleaves, customMinimized, keepDisplayWhileBackgrounded, restoring>>
    BY <1>4 DEF closeFromBack
  <2>2. Typed'
    BY <1>0, <2>1 DEF Typed, westonVars, linkVars, windowVars
  <2> QED BY <2>1, <2>2, QuietStep DEF westonVars, linkVars
<1> QED BY <1>1, <1>2, <1>3, <1>4

\* The steps that stop or restart the display, and with it cut the data socket.
LEMMA CutKeeps ==
  ASSUME TaskInv, onPause \/ onResume \/ surfaceDestroyed \/ surfaceChanged \/ onDestroy
  PROVE  TaskInv'
<1>0. Typed
  BY DEF TaskInv
<1> DEFINE Socket ==
      /\ events' \in Seq(Events) /\ lost' \in BOOLEAN
      /\ commands' \in Seq(Windows) /\ linked' \in BOOLEAN
      /\ \A i \in DOMAIN events' : i \in DOMAIN events /\ events'[i] = events[i]
      /\ ~lost' => ~lost /\ events' = events
<1>1. Cut => Socket
  BY <1>0, CutEffect
<1>2. UNCHANGED linkVars => Socket /\ display' \in BOOLEAN
  BY <1>0 DEF linkVars, Typed
<1>3. ASSUME Socket, Typed', win' = win,
             finished' = "no" => finished = "no" /\ activeWindowIds' = activeWindowIds
      PROVE  TaskInv'
  BY <1>3, QuietStep
<1> HIDE DEF Socket
<1>4. CASE onPause
  <2>1. Socket /\ display' \in BOOLEAN
    BY <1>1, <1>2, <1>4 DEF onPause, stopDisplayAsync
  <2>2. nleaves' \in 0..MaxLeaves
    BY <1>0, <1>4, BoundsAssumption DEF onPause, Typed
  <2>3. /\ resumed' = FALSE
        /\ UNCHANGED <<westonVars, windowVars, surfaceReady, finished, destroyed,
                       customMinimized, keepDisplayWhileBackgrounded, restoring>>
    BY <1>4 DEF onPause
  <2>4. Typed'
    BY <1>0, <2>1, <2>2, <2>3 DEF Typed, Socket, westonVars, windowVars
  <2> QED BY <1>3, <2>1, <2>3, <2>4 DEF westonVars, windowVars
<1>5. CASE onResume
  <2>1. Socket /\ display' \in BOOLEAN
    BY <1>0, <1>1, <1>5 DEF onResume, restartDisplay, Typed
  <2>2. restoring' \subseteq Windows
    BY <1>0, <1>5 DEF onResume, requestRestoreLastWindow, Typed
  <2>3. /\ resumed' = TRUE /\ keepDisplayWhileBackgrounded' = FALSE
        /\ UNCHANGED <<westonVars, windowVars, surfaceReady, finished, destroyed, nleaves,
                       customMinimized>>
    BY <1>5 DEF onResume
  <2>4. Typed'
    BY <1>0, <2>1, <2>2, <2>3 DEF Typed, Socket, westonVars, windowVars
  <2> QED BY <1>3, <2>1, <2>3, <2>4 DEF westonVars, windowVars
<1>6. CASE surfaceDestroyed
  <2>1. Socket /\ display' \in BOOLEAN
    BY <1>1, <1>6 DEF surfaceDestroyed, stopDisplayAsync
  <2>2. nleaves' \in 0..MaxLeaves
    BY <1>0, <1>6, BoundsAssumption DEF surfaceDestroyed, Typed
  <2>3. /\ surfaceReady' = FALSE
        /\ UNCHANGED <<westonVars, windowVars, resumed, finished, destroyed, customMinimized,
                       keepDisplayWhileBackgrounded, restoring>>
    BY <1>6 DEF surfaceDestroyed
  <2>4. Typed'
    BY <1>0, <2>1, <2>2, <2>3 DEF Typed, Socket, westonVars, windowVars
  <2> QED BY <1>3, <2>1, <2>3, <2>4 DEF westonVars, windowVars
<1>7. CASE surfaceChanged
  <2>1. Socket /\ display' \in BOOLEAN
    BY <1>1, <1>7 DEF surfaceChanged, restartDisplay
  <2>2. /\ surfaceReady' = TRUE
        /\ UNCHANGED <<westonVars, windowVars, resumed, finished, destroyed, nleaves,
                       customMinimized, keepDisplayWhileBackgrounded, restoring>>
    BY <1>7 DEF surfaceChanged
  <2>3. Typed'
    BY <1>0, <2>1, <2>2 DEF Typed, Socket, westonVars, windowVars
  <2> QED BY <1>3, <2>1, <2>2, <2>3 DEF westonVars, windowVars
<1>8. CASE onDestroy
  <2>1. Socket /\ display' \in BOOLEAN
    BY <1>1, <1>8 DEF onDestroy, stopDisplayAsync
  <2>2. /\ destroyed' = TRUE /\ activeWindowIds' = {} /\ keepDisplayWhileBackgrounded' = FALSE
        /\ finished # "no" /\ emptyWindowExitGeneration' = emptyWindowExitGeneration + 1
        /\ UNCHANGED <<westonVars, lastWindowId, windowMinimizedByCompositor, timers, resumed,
                       surfaceReady, finished, nleaves, customMinimized, restoring>>
    BY <1>8 DEF onDestroy
  <2>3. emptyWindowExitGeneration' \in Nat /\ timers' \subseteq 1..emptyWindowExitGeneration'
    BY <1>0, <2>2 DEF Typed
  <2>4. Typed'
    BY <1>0, <2>1, <2>2, <2>3 DEF Typed, Socket, westonVars
  <2> QED BY <1>3, <2>1, <2>2, <2>4 DEF westonVars
<1> QED BY <1>4, <1>5, <1>6, <1>7, <1>8

-----------------------------------------------------------------------------
\* The invariant holds at the beginning and is kept by every step.
LEMMA TaskInvHolds == Spec => []TaskInv
<1>1. Init => TaskInv
  <2> SUFFICES ASSUME Init PROVE TaskInv
    OBVIOUS
  <2>1. Typed
    <3>1. /\ win \in [Windows -> {"none", "open", "minimized", "closed"}]
          /\ events \in Seq(Events) /\ commands \in Seq(Windows)
      BY DEF Init
    <3>2. /\ nminimize \in 0..MaxMinimize /\ nleaves \in 0..MaxLeaves
          /\ emptyWindowExitGeneration \in Nat /\ timers \subseteq 1..emptyWindowExitGeneration
      BY BoundsAssumption DEF Init
    <3>3. /\ linked \in BOOLEAN /\ lost \in BOOLEAN /\ display \in BOOLEAN
          /\ resumed \in BOOLEAN /\ surfaceReady \in BOOLEAN /\ customMinimized \in BOOLEAN
          /\ destroyed \in BOOLEAN /\ windowMinimizedByCompositor \in BOOLEAN
          /\ keepDisplayWhileBackgrounded \in BOOLEAN
      BY DEF Init
    <3>4. /\ finished \in {"no", "timer", "back"} /\ activeWindowIds \subseteq Windows
          /\ lastWindowId \in Windows \cup {NoWindow} /\ restoring \subseteq Windows
      BY DEF Init
    <3> QED BY <3>1, <3>2, <3>3, <3>4 DEF Typed
  <2>2. CloseMeansClosed /\ EveryWindowKnown
    BY DEF Init, CloseMeansClosed, EveryWindowKnown, Live
  <2> QED BY <2>1, <2>2 DEF TaskInv
<1>2. TaskInv /\ [Next]_vars => TaskInv'
  <2>1. ASSUME TaskInv, UNCHANGED vars PROVE TaskInv'
    BY <2>1 DEF vars, westonVars, linkVars, windowVars, lifeVars, TaskInv, Typed,
       CloseMeansClosed, EveryWindowKnown, Live, Announced
  <2>2. ASSUME TaskInv, User PROVE TaskInv'
    BY <2>2, CalmKeeps, CutKeeps DEF User
  <2> QED BY <2>1, <2>2, ShellKeeps, TaskKeeps, CalmKeeps DEF Next
<1> QED BY <1>1, <1>2, PTL DEF Spec

\* The task keeps its types (TaskTypeOK): every delayed check belongs to a generation
\* that was given out.
THEOREM TaskTypes == Spec => []TaskTypeOK
<1>1. TaskInv => TaskTypeOK
  BY TypedIsTypeOK DEF TaskInv
<1> QED BY <1>1, TaskInvHolds, PTL

\* The delayed check never removes the task of a window it has heard of
\* (NotRemovedWhileOpen), whatever opens, closes, minimizes, pauses or reconnects.
THEOREM TaskNotRemoved == Spec => NotRemovedWhileOpen
<1>1. TaskInv /\ [Next]_vars =>
        [finished = "no" /\ finished' = "timer" /\ ~lost =>
           \A w \in Windows : Live(w) =>
             \E i \in 1..Len(events) : events[i] = [type |-> "OPENED", id |-> w]]_vars
  <2> SUFFICES ASSUME TaskInv, Next, finished = "no", finished' = "timer", ~lost,
                      NEW w \in Windows, Live(w)
               PROVE  \E i \in 1..Len(events) : events[i] = [type |-> "OPENED", id |-> w]
    OBVIOUS
  <2>1. activeWindowIds = {}
    <3>1. CASE \E g \in timers : FinishIfNoWindows(g)
      BY <3>1 DEF FinishIfNoWindows
    <3>2. CASE User \/ Shell \/ LinkUp
      BY <3>2 DEF User, minimizeCustomWindow, TapRestore, onPause, onResume, surfaceDestroyed,
         surfaceChanged, closeFromBack, onDestroy, Shell, desktop_surface_added,
         desktop_surface_removed, desktop_surface_minimized_requested, acglass_restore_window,
         LinkUp, lifeVars
    <3>3. CASE handleWindowEvent \/ \E v \in restoring : RestoreSend(v) \/ RestoreGiveUp(v)
      BY <3>3 DEF handleWindowEvent, HandleCloseMinimized, HandleClosed, HandleMinimized,
         HandleShown, HandleIgnored, Handles, RestoreSend, RestoreGiveUp, lifeVars
    <3> QED BY <3>1, <3>2, <3>3 DEF Next, Task, Timer
  <2>2. Announced(w)
    BY <2>1 DEF TaskInv, EveryWindowKnown
  <2>3. DOMAIN events = 1..Len(events)
    BY DEF TaskInv, Typed
  <2> QED BY <2>2, <2>3 DEF Announced
<1> QED BY <1>1, TaskInvHolds, PTL DEF Spec, NotRemovedWhileOpen
=============================================================================
