---------------------------- MODULE DisplayTask ----------------------------
(***************************************************************************)
(* One Android display task (DisplayActivity) and the windows of its Linux *)
(* app in Weston's kiosk shell.  Window events travel to the task and      *)
(* restore commands to Weston over the data socket of the display link;    *)
(* whatever is sent without a link is lost.                                *)
(*                                                                         *)
(* `events` is the data socket followed by the queue of the UI thread: the *)
(* thread acglass-window-events only moves events from one to the other.   *)
(* The task was opened for an app (hasLaunchToken).                        *)
(***************************************************************************)
EXTENDS Naturals, Sequences

CONSTANTS
  Windows,        \* windows the app may open, by acglass_window_id
  NoWindow,       \* window id 0
  MaxMinimize,    \* bound: requests to minimize a window
  MaxLeaves       \* bound: how often the user leaves or hides the task or
                  \* Android takes its surface

ASSUME NoWindowAssumption == NoWindow \notin Windows
ASSUME BoundsAssumption == MaxMinimize \in Nat /\ MaxLeaves \in Nat

VARIABLES
  win,            \* the windows in the kiosk shell
  events,         \* window events on their way to the UI thread
  commands,       \* restore commands on their way to Weston
  linked,         \* the data socket connects task and Weston
  lost,           \* some event was sent without a link, or was cut off with it
  display,        \* the render thread runs
  resumed, surfaceReady, customMinimized,
  finished,       \* "no", or what set closingFromBack: "timer" or "back"
  destroyed,      \* onDestroy ran
  activeWindowIds, lastWindowId,
  windowMinimizedByCompositor, keepDisplayWhileBackgrounded,
  emptyWindowExitGeneration,
  timers,         \* generations of the delayed checks that are due
  restoring,      \* window ids of the threads that send a restore command
  nminimize, nleaves

westonVars == <<win, nminimize>>
linkVars == <<events, commands, linked, lost, display>>
windowVars == <<activeWindowIds, lastWindowId, windowMinimizedByCompositor,
                emptyWindowExitGeneration, timers>>
lifeVars == <<resumed, surfaceReady, finished, destroyed, nleaves>>
vars == <<westonVars, linkVars, windowVars, lifeVars, customMinimized,
          keepDisplayWhileBackgrounded, restoring>>

Events == [type : {"OPENED", "CLOSED", "MINIMIZED", "RESTORED"}, id : Windows]

TaskTypeOK ==
  /\ win \in [Windows -> {"none", "open", "minimized", "closed"}]
  /\ events \in Seq(Events)
  /\ commands \in Seq(Windows)
  /\ {linked, lost, display, resumed, surfaceReady, customMinimized, destroyed,
      windowMinimizedByCompositor, keepDisplayWhileBackgrounded} \subseteq BOOLEAN
  /\ finished \in {"no", "timer", "back"}
  /\ activeWindowIds \subseteq Windows
  /\ lastWindowId \in Windows \cup {NoWindow}
  /\ emptyWindowExitGeneration \in Nat
  /\ timers \subseteq 1..emptyWindowExitGeneration
  /\ restoring \subseteq Windows
  /\ nminimize \in 0..MaxMinimize
  /\ nleaves \in 0..MaxLeaves

Init ==
  /\ win = [w \in Windows |-> "none"]
  /\ events = <<>>
  /\ commands = <<>>
  /\ linked = FALSE
  /\ lost = FALSE
  /\ display = FALSE
  /\ resumed = TRUE
  /\ surfaceReady = FALSE
  /\ customMinimized = FALSE
  /\ finished = "no"
  /\ destroyed = FALSE
  /\ activeWindowIds = {}
  /\ lastWindowId = NoWindow
  /\ windowMinimizedByCompositor = FALSE
  /\ keepDisplayWhileBackgrounded = FALSE
  /\ emptyWindowExitGeneration = 0
  /\ timers = {}
  /\ restoring = {}
  /\ nminimize = 0
  /\ nleaves = 0

-----------------------------------------------------------------------------
(* The kiosk shell. *)

\* push_window_event drops the event while the producer is in fallback.
acglass_emit_window_event(type, w) ==
  /\ events' = IF linked THEN Append(events, [type |-> type, id |-> w]) ELSE events
  /\ lost' = (lost \/ ~linked)

desktop_surface_added(w) ==
  /\ win[w] = "none"
  /\ win' = [win EXCEPT ![w] = "open"]
  /\ acglass_emit_window_event("OPENED", w)
  /\ UNCHANGED <<commands, linked, display, windowVars, lifeVars, customMinimized,
                 keepDisplayWhileBackgrounded, restoring, nminimize>>

desktop_surface_removed(w) ==
  /\ win[w] \in {"open", "minimized"}
  /\ win' = [win EXCEPT ![w] = "closed"]
  /\ acglass_emit_window_event("CLOSED", w)
  /\ UNCHANGED <<commands, linked, display, windowVars, lifeVars, customMinimized,
                 keepDisplayWhileBackgrounded, restoring, nminimize>>

desktop_surface_minimized_requested(w) ==
  /\ win[w] = "open"
  /\ nminimize < MaxMinimize
  /\ nminimize' = nminimize + 1
  /\ win' = [win EXCEPT ![w] = "minimized"]
  /\ acglass_emit_window_event("MINIMIZED", w)
  /\ UNCHANGED <<commands, linked, display, windowVars, lifeVars, customMinimized,
                 keepDisplayWhileBackgrounded, restoring>>

acglass_restore_window ==
  /\ commands # <<>>
  /\ commands' = Tail(commands)
  /\ LET w == Head(commands) IN
     IF win[w] \in {"open", "minimized"}
     THEN /\ win' = [win EXCEPT ![w] = "open"]
          /\ acglass_emit_window_event("RESTORED", w)
     ELSE UNCHANGED <<win, events, lost>>
  /\ UNCHANGED <<linked, display, windowVars, lifeVars, customMinimized,
                 keepDisplayWhileBackgrounded, restoring, nminimize>>

-----------------------------------------------------------------------------
(* The display link, whose inside DisplayLink describes. *)

LinkUp ==
  /\ display /\ ~linked
  /\ linked' = TRUE
  /\ UNCHANGED <<westonVars, events, commands, lost, display, windowVars, lifeVars,
                 customMinimized, keepDisplayWhileBackgrounded, restoring>>

\* nativeStart and nativeStop disconnect: what the UI thread does not have yet
\* is gone, and so are the commands.
Cut ==
  /\ linked' = FALSE
  /\ commands' = <<>>
  /\ \E n \in (IF linked THEN 0 ELSE Len(events))..Len(events) :
       /\ events' = SubSeq(events, 1, n)
       /\ lost' = (lost \/ n < Len(events))

restartDisplay == Cut /\ display' = TRUE

stopDisplayAsync == Cut /\ display' = FALSE

-----------------------------------------------------------------------------
(* handleWindowEvent, on the UI thread. *)

\* An event of the given type is next and the task is not closing; it becomes
\* the last window.
Handles(type) ==
  /\ events # <<>>
  /\ Head(events).type = type
  /\ finished = "no"
  /\ events' = Tail(events)
  /\ lastWindowId' = Head(events).id
  /\ UNCHANGED <<westonVars, commands, linked, lost, display, lifeVars, restoring>>

\* A close while the compositor has a window minimized is taken for that window's.
HandleCloseMinimized ==
  /\ Handles("CLOSED")
  /\ windowMinimizedByCompositor
  /\ UNCHANGED <<activeWindowIds, windowMinimizedByCompositor, customMinimized,
                 keepDisplayWhileBackgrounded, emptyWindowExitGeneration, timers>>

\* Mutation: emptyWindowExitGeneration++ instead of ++emptyWindowExitGeneration.
scheduleFinishIfNoWindowsPost ==
  /\ emptyWindowExitGeneration' = emptyWindowExitGeneration + 1
  /\ timers' = timers \cup {emptyWindowExitGeneration}

scheduleFinishIfNoWindows ==
  /\ emptyWindowExitGeneration' = emptyWindowExitGeneration + 1
  /\ timers' = timers \cup {emptyWindowExitGeneration + 1}

HandleClosed ==
  /\ Handles("CLOSED")
  /\ ~windowMinimizedByCompositor
  /\ activeWindowIds' = activeWindowIds \ {Head(events).id}
  /\ IF activeWindowIds' = {}
     THEN scheduleFinishIfNoWindows
     ELSE UNCHANGED <<emptyWindowExitGeneration, timers>>
  /\ UNCHANGED <<windowMinimizedByCompositor, customMinimized,
                 keepDisplayWhileBackgrounded>>

HandleMinimized ==
  /\ Handles("MINIMIZED")
  /\ windowMinimizedByCompositor' = TRUE
  /\ keepDisplayWhileBackgrounded' = TRUE
  /\ customMinimized' = TRUE
  /\ UNCHANGED <<activeWindowIds, emptyWindowExitGeneration, timers>>

\* Mutation: an opened window is not recorded, only the generation advances.
HandleShownUnrecorded ==
  /\ Handles("OPENED") \/ Handles("RESTORED")
  /\ emptyWindowExitGeneration' = emptyWindowExitGeneration + 1
  /\ windowMinimizedByCompositor' = FALSE
  /\ keepDisplayWhileBackgrounded' = FALSE
  /\ customMinimized' = FALSE
  /\ UNCHANGED <<activeWindowIds, timers>>

HandleShown ==
  /\ Handles("OPENED") \/ Handles("RESTORED")
  /\ activeWindowIds' = activeWindowIds \cup {Head(events).id}
  /\ emptyWindowExitGeneration' = emptyWindowExitGeneration + 1
  /\ windowMinimizedByCompositor' = FALSE
  /\ keepDisplayWhileBackgrounded' = FALSE
  /\ customMinimized' = FALSE
  /\ UNCHANGED timers

\* closingFromBack: events are read and ignored.
HandleIgnored ==
  /\ events # <<>>
  /\ finished # "no"
  /\ events' = Tail(events)
  /\ UNCHANGED <<westonVars, commands, linked, lost, display, windowVars, lifeVars,
                 customMinimized, keepDisplayWhileBackgrounded, restoring>>

handleWindowEvent ==
  \/ HandleCloseMinimized \/ HandleClosed \/ HandleMinimized \/ HandleShown
  \/ HandleIgnored

\* EMPTY_WINDOW_EXIT_DELAY_MS after the last window closed.
FinishIfNoWindows(g) ==
  /\ timers' = timers \ {g}
  /\ finished' = IF finished = "no" /\ g = emptyWindowExitGeneration /\ activeWindowIds = {}
                 THEN "timer" ELSE finished
  /\ UNCHANGED <<westonVars, linkVars, activeWindowIds, lastWindowId,
                 windowMinimizedByCompositor, emptyWindowExitGeneration, resumed,
                 surfaceReady, destroyed, nleaves, customMinimized,
                 keepDisplayWhileBackgrounded, restoring>>

-----------------------------------------------------------------------------
(* The user and Android. *)

\* The button "_" of the frame.
minimizeCustomWindow ==
  /\ resumed /\ ~customMinimized /\ ~destroyed
  /\ nleaves < MaxLeaves
  /\ nleaves' = nleaves + 1
  /\ customMinimized' = TRUE
  /\ UNCHANGED <<westonVars, linkVars, windowVars, resumed, surfaceReady, finished,
                 destroyed, keepDisplayWhileBackgrounded, restoring>>

requestRestoreLastWindow ==
  restoring' = IF windowMinimizedByCompositor /\ lastWindowId # NoWindow
               THEN restoring \cup {lastWindowId} ELSE restoring

\* restoreCustomWindow(true), by a tap on the desktop behind the hidden frame
TapRestore ==
  /\ resumed /\ customMinimized /\ ~destroyed
  /\ customMinimized' = FALSE
  /\ requestRestoreLastWindow
  /\ UNCHANGED <<westonVars, linkVars, windowVars, lifeVars,
                 keepDisplayWhileBackgrounded>>

\* The thread acglass-window-restore: one command, unless the window is shown by
\* then or twelve attempts found no link.
RestoreSend(w) ==
  /\ w \in restoring
  /\ windowMinimizedByCompositor /\ linked
  /\ commands' = Append(commands, w)
  /\ restoring' = restoring \ {w}
  /\ UNCHANGED <<westonVars, events, linked, lost, display, windowVars, lifeVars,
                 customMinimized, keepDisplayWhileBackgrounded>>

RestoreGiveUp(w) ==
  /\ w \in restoring
  /\ ~windowMinimizedByCompositor \/ ~linked
  /\ restoring' = restoring \ {w}
  /\ UNCHANGED <<westonVars, linkVars, windowVars, lifeVars, customMinimized,
                 keepDisplayWhileBackgrounded>>

\* Home, or another task comes to the front.
onPause ==
  /\ resumed /\ ~destroyed
  /\ nleaves < MaxLeaves
  /\ nleaves' = nleaves + 1
  /\ resumed' = FALSE
  /\ IF keepDisplayWhileBackgrounded THEN UNCHANGED linkVars ELSE stopDisplayAsync
  /\ UNCHANGED <<westonVars, windowVars, surfaceReady, finished, destroyed,
                 customMinimized, keepDisplayWhileBackgrounded, restoring>>

\* nativeSetSocketPath makes a running render thread reconnect.
onResume ==
  /\ ~resumed /\ finished = "no"
  /\ resumed' = TRUE
  /\ keepDisplayWhileBackgrounded' = FALSE
  /\ IF surfaceReady
     THEN restartDisplay /\ requestRestoreLastWindow
     ELSE Cut /\ UNCHANGED <<display, restoring>>
  /\ UNCHANGED <<westonVars, windowVars, surfaceReady, finished, destroyed, nleaves,
                 customMinimized>>

\* Android may take the surface of a hidden frame or a paused task.
surfaceDestroyed ==
  /\ surfaceReady /\ (customMinimized \/ ~resumed)
  /\ nleaves < MaxLeaves
  /\ nleaves' = nleaves + 1
  /\ surfaceReady' = FALSE
  /\ stopDisplayAsync
  /\ UNCHANGED <<westonVars, windowVars, resumed, finished, destroyed, customMinimized,
                 keepDisplayWhileBackgrounded, restoring>>

surfaceChanged ==
  /\ ~surfaceReady /\ resumed /\ ~customMinimized /\ ~destroyed
  /\ surfaceReady' = TRUE
  /\ restartDisplay
  /\ UNCHANGED <<westonVars, windowVars, resumed, finished, destroyed, nleaves,
                 customMinimized, keepDisplayWhileBackgrounded, restoring>>

\* The second press of Back, or the X of the frame.
closeFromBack ==
  /\ resumed /\ finished = "no"
  /\ finished' = "back"
  /\ UNCHANGED <<westonVars, linkVars, windowVars, resumed, surfaceReady, destroyed,
                 nleaves, customMinimized, keepDisplayWhileBackgrounded, restoring>>

onDestroy ==
  /\ finished # "no" /\ ~destroyed
  /\ destroyed' = TRUE
  /\ activeWindowIds' = {}
  /\ emptyWindowExitGeneration' = emptyWindowExitGeneration + 1
  /\ keepDisplayWhileBackgrounded' = FALSE
  /\ stopDisplayAsync
  /\ UNCHANGED <<westonVars, lastWindowId, windowMinimizedByCompositor, timers, resumed,
                 surfaceReady, finished, nleaves, customMinimized, restoring>>

-----------------------------------------------------------------------------
Shell ==
  \/ \E w \in Windows : \/ desktop_surface_added(w)
                        \/ desktop_surface_removed(w)
                        \/ desktop_surface_minimized_requested(w)
  \/ acglass_restore_window

Timer == \E g \in timers : FinishIfNoWindows(g)

Task ==
  \/ handleWindowEvent
  \/ Timer
  \/ \E w \in restoring : RestoreSend(w) \/ RestoreGiveUp(w)

User ==
  \/ minimizeCustomWindow \/ TapRestore \/ onPause \/ onResume \/ surfaceDestroyed
  \/ surfaceChanged \/ closeFromBack \/ onDestroy

Next == Shell \/ LinkUp \/ Task \/ User

\* The UI thread handles what is posted to it, and its delayed checks come.
Fairness == WF_vars(handleWindowEvent) /\ WF_vars(Timer)

Spec == Init /\ [][Next]_vars
LiveSpec == Spec /\ Fairness

-----------------------------------------------------------------------------
(* Properties. *)

Live(w) == win[w] \in {"open", "minimized"}

AllClosed == (\E w \in Windows : win[w] = "closed") /\ \A w \in Windows : ~Live(w)

\* The delayed check never removes the task of a window that is still there: as
\* long as no event was lost, the only live windows are those whose opening the
\* task has yet to hear of (scheduleFinishIfNoWindows and its generations).
NotRemovedWhileOpen ==
  [][finished = "no" /\ finished' = "timer" /\ ~lost =>
       \A w \in Windows : Live(w) =>
         \E i \in 1..Len(events) : events[i] = [type |-> "OPENED", id |-> w]]_vars

\* "When the Linux GUI window closes, ACGlass removes the matching Android display
\* task" (README.md), for events that are not lost: once all windows are closed
\* the task is finished, unless another window opens.
ClosedTaskIsRemoved ==
  (AllClosed /\ ~lost) ~> (finished # "no" \/ ~AllClosed \/ lost)

\* What handleWindowEvent does keep of it: a task none of whose windows was ever
\* minimized is removed after the last of them closed, however windows, delayed
\* checks, pauses and the link interleave.
PlainTaskIsRemoved ==
  (AllClosed /\ ~lost /\ nminimize = 0) ~> (finished # "no" \/ ~AllClosed \/ lost)
=============================================================================
