---------------------------- MODULE RepaintLoop ----------------------------
(***************************************************************************)
(* The repaint loop of Weston's only output and the backend behind it:     *)
(* libweston/compositor.c, surface-state.c, fifo.c and                     *)
(* backend-anland/anland.c.  Everything runs on one event loop; an action  *)
(* is one callback of that loop, in any order.                             *)
(*                                                                         *)
(* Clients commit content updates, which a fifo barrier may hold back in a *)
(* queue of transactions.  The consumer announces buffers; a repaint hands *)
(* the announced one back.  Time is left out: a timer that is armed fires. *)
(* The consumer of ACGlass asks for refresh 0, so a frame that was painted *)
(* is finished from an idle callback.                                      *)
(***************************************************************************)
EXTENDS Naturals, Sequences, FiniteSets

CONSTANTS
  Surfaces,         \* toplevel surfaces, all on the output
  Commits,          \* what clients commit
  MaxQueue          \* bound: transactions of one surface

\* content: anything that makes weston_surface_status dirty; wait, barrier: the
\* two requests of wp_fifo.  Every commit also asks for a frame callback.
ASSUME CommitsAssumption ==
  Commits \subseteq [content : BOOLEAN, wait : BOOLEAN, barrier : BOOLEAN]
ASSUME MaxQueueAssumption == MaxQueue \in Nat

VARIABLES
  ready,            \* output->ready
  repaint_status, repaint_needed,
  idle_repaint_source,
  repaint_timer,    \* the compositor's repaint timer is armed
  finish_idle,      \* idle callbacks finish_frame_idle that are queued
  frame_timer,      \* output->finish_frame_timer is armed
  queue,            \* surface -> transactions that wait
  fifo_barrier,     \* surfaces with a barrier
  callbacks,        \* surfaces with frame callbacks to send
  content,          \* surfaces with content that was not painted
  hidden,           \* surfaces the shell keeps below the background
  occluded,         \* surfaces the last repaint found invisible, and unchanged
  in_fallback, dmabuf_received, consumer_ready,
  imported,         \* buf_count > 0: there are buffers to paint into
  buf_ready,        \* the consumer's eventfd is readable
  awaited           \* the consumer waits for the buffer it announced

loopVars == <<ready, repaint_status, repaint_needed, idle_repaint_source, repaint_timer,
              finish_idle, frame_timer>>
surfaceVars == <<queue, fifo_barrier, callbacks, content, hidden, occluded>>
linkVars == <<in_fallback, dmabuf_received, consumer_ready, imported, buf_ready, awaited>>
vars == <<loopVars, surfaceVars, linkVars>>

\* Every variable keeps its type: no more frames are finished than were begun,
\* and the loop is in one of its four states.
RepaintTypeOK ==
  /\ {ready, repaint_needed, idle_repaint_source, repaint_timer, frame_timer,
      in_fallback, dmabuf_received, consumer_ready, imported, buf_ready, awaited}
       \subseteq BOOLEAN
  /\ repaint_status \in {"NOT_SCHEDULED", "BEGIN_FROM_IDLE", "SCHEDULED",
                         "AWAITING_COMPLETION"}
  /\ finish_idle \in Nat
  /\ queue \in [Surfaces -> Seq(Commits)]
  /\ \A S \in {fifo_barrier, callbacks, content, hidden, occluded} : S \subseteq Surfaces

\* The backend starts with a bundle, and without buffers.
Init ==
  /\ ready = FALSE
  /\ repaint_status = "NOT_SCHEDULED"
  /\ repaint_needed = FALSE
  /\ idle_repaint_source = FALSE
  /\ repaint_timer = FALSE
  /\ finish_idle = 0
  /\ frame_timer = FALSE
  /\ queue = [s \in Surfaces |-> <<>>]
  /\ fifo_barrier = {}
  /\ callbacks = {}
  /\ content = {}
  /\ hidden = {}
  /\ occluded = {}
  /\ in_fallback = FALSE
  /\ dmabuf_received = FALSE
  /\ consumer_ready = FALSE
  /\ imported = FALSE
  /\ buf_ready = FALSE
  /\ awaited = FALSE

-----------------------------------------------------------------------------
(* weston_output_schedule_repaint, if `wanted`. *)
Schedule(wanted) ==
  IF wanted /\ ready'
  THEN /\ repaint_needed' = TRUE
       /\ repaint_status' = IF repaint_status = "NOT_SCHEDULED"
                            THEN "BEGIN_FROM_IDLE" ELSE repaint_status
       /\ idle_repaint_source' =
            (idle_repaint_source \/ repaint_status = "NOT_SCHEDULED")
  ELSE UNCHANGED <<repaint_needed, repaint_status, idle_repaint_source>>

\* The rest of the loop is not touched by a handler that only schedules.
OnlySchedules(wanted) ==
  /\ UNCHANGED <<ready, repaint_timer, finish_idle, frame_timer>>
  /\ Schedule(wanted)

\* weston_output_set_ready, by the shell once there is a background
SetReady ==
  /\ ~ready
  /\ ready' = TRUE
  /\ Schedule(TRUE)
  /\ UNCHANGED <<repaint_timer, finish_idle, frame_timer, surfaceVars, linkVars>>

-----------------------------------------------------------------------------
(* Content updates.  A function A names the updates that are applied to    *)
(* each surface, in order (weston_surface_apply).                          *)

BarrierAfter(A) ==
  fifo_barrier \cup {s \in Surfaces : \E i \in DOMAIN A[s] : A[s][i].barrier}

ContentAfter(A) ==
  content \cup {s \in Surfaces : \E i \in DOMAIN A[s] : A[s][i].content}

CallbacksAfter(A) == callbacks \cup {s \in Surfaces : A[s] # <<>>}

\* Mutation: a barrier alone does not schedule a repaint.
NeedsRepaintNoFifo(A) ==
  \E s \in Surfaces \ occluded : \E i \in DOMAIN A[s] : A[s][i].content

\* weston_surface_schedule_repaint: for a barrier, and for visible content
NeedsRepaint(A) ==
  \E s \in Surfaces :
    /\ A[s] # <<>>
    /\ \/ s \in BarrierAfter(A)
       \/ s \notin occluded /\ \E i \in DOMAIN A[s] : A[s][i].content

\* weston_fifo_surface_state_ready, with the given barriers in place
StateReady(s, c, barriers) == c.wait => s \notin barriers \/ s \in occluded

\* weston_surface_commit: an update that is not ready, or comes after one that
\* waits, becomes a transaction; any other is applied.
Commit(s, c) ==
  LET A == [t \in Surfaces |-> IF t = s THEN <<c>> ELSE <<>>]
  IN  /\ UNCHANGED <<hidden, occluded, linkVars>>
      /\ IF queue[s] # <<>> \/ ~StateReady(s, c, fifo_barrier)
         THEN /\ Len(queue[s]) < MaxQueue
              /\ queue' = [queue EXCEPT ![s] = Append(@, c)]
              /\ UNCHANGED <<loopVars, fifo_barrier, callbacks, content>>
         ELSE /\ fifo_barrier' = BarrierAfter(A)
              /\ content' = ContentAfter(A)
              /\ callbacks' = CallbacksAfter(A)
              /\ OnlySchedules(NeedsRepaint(A))
              /\ UNCHANGED queue

\* The surface goes away with its transactions, its barrier and its callbacks;
\* what was below it has to be painted.
DestroySurface(s) ==
  /\ queue' = [queue EXCEPT ![s] = <<>>]
  /\ fifo_barrier' = fifo_barrier \ {s}
  /\ callbacks' = callbacks \ {s}
  /\ content' = content \ {s}
  /\ hidden' = hidden \ {s}
  /\ occluded' = occluded \ {s}
  /\ OnlySchedules(s \notin occluded)
  /\ UNCHANGED linkVars

\* The shell moves the view between the normal and the inactive layer; until the
\* next repaint the surface counts as visible.
MoveToLayer(s) ==
  /\ hidden' = IF s \in hidden THEN hidden \ {s} ELSE hidden \cup {s}
  /\ occluded' = occluded \ {s}
  /\ OnlySchedules(TRUE)
  /\ UNCHANGED <<queue, fifo_barrier, callbacks, content, linkVars>>

-----------------------------------------------------------------------------
(* The loop. *)

\* weston_output_finish_frame: the next repaint is scheduled, needed or not.
finish_frame ==
  /\ repaint_status' = "SCHEDULED"
  /\ repaint_timer' = TRUE

\* idle_repaint, and with it anland_output_start_repaint_loop
idle_repaint ==
  /\ idle_repaint_source
  /\ idle_repaint_source' = FALSE
  /\ finish_frame
  /\ UNCHANGED <<ready, repaint_needed, finish_idle, frame_timer, surfaceVars, linkVars>>

\* Mutation: the idle callback stays queued after it ran, and runs again.
finish_frame_idleAgain ==
  /\ repaint_status # "NOT_SCHEDULED"
  /\ finish_idle' = finish_idle - 1
  /\ finish_frame
  /\ UNCHANGED <<ready, repaint_needed, idle_repaint_source, frame_timer, surfaceVars,
                 linkVars>>

finish_frame_idle ==
  /\ finish_idle > 0
  /\ finish_idle' = finish_idle - 1
  /\ finish_frame
  /\ UNCHANGED <<ready, repaint_needed, idle_repaint_source, frame_timer, surfaceVars,
                 linkVars>>

\* It also schedules a repaint for a buffer that is still to be painted.
finish_frame_handler ==
  /\ frame_timer
  /\ frame_timer' = FALSE
  /\ finish_frame
  /\ repaint_needed' = (repaint_needed \/ (consumer_ready /\ ready))
  /\ UNCHANGED <<ready, idle_repaint_source, finish_idle, surfaceVars, linkVars>>

\* Mutation: waiting transactions are left to the next latch.
AppliesNone(s, n) == n = 0

\* weston_compositor_apply_transactions: of the transactions of s the first n are
\* applied, each ready after those before it, up to the first that is not.
Applies(s, n) ==
  LET q == queue[s]
      Barriers(i) == IF \E j \in 1..(i - 1) : q[j].barrier
                     THEN fifo_barrier \cup {s} ELSE fifo_barrier
      Ready(i) == StateReady(s, q[i], Barriers(i))
  IN  /\ n <= Len(q)
      /\ \A i \in 1..n : Ready(i)
      /\ n < Len(q) => ~Ready(n + 1)

\* Mutation: without buffers the frame timer is not armed.
anland_output_repaintStops ==
  IF ~imported
  THEN UNCHANGED <<frame_timer, finish_idle, consumer_ready, awaited>>
  ELSE /\ finish_idle' = finish_idle + 1
       /\ awaited' = (awaited /\ ~consumer_ready)
       /\ consumer_ready' = FALSE
       /\ UNCHANGED frame_timer

\* Mutation: a painted frame arms the frame timer as well.
anland_output_repaintTwice ==
  /\ frame_timer' = TRUE
  /\ finish_idle' = IF imported THEN finish_idle + 1 ELSE finish_idle
  /\ awaited' = (awaited /\ ~(imported /\ consumer_ready))
  /\ consumer_ready' = (consumer_ready /\ ~imported)

\* anland_output_repaint: without buffers nothing is painted, and the frame
\* timer comes back to it; otherwise the selected buffer is painted, and
\* handed back (trigger_refresh) if the consumer announced it.
anland_output_repaint ==
  IF ~imported
  THEN /\ frame_timer' = TRUE
       /\ UNCHANGED <<finish_idle, consumer_ready, awaited>>
  ELSE /\ finish_idle' = finish_idle + 1
       /\ awaited' = (awaited /\ ~consumer_ready)
       /\ consumer_ready' = FALSE
       /\ UNCHANGED frame_timer

\* weston_output_repaint after updates A were applied: the latch clears the
\* barriers, and surfaces that can be seen get their frame callbacks.
weston_output_repaint(A) ==
  /\ fifo_barrier' = {}
  /\ occluded' = hidden
  /\ content' = ContentAfter(A) \cap hidden
  /\ callbacks' = CallbacksAfter(A) \cap hidden
  /\ repaint_needed' = FALSE
  /\ repaint_status' = "AWAITING_COMPLETION"
  /\ anland_output_repaint
  /\ UNCHANGED <<in_fallback, dmabuf_received, imported, buf_ready>>

\* weston_output_check_repaint finds nothing to do and leaves the loop.
LeaveLoop(A) ==
  /\ fifo_barrier' = BarrierAfter(A)
  /\ content' = ContentAfter(A)
  /\ callbacks' = CallbacksAfter(A)
  /\ repaint_status' = "NOT_SCHEDULED"
  /\ UNCHANGED <<occluded, repaint_needed, finish_idle, frame_timer, linkVars>>

output_repaint_timer_handler ==
  \E n \in [Surfaces -> 0..MaxQueue] :
    LET A == [s \in Surfaces |-> SubSeq(queue[s], 1, n[s])]
    IN  /\ repaint_timer
        /\ repaint_timer' = FALSE
        /\ \A s \in Surfaces : Applies(s, n[s])
        /\ queue' = [s \in Surfaces |-> SubSeq(queue[s], n[s] + 1, Len(queue[s]))]
        /\ IF repaint_needed \/ NeedsRepaint(A) \/ BarrierAfter(A) # {}
           THEN weston_output_repaint(A)
           ELSE LeaveLoop(A)
        /\ UNCHANGED <<ready, idle_repaint_source, hidden>>

-----------------------------------------------------------------------------
(* The backend and the consumer. *)

\* select_dmabuf of the consumer, which waits for every buffer it announces
Announce ==
  /\ ~in_fallback
  /\ ~awaited
  /\ awaited' = TRUE
  /\ buf_ready' = TRUE
  /\ UNCHANGED <<loopVars, surfaceVars, in_fallback, dmabuf_received, consumer_ready,
                 imported>>

\* Mutation: a later buffer is noted, and no repaint scheduled for it.
anland_buf_ready_handlerSilent ==
  /\ ~in_fallback
  /\ buf_ready
  /\ buf_ready' = FALSE
  /\ consumer_ready' = TRUE
  /\ dmabuf_received' = TRUE
  /\ imported' \in IF dmabuf_received THEN {imported} ELSE {TRUE, imported}
  /\ OnlySchedules(~dmabuf_received)
  /\ UNCHANGED <<surfaceVars, in_fallback, awaited>>

\* The first event of a bundle brings the buffers; importing them may fail.
anland_buf_ready_handler ==
  /\ ~in_fallback
  /\ buf_ready
  /\ buf_ready' = FALSE
  /\ consumer_ready' = TRUE
  /\ dmabuf_received' = TRUE
  /\ imported' \in IF dmabuf_received THEN {imported} ELSE {TRUE, imported}
  /\ OnlySchedules(TRUE)
  /\ UNCHANGED <<surfaceVars, in_fallback, awaited>>

\* The consumer is gone; the renderbuffers stay until the reconnect timer.
anland_fallback_cb ==
  /\ ~in_fallback
  /\ in_fallback' = TRUE
  /\ consumer_ready' = FALSE
  /\ dmabuf_received' = FALSE
  /\ buf_ready' = FALSE
  /\ awaited' = FALSE
  /\ UNCHANGED <<loopVars, surfaceVars, imported>>

\* anland_reconnect_timer_handler: anland_drop_renderbuffers, then one attempt
anland_reconnect_timer_handler ==
  /\ in_fallback
  /\ imported' = FALSE
  /\ in_fallback' \in BOOLEAN
  /\ UNCHANGED <<loopVars, surfaceVars, dmabuf_received, consumer_ready, buf_ready,
                 awaited>>

-----------------------------------------------------------------------------
Clients ==
  \E s \in Surfaces :
    \/ \E c \in Commits : Commit(s, c)
    \/ DestroySurface(s)
    \/ MoveToLayer(s)

Next ==
  \/ SetReady
  \/ Clients
  \/ idle_repaint \/ finish_frame_idle \/ finish_frame_handler
  \/ output_repaint_timer_handler
  \/ Announce \/ anland_buf_ready_handler
  \/ anland_fallback_cb \/ anland_reconnect_timer_handler

Spec == Init /\ [][Next]_vars

\* The event loop serves every source that stays ready.  Nothing is assumed of
\* the clients, of the consumer, or of reconnects.
Fairness ==
  /\ WF_vars(SetReady)
  /\ WF_vars(idle_repaint)
  /\ WF_vars(finish_frame_idle)
  /\ WF_vars(finish_frame_handler)
  /\ WF_vars(output_repaint_timer_handler)
  /\ WF_vars(anland_buf_ready_handler)

LiveSpec == Spec /\ Fairness

-----------------------------------------------------------------------------
(* Properties. *)

One(p) == IF p THEN 1 ELSE 0

\* The assertions of weston_output_finish_frame, idle_repaint and
\* weston_output_schedule_repaint hold, and the loop never stalls: a frame has
\* exactly one completion to come while it is awaited and none otherwise,
\* and each other state of the loop has the one source that ends it.
OneCompletion ==
  /\ finish_idle + One(frame_timer) = One(repaint_status = "AWAITING_COMPLETION")
  /\ repaint_timer <=> repaint_status = "SCHEDULED"
  /\ idle_repaint_source <=> repaint_status = "BEGIN_FROM_IDLE"

\* The loop does not go to sleep on anyone who needs its next repaint: a repaint
\* that was asked for, a buffer that the consumer announced and the backend took,
\* a fifo barrier that only a repaint clears, or a transaction that waits.
LoopAwake ==
  ready /\ repaint_status = "NOT_SCHEDULED" =>
    /\ ~repaint_needed
    /\ ~consumer_ready
    /\ fifo_barrier = {}
    /\ \A s \in Surfaces : queue[s] = <<>>

\* Every content update is applied in the end: as long as transactions of a
\* surface wait, the first of them goes, again and again.  No client is held
\* back for good by its own barrier, with or without a consumer to paint for.
UpdatesApplied ==
  \A s \in Surfaces :
    \/ []<>(queue[s] = <<>>)
    \/ []<><<Len(queue'[s]) < Len(queue[s])>>_vars

\* A client that drew something gets its frame callback, unless its surface is
\* hidden first, also without a consumer and without buffers to paint into.
ClientsGoOn ==
  \A s \in Surfaces :
    s \in (callbacks \cap content) \ hidden ~> s \notin callbacks \/ s \in hidden

ImportFailed == dmabuf_received /\ ~imported

\* The buffer the consumer waits for is handed back, unless the buffers could
\* not be imported or the link goes down, which ends the wait too.
BufferHandedBack == awaited ~> ~awaited \/ ImportFailed
=============================================================================
