------------------------- MODULE RepaintLoopProofs -------------------------
(***************************************************************************)
(* Proofs about RepaintLoop: for any surfaces, any commits and queues of   *)
(* any length, every frame has exactly one completion to come, and the     *)
(* loop does not go to sleep on anyone who needs its next repaint.         *)
(***************************************************************************)
EXTENDS RepaintLoop, SequenceTheorems, TLAPS

\* A buffer that was announced and not painted is remembered: a repaint is
\* needed, or the frame timer is armed, whose handler asks for one.
AnnouncedIsRemembered == ready /\ consumer_ready => repaint_needed \/ frame_timer

\* The inductive invariant.
LoopInv == RepaintTypeOK /\ OneCompletion /\ LoopAwake /\ AnnouncedIsRemembered

-----------------------------------------------------------------------------
(* Types. *)

\* The type invariant with one conjunct per variable.
Typed ==
  /\ ready \in BOOLEAN /\ repaint_needed \in BOOLEAN /\ idle_repaint_source \in BOOLEAN
  /\ repaint_timer \in BOOLEAN /\ frame_timer \in BOOLEAN /\ in_fallback \in BOOLEAN
  /\ dmabuf_received \in BOOLEAN /\ consumer_ready \in BOOLEAN /\ imported \in BOOLEAN
  /\ buf_ready \in BOOLEAN /\ awaited \in BOOLEAN
  /\ repaint_status \in {"NOT_SCHEDULED", "BEGIN_FROM_IDLE", "SCHEDULED",
                         "AWAITING_COMPLETION"}
  /\ finish_idle \in Nat
  /\ queue \in [Surfaces -> Seq(Commits)]
  /\ fifo_barrier \subseteq Surfaces /\ callbacks \subseteq Surfaces
  /\ content \subseteq Surfaces /\ hidden \subseteq Surfaces /\ occluded \subseteq Surfaces

\* It says the same as RepaintTypeOK.
LEMMA TypedIsTypeOK == Typed <=> RepaintTypeOK
<1>1. Typed => RepaintTypeOK
  <2>1. ASSUME Typed
        PROVE  {ready, repaint_needed, idle_repaint_source, repaint_timer, frame_timer,
                in_fallback, dmabuf_received, consumer_ready, imported, buf_ready, awaited}
                 \subseteq BOOLEAN
    BY <2>1 DEF Typed
  <2>2. ASSUME Typed
        PROVE  \A S \in {fifo_barrier, callbacks, content, hidden, occluded} :
                 S \subseteq Surfaces
    BY <2>2 DEF Typed
  <2> QED BY <2>1, <2>2 DEF Typed, RepaintTypeOK
<1>2. RepaintTypeOK => Typed
  BY Zenon DEF Typed, RepaintTypeOK
<1> QED BY <1>1, <1>2

\* The same in the next state.
LEMMA TypedIsTypeOKNext == Typed' <=> RepaintTypeOK'
BY TypedIsTypeOK, PTL

\* weston_output_schedule_repaint keeps the types of the loop.
LEMMA ScheduleType ==
  ASSUME Typed, NEW wanted \in BOOLEAN, ready' \in BOOLEAN, Schedule(wanted)
  PROVE  /\ repaint_needed' \in BOOLEAN
         /\ idle_repaint_source' \in BOOLEAN
         /\ repaint_status' \in {"NOT_SCHEDULED", "BEGIN_FROM_IDLE", "SCHEDULED",
                                 "AWAITING_COMPLETION"}
<1>1. CASE wanted /\ ready'
  BY <1>1 DEF Schedule, Typed
<1>2. CASE ~(wanted /\ ready')
  BY <1>2 DEF Schedule, Typed
<1> QED BY <1>1, <1>2

\* What is left of a queue after its first n transactions is a queue.
LEMMA TailIsQueue ==
  ASSUME NEW q \in Seq(Commits), NEW n \in 0..Len(q)
  PROVE  /\ SubSeq(q, n + 1, Len(q)) \in Seq(Commits)
         /\ Len(SubSeq(q, n + 1, Len(q))) = Len(q) - n
BY SubSeqProperties

\* Every callback keeps the types of all variables.
LEMMA StepType == ASSUME Typed, Next PROVE Typed'
<1> USE DEF loopVars, surfaceVars, linkVars
<1>1. CASE SetReady
  <2>1. ready' \in BOOLEAN
    BY <1>1 DEF SetReady
  <2> QED BY <1>1, <2>1, ScheduleType DEF SetReady, Typed
<1>2. ASSUME NEW s \in Surfaces, NEW c \in Commits, Commit(s, c) PROVE Typed'
  <2> DEFINE A == [t \in Surfaces |-> IF t = s THEN <<c>> ELSE <<>>]
  <2>1. CASE queue[s] # <<>> \/ ~StateReady(s, c, fifo_barrier)
    <3>1. queue' = [queue EXCEPT ![s] = Append(queue[s], c)]
      BY <1>2, <2>1 DEF Commit
    <3>2. queue' \in [Surfaces -> Seq(Commits)]
      <4>1. queue \in [Surfaces -> Seq(Commits)]
        BY DEF Typed
      <4>2. Append(queue[s], c) \in Seq(Commits)
        BY <4>1
      <4> QED BY <3>1, <4>1, <4>2
    <3> QED BY <1>2, <2>1, <3>2 DEF Commit, Typed
  <2>2. CASE ~(queue[s] # <<>> \/ ~StateReady(s, c, fifo_barrier))
    <3>1. /\ fifo_barrier' = BarrierAfter(A)
          /\ content' = ContentAfter(A)
          /\ callbacks' = CallbacksAfter(A)
          /\ OnlySchedules(NeedsRepaint(A))
          /\ UNCHANGED <<queue, hidden, occluded, linkVars>>
      BY <1>2, <2>2 DEF Commit
    <3> HIDE DEF A
    <3>2. /\ fifo_barrier' \subseteq Surfaces
          /\ content' \subseteq Surfaces
          /\ callbacks' \subseteq Surfaces
      BY <3>1 DEF BarrierAfter, ContentAfter, CallbacksAfter, Typed
    <3>3. NeedsRepaint(A) \in BOOLEAN
      BY DEF NeedsRepaint
    <3> QED BY <3>1, <3>2, <3>3, ScheduleType DEF OnlySchedules, Typed
  <2> QED BY <2>1, <2>2
<1>3. ASSUME NEW s \in Surfaces, DestroySurface(s) PROVE Typed'
  <2>1. queue' \in [Surfaces -> Seq(Commits)]
    BY <1>3 DEF DestroySurface, Typed
  <2>2. (s \notin occluded) \in BOOLEAN
    OBVIOUS
  <2> QED BY <1>3, <2>1, <2>2, ScheduleType DEF DestroySurface, OnlySchedules, Typed
<1>4. ASSUME NEW s \in Surfaces, MoveToLayer(s) PROVE Typed'
  BY <1>4, ScheduleType DEF MoveToLayer, OnlySchedules, Typed
<1>5. CASE idle_repaint
  BY <1>5 DEF idle_repaint, finish_frame, Typed
<1>6. CASE finish_frame_idle
  BY <1>6 DEF finish_frame_idle, finish_frame, Typed
<1>7. CASE finish_frame_handler
  <2>1. repaint_needed' \in BOOLEAN
    BY <1>7 DEF finish_frame_handler, Typed
  <2> QED BY <1>7, <2>1 DEF finish_frame_handler, finish_frame, Typed
<1>8. CASE output_repaint_timer_handler
  <2>1. PICK n \in [Surfaces -> 0..MaxQueue] :
          LET A == [s \in Surfaces |-> SubSeq(queue[s], 1, n[s])]
          IN  /\ repaint_timer' = FALSE
              /\ \A s \in Surfaces : Applies(s, n[s])
              /\ queue' = [s \in Surfaces |-> SubSeq(queue[s], n[s] + 1, Len(queue[s]))]
              /\ weston_output_repaint(A) \/ LeaveLoop(A)
              /\ UNCHANGED <<ready, idle_repaint_source, hidden>>
    BY <1>8 DEF output_repaint_timer_handler
  <2> DEFINE A == [s \in Surfaces |-> SubSeq(queue[s], 1, n[s])]
  <2>2. weston_output_repaint(A) \/ LeaveLoop(A)
    BY <2>1
  <2> HIDE DEF A
  <2>3. queue' \in [Surfaces -> Seq(Commits)]
    <3>1. ASSUME NEW s \in Surfaces PROVE n[s] \in 0..Len(queue[s])
      <4>1. n[s] <= Len(queue[s])
        BY <2>1 DEF Applies
      <4>2. Len(queue[s]) \in Nat
        BY DEF Typed
      <4> QED BY <4>1, <4>2, MaxQueueAssumption
    <3>2. ASSUME NEW s \in Surfaces
          PROVE  SubSeq(queue[s], n[s] + 1, Len(queue[s])) \in Seq(Commits)
      BY <3>1, TailIsQueue DEF Typed
    <3> QED BY <2>1, <3>2
  <2>4. CASE weston_output_repaint(A)
    <3>1. /\ frame_timer' \in BOOLEAN /\ finish_idle' \in Nat
          /\ consumer_ready' \in BOOLEAN /\ awaited' \in BOOLEAN
      <4>1. CASE imported
        <5>1. /\ finish_idle' = finish_idle + 1
              /\ awaited' = (awaited /\ ~consumer_ready)
              /\ consumer_ready' = FALSE
              /\ frame_timer' = frame_timer
          BY <2>4, <4>1 DEF weston_output_repaint, anland_output_repaint
        <5>2. awaited' \in BOOLEAN
          BY <5>1
        <5>3. frame_timer' \in BOOLEAN /\ consumer_ready' \in BOOLEAN
          BY <5>1 DEF Typed
        <5>4. finish_idle' \in Nat
          BY <5>1 DEF Typed
        <5> QED BY <5>2, <5>3, <5>4
      <4>2. CASE ~imported
        BY <2>4, <4>2 DEF weston_output_repaint, anland_output_repaint, Typed
      <4> QED BY <4>1, <4>2
    <3>2. /\ content' \subseteq Surfaces
          /\ callbacks' \subseteq Surfaces
      BY <2>4 DEF weston_output_repaint, Typed
    <3> QED BY <2>1, <2>3, <2>4, <3>1, <3>2 DEF weston_output_repaint, Typed
  <2>5. CASE LeaveLoop(A)
    <3>1. /\ fifo_barrier' \subseteq Surfaces
          /\ content' \subseteq Surfaces
          /\ callbacks' \subseteq Surfaces
      BY <2>5 DEF LeaveLoop, BarrierAfter, ContentAfter, CallbacksAfter, Typed
    <3> QED BY <2>1, <2>3, <2>5, <3>1 DEF LeaveLoop, Typed
  <2> QED BY <2>2, <2>4, <2>5
<1>9. CASE Announce
  BY <1>9 DEF Announce, Typed
<1>10. CASE anland_buf_ready_handler
  <2>1. imported' \in BOOLEAN
    BY <1>10 DEF anland_buf_ready_handler, Typed
  <2> QED BY <1>10, <2>1, ScheduleType DEF anland_buf_ready_handler, OnlySchedules, Typed
<1>11. CASE anland_fallback_cb
  BY <1>11 DEF anland_fallback_cb, Typed
<1>12. CASE anland_reconnect_timer_handler
  BY <1>12 DEF anland_reconnect_timer_handler, Typed
<1> QED BY <1>1, <1>2, <1>3, <1>4, <1>5, <1>6, <1>7, <1>8, <1>9, <1>10, <1>11, <1>12
       DEF Next, Clients

-----------------------------------------------------------------------------
(* One completion for every frame. *)

\* A repaint that is scheduled from idle, and nothing else, has the source that
\* weston_output_schedule_repaint adds.
LEMMA ScheduleCompletion ==
  ASSUME Typed, OneCompletion, NEW wanted, Schedule(wanted),
         UNCHANGED <<repaint_timer, finish_idle, frame_timer>>
  PROVE  OneCompletion'
<1>1. CASE wanted /\ ready'
  <2>1. CASE repaint_status = "NOT_SCHEDULED"
    BY <1>1, <2>1 DEF Schedule, OneCompletion, One, Typed
  <2>2. CASE repaint_status # "NOT_SCHEDULED"
    BY <1>1, <2>2 DEF Schedule, OneCompletion, One, Typed
  <2> QED BY <2>1, <2>2
<1>2. CASE ~(wanted /\ ready')
  BY <1>2 DEF Schedule, OneCompletion, One, Typed
<1> QED BY <1>1, <1>2

\* Every callback keeps the completions, the timers and the state in step.
LEMMA StepCompletion == ASSUME Typed, OneCompletion, Next PROVE OneCompletion'
<1> USE DEF loopVars, OnlySchedules
<1>1. CASE SetReady
  BY <1>1, ScheduleCompletion DEF SetReady
<1>2. ASSUME NEW s \in Surfaces, NEW c \in Commits, Commit(s, c) PROVE OneCompletion'
  <2>1. CASE UNCHANGED loopVars
    BY <2>1 DEF OneCompletion
  <2>2. CASE \E A : OnlySchedules(NeedsRepaint(A))
    BY <2>2, ScheduleCompletion
  <2> QED BY <1>2, <2>1, <2>2 DEF Commit
<1>3. ASSUME NEW s \in Surfaces, DestroySurface(s) \/ MoveToLayer(s) PROVE OneCompletion'
  BY <1>3, ScheduleCompletion DEF DestroySurface, MoveToLayer
<1>4. CASE idle_repaint
  BY <1>4 DEF idle_repaint, finish_frame, OneCompletion, One, Typed
<1>5. CASE finish_frame_idle
  BY <1>5 DEF finish_frame_idle, finish_frame, OneCompletion, One, Typed
<1>6. CASE finish_frame_handler
  BY <1>6 DEF finish_frame_handler, finish_frame, OneCompletion, One, Typed
<1>7. CASE output_repaint_timer_handler
  <2>1. PICK A : weston_output_repaint(A) \/ LeaveLoop(A)
    BY <1>7 DEF output_repaint_timer_handler
  <2>2. /\ repaint_timer /\ ~repaint_timer'
        /\ idle_repaint_source' = idle_repaint_source
    BY <1>7 DEF output_repaint_timer_handler
  <2>3. CASE weston_output_repaint(A)
    <3>1. repaint_status' = "AWAITING_COMPLETION" /\ anland_output_repaint
      BY <2>3 DEF weston_output_repaint
    <3>2. CASE imported
      BY <2>2, <3>1, <3>2 DEF anland_output_repaint, OneCompletion, One, Typed
    <3>3. CASE ~imported
      BY <2>2, <3>1, <3>3 DEF anland_output_repaint, OneCompletion, One, Typed
    <3> QED BY <3>2, <3>3
  <2>4. CASE LeaveLoop(A)
    BY <2>2, <2>4 DEF LeaveLoop, OneCompletion, One, Typed
  <2> QED BY <2>1, <2>3, <2>4
<1>8. CASE Announce \/ anland_fallback_cb \/ anland_reconnect_timer_handler
  BY <1>8 DEF Announce, anland_fallback_cb, anland_reconnect_timer_handler, OneCompletion
<1>9. CASE anland_buf_ready_handler
  BY <1>9, ScheduleCompletion DEF anland_buf_ready_handler
<1> QED BY <1>1, <1>2, <1>3, <1>4, <1>5, <1>6, <1>7, <1>8, <1>9 DEF Next, Clients

-----------------------------------------------------------------------------
(* Nobody is slept on. *)

\* The announced buffer stays remembered, whatever comes between the announcement
\* and the repaint that hands it back.
LEMMA StepRemembers ==
  ASSUME Typed, OneCompletion, AnnouncedIsRemembered, Next
  PROVE  AnnouncedIsRemembered'
<1> USE DEF loopVars, linkVars, OnlySchedules, Schedule, AnnouncedIsRemembered
<1>1. CASE SetReady
  BY <1>1 DEF SetReady
<1>2. ASSUME NEW s \in Surfaces, NEW c \in Commits, Commit(s, c)
      PROVE  AnnouncedIsRemembered'
  <2>1. CASE UNCHANGED <<loopVars, linkVars>>
    BY <2>1
  <2>2. CASE UNCHANGED linkVars /\ \E A : OnlySchedules(NeedsRepaint(A))
    BY <2>2
  <2> QED BY <1>2, <2>1, <2>2 DEF Commit
<1>3. ASSUME NEW s \in Surfaces, DestroySurface(s) \/ MoveToLayer(s)
      PROVE  AnnouncedIsRemembered'
  BY <1>3 DEF DestroySurface, MoveToLayer
<1>4. CASE idle_repaint \/ finish_frame_idle \/ finish_frame_handler
  BY <1>4 DEF idle_repaint, finish_frame_idle, finish_frame_handler
<1>5. CASE output_repaint_timer_handler
  <2>1. PICK A : weston_output_repaint(A) \/ LeaveLoop(A)
    BY <1>5 DEF output_repaint_timer_handler
  <2>2. ready' = ready
    BY <1>5 DEF output_repaint_timer_handler
  <2>3. CASE weston_output_repaint(A)
    BY <2>2, <2>3 DEF weston_output_repaint, anland_output_repaint
  <2>4. CASE LeaveLoop(A)
    BY <2>2, <2>4 DEF LeaveLoop
  <2> QED BY <2>1, <2>3, <2>4
<1>6. CASE Announce \/ anland_fallback_cb \/ anland_reconnect_timer_handler
  BY <1>6 DEF Announce, anland_fallback_cb, anland_reconnect_timer_handler
<1>7. CASE anland_buf_ready_handler
  BY <1>7 DEF anland_buf_ready_handler
<1> QED BY <1>1, <1>2, <1>3, <1>4, <1>5, <1>6, <1>7 DEF Next, Clients

\* The handler leaves the loop only with empty queues: a transaction that is not
\* ready waits for a barrier, one that stands or one of an update before it, and
\* then there is a barrier to clear.
LEMMA NoBarrierNoQueue ==
  ASSUME Typed, NEW s \in Surfaces, NEW n \in [Surfaces -> 0..MaxQueue],
         Applies(s, n[s]),
         BarrierAfter([t \in Surfaces |-> SubSeq(queue[t], 1, n[t])]) = {}
  PROVE  SubSeq(queue[s], n[s] + 1, Len(queue[s])) = <<>>
<1> DEFINE A == [t \in Surfaces |-> SubSeq(queue[t], 1, n[t])]
           q == queue[s]
<1>1. q \in Seq(Commits) /\ Len(q) \in Nat
  BY DEF Typed
<1>2. n[s] \in 0..Len(q)
  BY <1>1, MaxQueueAssumption DEF Applies
<1>3. fifo_barrier = {} /\ \A i \in DOMAIN A[s] : ~A[s][i].barrier
  BY DEF BarrierAfter
<1>4. \A j \in 1..n[s] : ~q[j].barrier
  <2>1. DOMAIN A[s] = 1..n[s] /\ \A j \in 1..n[s] : A[s][j] = q[j]
    BY <1>1, <1>2
  <2> QED BY <1>3, <2>1
<1>5. ~(n[s] < Len(q))
  <2>1. SUFFICES ASSUME n[s] < Len(q) PROVE FALSE
    OBVIOUS
  <2>2. ~(\E j \in 1..((n[s] + 1) - 1) : q[j].barrier)
    BY <1>2, <1>4
  <2>3. ~StateReady(s, q[n[s] + 1], fifo_barrier)
    BY <2>1, <2>2 DEF Applies
  <2> QED BY <1>3, <2>3 DEF StateReady
<1> QED BY <1>1, <1>2, <1>5, SubSeqEmpty

\* When a handler only schedules and there is nothing new to wait for, the loop
\* stays awake for whom it was awake.
LEMMA ScheduleAwake ==
  ASSUME Typed, LoopAwake, NEW wanted, Schedule(wanted), ready' = ready,
         consumer_ready' => consumer_ready \/ wanted,
         fifo_barrier' = {} \/ fifo_barrier' \subseteq fifo_barrier \/ wanted,
         \A s \in Surfaces : queue'[s] = <<>> \/ queue'[s] = queue[s]
  PROVE  LoopAwake'
<1> SUFFICES ASSUME ready', repaint_status' = "NOT_SCHEDULED"
             PROVE  /\ ~repaint_needed'
                    /\ ~consumer_ready'
                    /\ fifo_barrier' = {}
                    /\ \A s \in Surfaces : queue'[s] = <<>>
  BY DEF LoopAwake
<1>1. ~wanted /\ repaint_status = "NOT_SCHEDULED" /\ repaint_needed' = repaint_needed
  BY DEF Schedule
<1>2. /\ ~repaint_needed /\ ~consumer_ready /\ fifo_barrier = {}
      /\ \A s \in Surfaces : queue[s] = <<>>
  BY <1>1 DEF LoopAwake
<1> QED BY <1>1, <1>2

\* Every callback keeps the loop awake for those who need its next repaint.
LEMMA StepAwake ==
  ASSUME Typed, OneCompletion, AnnouncedIsRemembered, LoopAwake, Next
  PROVE  LoopAwake'
<1> USE DEF loopVars, surfaceVars, linkVars
<1>1. CASE SetReady
  BY <1>1 DEF SetReady, Schedule, LoopAwake
<1>2. ASSUME NEW s \in Surfaces, NEW c \in Commits, Commit(s, c) PROVE LoopAwake'
  <2> DEFINE A == [t \in Surfaces |-> IF t = s THEN <<c>> ELSE <<>>]
  <2>1. CASE queue[s] # <<>> \/ ~StateReady(s, c, fifo_barrier)
    <3>1. UNCHANGED <<loopVars, linkVars>>
      BY <1>2, <2>1 DEF Commit
    <3>2. ~(ready /\ repaint_status = "NOT_SCHEDULED")
      <4>1. SUFFICES ASSUME ready /\ repaint_status = "NOT_SCHEDULED" PROVE FALSE
        OBVIOUS
      <4>2. fifo_barrier = {} /\ queue[s] = <<>>
        BY <4>1 DEF LoopAwake
      <4>3. StateReady(s, c, fifo_barrier)
        BY <4>2 DEF StateReady
      <4> QED BY <2>1, <4>2, <4>3
    <3> QED BY <3>1, <3>2 DEF LoopAwake
  <2>2. CASE ~(queue[s] # <<>> \/ ~StateReady(s, c, fifo_barrier))
    <3>1. /\ fifo_barrier' = BarrierAfter(A)
          /\ OnlySchedules(NeedsRepaint(A))
          /\ UNCHANGED <<queue, linkVars>>
      BY <1>2, <2>2 DEF Commit
    <3>2. A[s] # <<>> /\ \A t \in Surfaces : t # s => DOMAIN A[t] = {}
      OBVIOUS
    <3> HIDE DEF A
    <3>3. BarrierAfter(A) \subseteq fifo_barrier \/ s \in BarrierAfter(A)
      BY <3>2 DEF BarrierAfter
    <3>4. fifo_barrier' \subseteq fifo_barrier \/ NeedsRepaint(A)
      BY <3>1, <3>2, <3>3 DEF NeedsRepaint
    <3> QED BY <3>1, <3>4, ScheduleAwake DEF OnlySchedules
  <2> QED BY <2>1, <2>2
<1>3. ASSUME NEW s \in Surfaces, DestroySurface(s) PROVE LoopAwake'
  <2>1. \A t \in Surfaces : queue'[t] = <<>> \/ queue'[t] = queue[t]
    BY <1>3 DEF DestroySurface, Typed
  <2> QED BY <1>3, <2>1, ScheduleAwake DEF DestroySurface, OnlySchedules
<1>4. ASSUME NEW s \in Surfaces, MoveToLayer(s) PROVE LoopAwake'
  BY <1>4, ScheduleAwake DEF MoveToLayer, OnlySchedules
<1>5. CASE idle_repaint \/ finish_frame_idle \/ finish_frame_handler
  BY <1>5 DEF idle_repaint, finish_frame_idle, finish_frame_handler, finish_frame, LoopAwake
<1>6. CASE output_repaint_timer_handler
  <2>1. PICK n \in [Surfaces -> 0..MaxQueue] :
          LET A == [s \in Surfaces |-> SubSeq(queue[s], 1, n[s])]
          IN  /\ repaint_timer
              /\ \A s \in Surfaces : Applies(s, n[s])
              /\ queue' = [s \in Surfaces |-> SubSeq(queue[s], n[s] + 1, Len(queue[s]))]
              /\ IF repaint_needed \/ NeedsRepaint(A) \/ BarrierAfter(A) # {}
                 THEN weston_output_repaint(A)
                 ELSE LeaveLoop(A)
              /\ UNCHANGED ready
    BY <1>6 DEF output_repaint_timer_handler
  <2> DEFINE A == [s \in Surfaces |-> SubSeq(queue[s], 1, n[s])]
  <2>2. CASE weston_output_repaint(A)
    BY <2>2 DEF weston_output_repaint, LoopAwake
  <2>3. CASE ~repaint_needed /\ BarrierAfter(A) = {} /\ LeaveLoop(A)
    <3>1. \A s \in Surfaces : queue'[s] = <<>>
      BY <2>1, <2>3, NoBarrierNoQueue
    <3>2. ~frame_timer
      BY <2>1 DEF OneCompletion, One, Typed
    <3>3. /\ fifo_barrier' = {} /\ repaint_needed' = repaint_needed
          /\ consumer_ready' = consumer_ready
      BY <2>3 DEF LeaveLoop
    <3>4. ready' => ~consumer_ready
      BY <2>1, <2>3, <3>2 DEF AnnouncedIsRemembered
    <3> QED BY <2>3, <3>1, <3>3, <3>4 DEF LoopAwake
  <2> QED BY <2>1, <2>2, <2>3
<1>7. CASE Announce \/ anland_fallback_cb \/ anland_reconnect_timer_handler
  BY <1>7 DEF Announce, anland_fallback_cb, anland_reconnect_timer_handler, LoopAwake
<1>8. CASE anland_buf_ready_handler
  BY <1>8, ScheduleAwake DEF anland_buf_ready_handler, OnlySchedules
<1> QED BY <1>1, <1>2, <1>3, <1>4, <1>5, <1>6, <1>7, <1>8 DEF Next, Clients

-----------------------------------------------------------------------------
(* The theorems. *)

\* The start of the backend satisfies the invariant.
LEMMA InitLoopInv == Init => LoopInv
<1> SUFFICES ASSUME Init PROVE LoopInv
  OBVIOUS
<1>1. Typed
  <2>1. queue \in [Surfaces -> Seq(Commits)]
    BY EmptySeq DEF Init
  <2> QED BY <2>1 DEF Init, Typed
<1>2. OneCompletion
  BY DEF Init, OneCompletion, One
<1> QED BY <1>1, <1>2, TypedIsTypeOK DEF Init, LoopInv, LoopAwake, AnnouncedIsRemembered

\* Every step keeps it.
LEMMA NextLoopInv == LoopInv /\ [Next]_vars => LoopInv'
<1> SUFFICES ASSUME LoopInv, [Next]_vars PROVE LoopInv'
  OBVIOUS
<1>1. Typed
  BY TypedIsTypeOK DEF LoopInv
<1>2. CASE Next
  <2>1. RepaintTypeOK'
    BY <1>1, <1>2, StepType, TypedIsTypeOKNext
  <2> QED BY <1>1, <1>2, <2>1, StepCompletion, StepRemembers, StepAwake DEF LoopInv
<1>3. CASE UNCHANGED vars
  <2> USE <1>3 DEF vars, loopVars, surfaceVars, linkVars
  <2>1. Typed'
    BY <1>1 DEF Typed
  <2>2. OneCompletion'
    BY DEF LoopInv, OneCompletion
  <2>3. LoopAwake' /\ AnnouncedIsRemembered'
    BY DEF LoopInv, LoopAwake, AnnouncedIsRemembered
  <2> QED BY <2>1, <2>2, <2>3, TypedIsTypeOKNext DEF LoopInv
<1> QED BY <1>2, <1>3

\* The invariant holds throughout.
LEMMA LoopInvHolds == Spec => []LoopInv
BY InitLoopInv, NextLoopInv, PTL DEF Spec

\* Every variable of the repaint loop, the surfaces and the backend keeps its type;
\* in particular finish_frame_idle is never counted below zero.
THEOREM RepaintTypes == Spec => []RepaintTypeOK
BY LoopInvHolds, PTL DEF LoopInv

\* The assertions on repaint_status in weston_output_finish_frame, idle_repaint and
\* weston_output_schedule_repaint hold, and a frame that is awaited has exactly
\* one completion to come.
THEOREM FrameCompletesOnce == Spec => []OneCompletion
BY LoopInvHolds, PTL DEF LoopInv

\* The loop does not leave on a repaint that was asked for, a buffer that was
\* announced, a fifo barrier or a transaction that waits.
THEOREM NobodySleptOn == Spec => []LoopAwake
BY LoopInvHolds, PTL DEF LoopInv
=============================================================================
