----------------------- MODULE SessionLauncherProofs -----------------------
(***************************************************************************)
(* Proofs about SessionLauncher: for any number of launchers and signals,  *)
(* the variables keep their types and the marker of a live app that its    *)
(* launcher waits for is never removed, although the session lock may be   *)
(* held by two launchers at once.                                          *)
(***************************************************************************)
EXTENDS SessionLauncher, TLAPS

\* The control state that keeps a launcher's app and marker together.  Once it
\* works on "stop" its app is gone and it starts no other; between writing the
\* marker and waiting for the app, and while it waits, a live app is marked.
Tracked(r) ==
  /\ task[r] = "stop" =>
       /\ r \notin apps
       /\ pc[r] \notin Starting
       /\ resume[r] \notin Starting
  /\ (pc[r] = "stop" \/ resume[r] = "stop") => task[r] = "stop"
  /\ (pc[r] = "running" \/ (pc[r] \in Unlocking /\ resume[r] = "running"))
       => (r \in apps => r \in markers)

MarkInv == TypeOK /\ \A r \in Runs : Tracked(r)

-----------------------------------------------------------------------------
(* Types. *)

\* Every command of a launcher keeps the types of all variables.
LEMMA StepType ==
  ASSUME TypeOK, NEW r \in Runs, Step(r) \/ Begin(r) \/ Environment(r)
  PROVE  TypeOK'
<1> USE DEF TypeOK, LockLoop, Starting, Unlocking, Goto, lockVars, sessionVars,
            appVars
<1>1. CASE Begin(r)
  BY <1>1 DEF Begin
<1>2. CASE CheckOwner(r)
  BY <1>2 DEF CheckOwner
<1>11. CASE MakeLock(r)
  BY <1>11 DEF MakeLock
<1>12. CASE ReadOwner(r)
  BY <1>12 DEF ReadOwner
<1>3. CASE RemovePid(r)
  BY <1>3 DEF RemovePid
<1>9. CASE RemoveDir(r)
  <2>1. lock_dir' \in BOOLEAN
    BY <1>9 DEF RemoveDir
  <2> QED BY <1>9, <2>1 DEF RemoveDir
<1>10. CASE OwnLock(r)
  <2>1. LOCK_HELD' \in [Runs -> BOOLEAN]
    BY <1>10 DEF OwnLock
  <2> QED BY <1>10, <2>1 DEF OwnLock
<1>4. CASE StartSession(r)
  BY <1>4 DEF StartSession, prune_app_markers
<1>5. CASE SpawnWeston(r) \/ SocketFound(r) \/ StartFailed(r)
  BY <1>5 DEF SpawnWeston, SocketFound, StartFailed
<1>6. CASE LaunchApp(r) \/ MarkApp(r) \/ AppDone(r)
  BY <1>6 DEF LaunchApp, MarkApp, AppDone
<1>7. CASE stop_weston_session_if_idle(r)
  BY <1>7 DEF stop_weston_session_if_idle, prune_app_markers
<1>8. CASE Environment(r)
  BY <1>8 DEF Environment, WestonListens, WestonExits, AppExits
<1> QED BY <1>1, <1>2, <1>3, <1>4, <1>5, <1>6, <1>7, <1>8, <1>9, <1>10, <1>11, <1>12
       DEF Step

\* So does every signal and every acglass-stop.
LEMMA DisturbType == ASSUME TypeOK, Disturb PROVE TypeOK'
<1> USE SignalsAssumption DEF TypeOK, LockLoop, Starting, Unlocking, Goto, lockVars,
            sessionVars, appVars, Disturb
<1>1. ASSUME NEW r \in Runs, TermRunning(r) PROVE TypeOK'
  BY <1>1 DEF TermRunning
<1>2. ASSUME NEW r \in Runs, TermUnmarked(r) PROVE TypeOK'
  BY <1>2 DEF TermUnmarked
<1>3. ASSUME NEW r \in Runs, Kill(r) PROVE TypeOK'
  BY <1>3 DEF Kill
<1>4. CASE StopApp
  BY <1>4 DEF StopApp
<1> QED BY <1>1, <1>2, <1>3, <1>4

-----------------------------------------------------------------------------
(* Markers. *)

\* A command of launcher r keeps its own app and marker together.
LEMMA StepOwn ==
  ASSUME TypeOK, NEW r \in Runs, Tracked(r), Step(r) \/ Begin(r)
  PROVE  Tracked(r)'
<1> USE DEF TypeOK, Tracked, LockLoop, Starting, Unlocking, Goto, appVars
<1>1. CASE Begin(r)
  BY <1>1 DEF Begin
<1>2. CASE MakeLock(r) \/ ReadOwner(r) \/ CheckOwner(r) \/ OwnLock(r)
  BY <1>2 DEF MakeLock, ReadOwner, CheckOwner, OwnLock
<1>3. CASE RemovePid(r)
  BY <1>3 DEF RemovePid
<1>8. CASE RemoveDir(r)
  <2>1. pc'[r] \in {"lock", resume[r]} /\ task'[r] = task[r] /\ resume'[r] = resume[r]
    BY <1>8 DEF RemoveDir
  <2>2. pc'[r] = resume[r] => pc[r] = "rmdir2" \/ pc'[r] = "lock"
    BY <1>8 DEF RemoveDir
  <2>3. apps' = apps /\ markers' = markers
    BY <1>8 DEF RemoveDir
  <2>4. task'[r] = "stop" => pc'[r] \notin Starting
    BY <2>1
  <2>5. (pc'[r] = "running" \/ (pc'[r] \in Unlocking /\ resume'[r] = "running"))
          => pc[r] = "rmdir2" /\ resume[r] = "running"
    BY <2>1, <2>2
  <2>6. pc'[r] = "stop" \/ resume'[r] = "stop" => task'[r] = "stop"
    BY <2>1
  <2> QED BY <2>1, <2>3, <2>4, <2>5, <2>6
<1>4. CASE StartSession(r)
  BY <1>4 DEF StartSession, prune_app_markers
<1>5. CASE SpawnWeston(r) \/ SocketFound(r) \/ StartFailed(r)
  BY <1>5 DEF SpawnWeston, SocketFound, StartFailed
<1>6. CASE LaunchApp(r) \/ MarkApp(r) \/ AppDone(r)
  BY <1>6 DEF LaunchApp, MarkApp, AppDone
<1>7. CASE stop_weston_session_if_idle(r)
  BY <1>7 DEF stop_weston_session_if_idle, prune_app_markers
<1> QED BY <1>1, <1>2, <1>3, <1>4, <1>5, <1>6, <1>7, <1>8 DEF Step

\* What one launcher may do to another: the other stays where it is, its app is
\* not started, and its marker goes only when its app is dead.
Untouched(q) ==
  /\ pc'[q] = pc[q]
  /\ task'[q] = task[q]
  /\ resume'[q] = resume[q]
  /\ q \in apps' => q \in apps
  /\ q \in markers /\ q \in apps' => q \in markers'

\* Untouched is enough for the other launcher's app and marker.
LEMMA UntouchedTracked ==
  ASSUME NEW q \in Runs, Tracked(q), Untouched(q)
  PROVE  Tracked(q)'
BY DEF Tracked, Untouched, Starting, Unlocking

\* A command of one launcher leaves every other untouched: pruning is the only
\* way it reaches their markers, lock or no lock.
LEMMA StepOther ==
  ASSUME TypeOK, NEW r \in Runs, NEW q \in Runs, q # r, Step(r) \/ Begin(r)
  PROVE  Untouched(q)
<1> USE DEF TypeOK, Untouched, Goto, appVars
<1>1. CASE Begin(r)
  BY <1>1 DEF Begin
<1>2. CASE MakeLock(r) \/ ReadOwner(r) \/ CheckOwner(r) \/ OwnLock(r)
  BY <1>2 DEF MakeLock, ReadOwner, CheckOwner, OwnLock
<1>3. CASE RemovePid(r) \/ RemoveDir(r)
  BY <1>3 DEF RemovePid, RemoveDir
<1>4. CASE StartSession(r)
  BY <1>4 DEF StartSession, prune_app_markers
<1>5. CASE SpawnWeston(r) \/ SocketFound(r) \/ StartFailed(r)
  BY <1>5 DEF SpawnWeston, SocketFound, StartFailed
<1>6. CASE LaunchApp(r) \/ MarkApp(r) \/ AppDone(r)
  BY <1>6 DEF LaunchApp, MarkApp, AppDone
<1>7. CASE stop_weston_session_if_idle(r)
  BY <1>7 DEF stop_weston_session_if_idle, prune_app_markers
<1> QED BY <1>1, <1>2, <1>3, <1>4, <1>5, <1>6, <1>7 DEF Step

\* Weston and the apps touch no launcher and no marker.
LEMMA EnvironmentAll ==
  ASSUME NEW r \in Runs, NEW q \in Runs, Environment(r)
  PROVE  Untouched(q)
BY DEF Environment, WestonListens, WestonExits, AppExits, Untouched, appVars

\* Signals and acglass-stop keep every launcher's app and marker together.
LEMMA DisturbTracked ==
  ASSUME TypeOK, Disturb, NEW q \in Runs, Tracked(q)
  PROVE  Tracked(q)'
<1>1. ASSUME NEW r \in Runs, r # q, TermRunning(r) \/ TermUnmarked(r) \/ Kill(r)
      PROVE  Untouched(q)
  BY <1>1 DEF TypeOK, Untouched, Goto, TermRunning, TermUnmarked, Kill, appVars
<1>2. CASE TermRunning(q)
  BY <1>2 DEF TypeOK, Tracked, Goto, TermRunning, Starting, Unlocking
<1>3. CASE TermUnmarked(q)
  BY <1>3 DEF TypeOK, Tracked, TermUnmarked, Starting, Unlocking
<1>4. CASE Kill(q)
  BY <1>4 DEF TypeOK, Tracked, Kill, Starting, Unlocking, appVars
<1>5. CASE StopApp
  <2>1. Untouched(q)
    BY <1>5 DEF StopApp, Untouched
  <2> QED BY <2>1, UntouchedTracked
<1> QED BY <1>1, <1>2, <1>3, <1>4, <1>5, UntouchedTracked DEF Disturb

\* MarkInv is inductive.
LEMMA MarkInvNext == ASSUME MarkInv, [Next]_vars PROVE MarkInv'
<1> USE DEF MarkInv
<1>1. ASSUME NEW r \in Runs, Step(r) \/ Begin(r) PROVE MarkInv'
  <2>1. TypeOK'
    BY <1>1, StepType
  <2>2. ASSUME NEW q \in Runs PROVE Tracked(q)'
    <3>1. CASE q = r
      BY <1>1, <3>1, StepOwn
    <3>2. CASE q # r
      BY <1>1, <3>2, StepOther, UntouchedTracked
    <3> QED BY <3>1, <3>2
  <2> QED BY <2>1, <2>2
<1>2. ASSUME NEW r \in Runs, Environment(r) PROVE MarkInv'
  BY <1>2, StepType, EnvironmentAll, UntouchedTracked
<1>3. CASE Disturb
  BY <1>3, DisturbType, DisturbTracked
<1>4. CASE UNCHANGED vars
  BY <1>4 DEF vars, lockVars, sessionVars, appVars, TypeOK, Tracked
<1> QED BY <1>1, <1>2, <1>3, <1>4 DEF Next

\* MarkInv holds before any launcher runs.
LEMMA MarkInvInit == Init => MarkInv
<1> SUFFICES ASSUME Init PROVE MarkInv
  OBVIOUS
<1>1. TypeOK
  <2>1. /\ pc \in [Runs -> LockLoop \cup Starting \cup Unlocking \cup
                         {"idle", "own", "stop", "running", "exit", "killed"}]
        /\ task \in [Runs -> {"start", "stop"}]
        /\ resume \in [Runs -> Starting \cup {"stop", "running", "exit"}]
        /\ lock_pid \in [Runs -> Runs \cup {NULL}]
    BY DEF Init
  <2>2. LOCK_HELD \in [Runs -> BOOLEAN] /\ lock_dir \in BOOLEAN /\ by_id \in BOOLEAN
    BY DEF Init
  <2>3. nsignals \in 0..MaxSignals
    BY SignalsAssumption DEF Init
  <2> QED BY <2>1, <2>2, <2>3 DEF Init, TypeOK
<1>2. ASSUME NEW r \in Runs PROVE Tracked(r)
  BY DEF Init, Tracked, Starting, Unlocking
<1> QED BY <1>1, <1>2 DEF MarkInv

\* For any number of launchers, the variables of the launcher keep their types.
THEOREM LauncherTypes == Spec => []TypeOK
<1>1. MarkInv => TypeOK
  BY DEF MarkInv
<1> QED BY <1>1, MarkInvInit, MarkInvNext, PTL DEF Spec

\* For any number of launchers and signals, a launcher that waits for its live
\* app finds the marker of the app: neither prune_app_markers of another launcher
\* nor a broken session lock takes it away.
THEOREM MarkersKept == Spec => []LiveAppIsMarked
<1>1. MarkInv => LiveAppIsMarked
  BY DEF MarkInv, Tracked, LiveAppIsMarked
<1> QED BY <1>1, MarkInvInit, MarkInvNext, PTL DEF Spec
=============================================================================
