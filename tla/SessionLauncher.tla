-------------------------- MODULE SessionLauncher --------------------------
(***************************************************************************)
(* acglass-run (start_app.sh) and acglass-stop (stop_app.sh), both written *)
(* by src/build_and_install.sh: several launchers share one session        *)
(* directory, and with it one Weston.                                      *)
(*                                                                         *)
(* The lock of the session is a directory with a file `pid` in it.  Shell  *)
(* commands interleave, so every command on the lock is a step of its own. *)
(* A launcher r is named by its process id; the Weston and the app that it *)
(* starts are named r too.                                                 *)
(***************************************************************************)
EXTENDS Naturals, FiniteSets

CONSTANTS
  Runs,         \* executions of acglass-run
  NULL,
  Signals,      \* what may disturb them: a subset of {"TERM", "KILL", "STOP"},
                \* two signals to a launcher and one execution of acglass-stop
  MaxSignals    \* bound: how many of them

ASSUME NullNotRun == NULL \notin Runs
ASSUME SignalsAssumption ==
  Signals \subseteq {"TERM", "KILL", "STOP"} /\ MaxSignals \in Nat

VARIABLES
  pc,           \* what each launcher does next
  task,         \* why it takes the lock: "start" or "stop"
  resume,       \* where it goes on after it released the lock
  lock_pid,     \* the owner it read from the lock
  LOCK_HELD,    \* it believes that it holds the lock
  lock_dir,     \* LOCK_DIR exists
  lock_owner,   \* contents of LOCK_DIR/pid, NULL if there is none
  weston,       \* Weston processes that are alive
  pid_file,     \* contents of PID_FILE
  wl_socket,    \* whose socket is at XDG_RUNTIME_DIR/WESTON_SOCKET
  apps,         \* app process groups that are alive
  markers,      \* marker files in APPS_DIR
  by_id,        \* APPS_DIR also holds the directory by-id and logs
  id_file,      \* the marker that the file of the app id in by-id names; all
                \* launchers of a session that Android starts have one app id
  nsignals

lockVars == <<lock_dir, lock_owner, LOCK_HELD>>
sessionVars == <<weston, pid_file, wl_socket>>
appVars == <<apps, markers, by_id, id_file>>
vars == <<pc, task, resume, lock_pid, lockVars, sessionVars, appVars, nsignals>>

LockLoop == {"lock", "peek", "check", "rmpid", "rmdir"}
Starting == {"start", "spawn", "await", "launch", "mark"}
Unlocking == {"rmpid2", "rmdir2"}

TypeOK ==
  /\ pc \in [Runs -> LockLoop \cup Starting \cup Unlocking \cup
                     {"idle", "own", "stop", "running", "exit", "killed"}]
  /\ task \in [Runs -> {"start", "stop"}]
  /\ resume \in [Runs -> Starting \cup {"stop", "running", "exit"}]
  /\ lock_pid \in [Runs -> Runs \cup {NULL}]
  /\ LOCK_HELD \in [Runs -> BOOLEAN]
  /\ lock_dir \in BOOLEAN
  /\ lock_owner \in Runs \cup {NULL}
  /\ weston \subseteq Runs
  /\ pid_file \in Runs \cup {NULL}
  /\ wl_socket \in Runs \cup {NULL}
  /\ apps \subseteq Runs
  /\ markers \subseteq Runs
  /\ by_id \in BOOLEAN
  /\ id_file \in Runs \cup {NULL}
  /\ nsignals \in 0..MaxSignals

Init ==
  /\ pc = [r \in Runs |-> "idle"]
  /\ task = [r \in Runs |-> "start"]
  /\ resume = [r \in Runs |-> "exit"]
  /\ lock_pid = [r \in Runs |-> NULL]
  /\ LOCK_HELD = [r \in Runs |-> FALSE]
  /\ lock_dir = FALSE
  /\ lock_owner = NULL
  /\ weston = {}
  /\ pid_file = NULL
  /\ wl_socket = NULL
  /\ apps = {}
  /\ markers = {}
  /\ by_id = FALSE
  /\ id_file = NULL
  /\ nsignals = 0

Goto(r, from, to) == pc[r] = from /\ pc' = [pc EXCEPT ![r] = to]

\* The process of launcher r exists (kill -0).
Alive(r) == pc[r] \notin {"exit", "killed"}

-----------------------------------------------------------------------------
(* lock_session and unlock_session. *)

Begin(r) ==
  /\ Goto(r, "idle", "lock")
  /\ UNCHANGED <<task, resume, lock_pid, lockVars, sessionVars, appVars, nsignals>>

\* mkdir LOCK_DIR
MakeLock(r) ==
  /\ Goto(r, "lock", IF lock_dir THEN "peek" ELSE "own")
  /\ lock_dir' = TRUE
  /\ UNCHANGED <<task, resume, lock_pid, lock_owner, LOCK_HELD, sessionVars, appVars,
                 nsignals>>

\* cat LOCK_DIR/pid
ReadOwner(r) ==
  /\ Goto(r, "peek", IF lock_owner = NULL THEN "rmdir" ELSE "check")
  /\ lock_pid' = [lock_pid EXCEPT ![r] = lock_owner]
  /\ UNCHANGED <<task, resume, lockVars, sessionVars, appVars, nsignals>>

\* Mutation: a dead owner is waited for.
CheckOwnerNever(r) ==
  /\ Goto(r, "check", "lock")
  /\ UNCHANGED <<task, resume, lock_pid, lockVars, sessionVars, appVars, nsignals>>

\* kill -0 lock_pid
CheckOwner(r) ==
  /\ Goto(r, "check", IF Alive(lock_pid[r]) THEN "lock" ELSE "rmpid")
  /\ UNCHANGED <<task, resume, lock_pid, lockVars, sessionVars, appVars, nsignals>>

\* rm -f LOCK_DIR/pid, of a dead owner or of one's own lock
RemovePid(r) ==
  /\ \/ Goto(r, "rmpid", "rmdir")
     \/ Goto(r, "rmpid2", "rmdir2")
  /\ LOCK_HELD' = [LOCK_HELD EXCEPT ![r] = FALSE]
  /\ lock_owner' = NULL
  /\ UNCHANGED <<task, resume, lock_pid, lock_dir, sessionVars, appVars, nsignals>>

\* rmdir LOCK_DIR fails unless the directory is empty.
RemoveDir(r) ==
  /\ \/ Goto(r, "rmdir", "lock")
     \/ Goto(r, "rmdir2", resume[r])
  /\ lock_dir' = (lock_owner # NULL)
  /\ UNCHANGED <<task, resume, lock_pid, lock_owner, LOCK_HELD, sessionVars, appVars,
                 nsignals>>

\* Mutation: the wrong variable is written to LOCK_DIR/pid.
OwnLockTask(r) ==
  /\ Goto(r, "own", task[r])
  /\ lock_owner' = IF lock_dir THEN task[r] ELSE NULL
  /\ LOCK_HELD' = [LOCK_HELD EXCEPT ![r] = TRUE]
  /\ UNCHANGED <<task, resume, lock_pid, lock_dir, sessionVars, appVars, nsignals>>

\* echo $$ > LOCK_DIR/pid: without the directory it fails, and is not noticed.
OwnLock(r) ==
  /\ Goto(r, "own", task[r])
  /\ lock_owner' = IF lock_dir THEN r ELSE NULL
  /\ LOCK_HELD' = [LOCK_HELD EXCEPT ![r] = TRUE]
  /\ UNCHANGED <<task, resume, lock_pid, lock_dir, sessionVars, appVars, nsignals>>

-----------------------------------------------------------------------------
(* start_weston_session. *)

\* Mutation: the markers of live apps are removed with the others.
prune_app_markersAll(m) == {}

prune_app_markers(m) == m \cap apps

weston_is_running == pid_file # NULL /\ pid_file \in weston

\* A running session is reused; anything else is killed and removed.
StartSession(r) ==
  /\ Goto(r, "start", IF weston_is_running /\ wl_socket # NULL THEN "launch" ELSE "spawn")
  /\ markers' = prune_app_markers(markers)
  /\ IF weston_is_running /\ wl_socket # NULL
     THEN UNCHANGED sessionVars
     ELSE /\ weston' = weston \ {pid_file}
          /\ pid_file' = NULL
          /\ wl_socket' = NULL
  /\ UNCHANGED <<task, resume, lock_pid, lockVars, apps, by_id, id_file, nsignals>>

SpawnWeston(r) ==
  /\ Goto(r, "spawn", "await")
  /\ weston' = weston \cup {r}
  /\ pid_file' = r
  /\ UNCHANGED <<task, resume, lock_pid, lockVars, wl_socket, appVars, nsignals>>

SocketFound(r) ==
  /\ Goto(r, "await", "launch")
  /\ wl_socket # NULL
  /\ UNCHANGED <<task, resume, lock_pid, lockVars, sessionVars, appVars, nsignals>>

\* Weston died, or its socket did not appear in time: acglass-run gives up.
StartFailed(r) ==
  /\ Goto(r, "await", "rmpid2")
  /\ wl_socket = NULL
  /\ weston' = weston \ {r}
  /\ pid_file' = NULL
  /\ resume' = [resume EXCEPT ![r] = "exit"]
  /\ UNCHANGED <<task, lock_pid, lockVars, wl_socket, appVars, nsignals>>

-----------------------------------------------------------------------------
(* The app. *)

LaunchApp(r) ==
  /\ Goto(r, "launch", "mark")
  /\ apps' = apps \cup {r}
  /\ by_id' = TRUE
  /\ UNCHANGED <<task, resume, lock_pid, lockVars, sessionVars, markers, id_file,
                 nsignals>>

MarkApp(r) ==
  /\ Goto(r, "mark", "rmpid2")
  /\ markers' = markers \cup {r}
  /\ id_file' = r
  /\ resume' = [resume EXCEPT ![r] = "running"]
  /\ UNCHANGED <<task, lock_pid, lockVars, sessionVars, apps, by_id, nsignals>>

\* The app and its process group are gone: wait and wait_for_app_group return.
AppDone(r) ==
  /\ Goto(r, "running", "lock")
  /\ r \notin apps
  /\ markers' = markers \ {r}
  /\ id_file' = NULL
  /\ task' = [task EXCEPT ![r] = "stop"]
  /\ resume' = [resume EXCEPT ![r] = "exit"]
  /\ UNCHANGED <<lock_pid, lockVars, sessionVars, apps, by_id, nsignals>>

\* has_active_apps looks at every entry of APPS_DIR.
has_active_apps == by_id \/ prune_app_markers(markers) # {}

stop_weston_session_if_idle(r) ==
  /\ Goto(r, "stop", "rmpid2")
  /\ markers' = prune_app_markers(markers)
  /\ IF has_active_apps
     THEN UNCHANGED sessionVars
     ELSE /\ weston' = weston \ {pid_file}
          /\ pid_file' = NULL
          /\ wl_socket' = NULL
  /\ resume' = [resume EXCEPT ![r] = IF @ = "running" THEN "running" ELSE "exit"]
  /\ UNCHANGED <<task, lock_pid, lockVars, apps, by_id, id_file, nsignals>>

-----------------------------------------------------------------------------
(* Signals: the trap runs cleanup, and the script goes on where it was.  In *)
(* lock_session cleanup finds nothing to do; a signal in the middle of     *)
(* unlock_session is taken after it.                                       *)

\* While the app runs, cleanup kills it and stops an idle session.
TermRunning(r) ==
  /\ Goto(r, "running", "lock")
  /\ apps' = apps \ {r}
  /\ markers' = markers \ {r}
  /\ id_file' = NULL
  /\ task' = [task EXCEPT ![r] = "stop"]
  /\ resume' = [resume EXCEPT ![r] = "running"]
  /\ UNCHANGED <<lock_pid, lockVars, sessionVars, by_id>>

\* Without a marker, cleanup kills the app, if there is one, and releases the lock.
TermUnmarked(r) ==
  /\ pc[r] \in Starting \/ (pc[r] = "stop" /\ resume[r] = "exit")
  /\ LOCK_HELD[r]
  /\ pc' = [pc EXCEPT ![r] = "rmpid2"]
  /\ resume' = [resume EXCEPT ![r] = pc[r]]
  /\ apps' = apps \ {r}
  /\ UNCHANGED <<task, lock_pid, lockVars, sessionVars, markers, by_id, id_file>>

Kill(r) ==
  /\ pc[r] \notin {"idle", "exit", "killed"}
  /\ pc' = [pc EXCEPT ![r] = "killed"]
  /\ UNCHANGED <<task, resume, lock_pid, lockVars, sessionVars, appVars>>

\* acglass-stop kills the group of the app that the file of the app id names.
StopApp ==
  /\ apps' = IF id_file \in markers THEN apps \ {id_file} ELSE apps
  /\ UNCHANGED <<pc, task, resume, lock_pid, lockVars, sessionVars, markers, by_id,
                 id_file>>

Disturb ==
  /\ nsignals < MaxSignals
  /\ nsignals' = nsignals + 1
  /\ \/ "TERM" \in Signals /\ \E r \in Runs : TermRunning(r) \/ TermUnmarked(r)
     \/ "KILL" \in Signals /\ \E r \in Runs : Kill(r)
     \/ "STOP" \in Signals /\ StopApp

-----------------------------------------------------------------------------
(* Weston and the apps. *)

\* Weston is ready and makes its socket, unless another one is in place.
WestonListens(w) ==
  /\ w \in weston
  /\ wl_socket = NULL
  /\ wl_socket' = w
  /\ UNCHANGED <<pc, task, resume, lock_pid, lockVars, weston, pid_file, appVars, nsignals>>

\* Weston exits on its own; its socket file goes with it, or stays after a crash.
WestonExits(w) ==
  /\ w \in weston
  /\ weston' = weston \ {w}
  /\ wl_socket' \in IF wl_socket = w THEN {NULL, w} ELSE {wl_socket}
  /\ UNCHANGED <<pc, task, resume, lock_pid, lockVars, pid_file, appVars, nsignals>>

\* The app ends by itself.
AppExits(a) ==
  /\ a \in apps
  /\ apps' = apps \ {a}
  /\ UNCHANGED <<pc, task, resume, lock_pid, lockVars, sessionVars, markers, by_id,
                 id_file, nsignals>>

Step(r) ==
  \/ MakeLock(r) \/ ReadOwner(r) \/ CheckOwner(r) \/ RemovePid(r) \/ RemoveDir(r)
  \/ OwnLock(r)
  \/ StartSession(r) \/ SpawnWeston(r) \/ SocketFound(r) \/ StartFailed(r)
  \/ LaunchApp(r) \/ MarkApp(r) \/ AppDone(r) \/ stop_weston_session_if_idle(r)

Environment(r) == WestonListens(r) \/ WestonExits(r) \/ AppExits(r)

Next ==
  \/ \E r \in Runs : Begin(r) \/ Step(r) \/ Environment(r)
  \/ Disturb

\* Every launcher that is not killed keeps running; nothing forces an app or
\* Weston to do anything.
Fairness == \A r \in Runs : WF_vars(Step(r))

Spec == Init /\ [][Next]_vars
LiveSpec == Spec /\ Fairness

-----------------------------------------------------------------------------
(* Properties. *)

\* A launcher that waits for its live app finds the app's marker in place: no
\* other launcher's pruning removes it, so the app stays visible to the idle
\* check and to acglass-stop.
LiveAppIsMarked ==
  \A r \in Runs : pc[r] = "running" /\ r \in apps => r \in markers

\* The lock never blocks for good: whatever a killed launcher left behind
\* (a directory without owner, a dead owner), every launcher gets past
\* lock_session, to start the session or to stop it.
LockIsRecovered ==
  \A r \in Runs : pc[r] \in LockLoop ~> pc[r] \notin LockLoop

\* "acglass-run manages one shared Weston session per ACGLASS_SESSION_DIR"
\* (README.md): never two Westons for one session directory.
OneSharedSession == Cardinality(weston) <= 1
=============================================================================
