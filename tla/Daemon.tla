------------------------------- MODULE Daemon -------------------------------
(***************************************************************************)
(* Processes of `longctx serve` and the files they find each other by:      *)
(* daemon.py (run, its task group, its signals), server_info.py (the lock   *)
(* file, server.info, the port walk) and cli.py (serve, stop, reload).            *)
(*                                                                          *)
(* The lock is an flock on an inode; the path names at most one inode and   *)
(* an unlinked inode lives on while it is open.  asyncio.TaskGroup is       *)
(* external: an exception of a child cancels the others; a child that       *)
(* returns, or ends with CancelledError, does not.  So is uvicorn, which    *)
(* takes SIGTERM too and returns from serve().                              *)
(***************************************************************************)
EXTENDS Integers, FiniteSets, FiniteSetsExt

CONSTANTS
    Procs,      \* the processes (a slot is used again after an exit)
    Nobody,     \* no process
    NoInode,
    MaxInode,   \* bound: lock files that exist at once
    MaxTries,   \* max_port_walk
    Busy,       \* sets of ports that other programs may have
    CanKill     \* whether daemons may be killed at any time

ASSUME DaemonAssumption ==
    /\ IsFiniteSet(Procs) /\ Nobody \notin Procs /\ MaxTries \in Nat \ {0}
    /\ MaxInode \in Nat /\ MaxInode > Cardinality(Procs) /\ NoInode \notin 1..MaxInode

VARIABLES
    phase,      \* where each process is
    fh,         \* the lock file each process has open
    held,       \* the processes holding the flock of theirs
    path,       \* the inode at lock_path
    info,       \* the pid in server.info
    port,       \* the two ports of each process
    tasks,      \* the running children of its task group
    ev,         \* its events that are set
    owed,       \* ghost: those asked to reload since their last reload began
    cli,        \* `longctx stop`: [at, pid]
    robbed      \* ghost: somebody unlinked a lock file another had open

dvars == <<phase, fh, held, path, info, port, tasks, ev, owed, cli, robbed>>
lockfiles == <<fh, held, path, info, robbed>>
group == <<tasks, ev, owed>>

Inodes == 1..MaxInode
Tasks == {"http", "reload", "reindex", "fs", "shutdown"}
NoPorts == <<0, 0>>
Quiet == [at |-> "idle", pid |-> Nobody]

DaemonInit ==
    /\ phase = [p \in Procs |-> "off"]
    /\ fh = [p \in Procs |-> NoInode] /\ held = {} /\ path = NoInode
    /\ info = Nobody
    /\ port = [p \in Procs |-> NoPorts]
    /\ tasks = [p \in Procs |-> {}] /\ ev = [p \in Procs |-> {}]
    /\ owed = {} /\ cli = Quiet /\ robbed = FALSE

Go(p, from, to) == phase[p] = from /\ phase' = [phase EXCEPT ![p] = to]

(* What is left of a process that is gone: the kernel drops lock and ports. *)
Gone(p) ==
    /\ phase' = [phase EXCEPT ![p] = "off"]
    /\ fh' = [fh EXCEPT ![p] = NoInode] /\ held' = held \ {p}
    /\ port' = [port EXCEPT ![p] = NoPorts]
    /\ tasks' = [tasks EXCEPT ![p] = {}] /\ ev' = [ev EXCEPT ![p] = {}]
    /\ owed' = owed \ {p}
    /\ UNCHANGED <<path, info, robbed>>

-----------------------------------------------------------------------------
(* Starting *)

(* _cmd_serve: the stores are opened and every corpus is scanned before the  *)
(* lock is tried.  A pid somebody still refers to is not given out again.    *)
_cmd_serve(p) ==
    /\ p \notin {info, cli.pid} /\ Go(p, "off", "stores")
    /\ UNCHANGED <<lockfiles, port, group, cli>>

(* SingletonLock.acquire: open(lock_path, "a+") makes the file if need be ... *)
OpenLockFile(p) ==
    LET i == IF path # NoInode THEN path ELSE Min(Inodes \ {fh[x] : x \in Procs})
    IN /\ Go(p, "stores", "opened")
       /\ path' = i /\ fh' = [fh EXCEPT ![p] = i]
       /\ UNCHANGED <<held, info, robbed, port, group, cli>>

HeldByOther(p) == \E x \in held \ {p} : fh[x] = fh[p]

(* Mutant: the handle goes out of scope and takes the flock with it. *)
AcquireDropsHandle(p) ==
    /\ Go(p, "opened", IF HeldByOther(p) THEN "exit" ELSE "locked")
    /\ fh' = [fh EXCEPT ![p] = NoInode]
    /\ UNCHANGED <<held, path, info, robbed, port, group, cli>>

(* ... and flock, without waiting.  Held by another: RuntimeError. *)
acquire(p) ==
    /\ Go(p, "opened", IF HeldByOther(p) THEN "exit" ELSE "locked")
    /\ IF HeldByOther(p) THEN fh' = [fh EXCEPT ![p] = NoInode] /\ UNCHANGED held
       ELSE held' = held \cup {p} /\ UNCHANGED fh
    /\ UNCHANGED <<path, info, robbed, port, group, cli>>

(* bind_port: the first free port from the preferred one on, or 0. *)
bind_port(preferred, taken) ==
    LET free == (preferred .. preferred + MaxTries - 1) \ taken
    IN IF free = {} THEN 0 ELSE Min(free)

(* bind_pair; PortBindError unwinds to the lock. *)
bind_pair(p) ==
    \E busy \in Busy :
      LET ours == UNION {{port[x][1], port[x][2]} : x \in Procs}
          m == bind_port(1, busy \cup ours)
          s == bind_port(2, busy \cup ours \cup {m})
      IN /\ Go(p, "locked", IF 0 \in {m, s} THEN "unlock" ELSE "bound")
         /\ port' = [port EXCEPT ![p] = IF 0 \in {m, s} THEN NoPorts ELSE <<m, s>>]
         /\ UNCHANGED <<lockfiles, group, cli>>

(* Signal handlers, server.info, the task group. *)
write_server_info(p) ==
    /\ Go(p, "bound", "run")
    /\ info' = p
    /\ tasks' = [tasks EXCEPT ![p] = Tasks]
    /\ UNCHANGED <<fh, held, path, robbed, port, ev, owed, cli>>

-----------------------------------------------------------------------------
(* Running: the children of the task group. *)

Ends(p, t) ==
    /\ phase[p] = "run" /\ t \in tasks[p]
    /\ tasks' = [tasks EXCEPT ![p] = @ \ {t}]
    /\ UNCHANGED <<phase, lockfiles, port, ev, owed, cli>>

(* _shutdown_watcher raises CancelledError in its own task. *)
_shutdown_watcher(p) == "shutdown" \in ev[p] /\ Ends(p, "shutdown")

(* uvicorn stops serving on a SIGTERM. *)
HttpStops(p) == "term" \in ev[p] /\ Ends(p, "http")

(* _fs_watcher_runner: a crash of the watcher is logged. *)
FsWatcherEnds(p) == Ends(p, "fs")

(* Mutant: the event is cleared when the reload is done. *)
ReloadClearsLate(p) ==
    /\ phase[p] = "run"
    /\ \/ /\ "reload" \in ev[p] /\ "busy" \notin ev[p]
          /\ ev' = [ev EXCEPT ![p] = @ \cup {"busy"}]
          /\ owed' = owed \ {p}
       \/ /\ "busy" \in ev[p]
          /\ ev' = [ev EXCEPT ![p] = @ \ {"busy", "reload"}]
          /\ UNCHANGED owed
    /\ UNCHANGED <<phase, lockfiles, port, tasks, cli>>

(* _reload_watcher: clears the event, then calls on_reload; a failure is     *)
(* only logged.  _reindex_watcher is the same loop on another event.         *)
_reload_watcher(p) ==
    /\ phase[p] = "run"
    /\ \/ /\ "reload" \in ev[p] /\ "busy" \notin ev[p]
          /\ ev' = [ev EXCEPT ![p] = (@ \ {"reload"}) \cup {"busy"}]
          /\ owed' = owed \ {p}
       \/ /\ "busy" \in ev[p]
          /\ ev' = [ev EXCEPT ![p] = @ \ {"busy"}]
          /\ UNCHANGED owed
    /\ UNCHANGED <<phase, lockfiles, port, tasks, cli>>

(* A transport raises: the group cancels the others and the exception goes   *)
(* through run(), unwinding.                                                 *)
TransportFails(p) ==
    /\ "http" \in tasks[p] /\ Go(p, "run", "delete")
    /\ tasks' = [tasks EXCEPT ![p] = {}]
    /\ UNCHANGED <<lockfiles, port, ev, owed, cli>>

(* The group is left when no child runs any more. *)
GroupEnds(p) ==
    /\ tasks[p] = {} /\ Go(p, "run", "delete")
    /\ UNCHANGED <<lockfiles, port, group, cli>>

-----------------------------------------------------------------------------
(* Unwinding: the callbacks in reverse order. *)

(* _delete_server_info: whatever is there. *)
delete_server_info(p) ==
    /\ Go(p, "delete", "sockets")
    /\ info' = Nobody
    /\ UNCHANGED <<fh, held, path, robbed, port, group, cli>>

(* _uninstall_signal_handlers, _close_sockets *)
_close_sockets(p) ==
    /\ Go(p, "sockets", "unlock")
    /\ port' = [port EXCEPT ![p] = NoPorts]
    /\ UNCHANGED <<lockfiles, group, cli>>

(* release: unlock and close ... *)
release(p) ==
    /\ Go(p, "unlock", "unlink")
    /\ held' = held \ {p} /\ fh' = [fh EXCEPT ![p] = NoInode]
    /\ UNCHANGED <<path, info, robbed, port, group, cli>>

(* ... then unlink what is at the path by then. *)
UnlinkPath(by) ==
    /\ path' = NoInode
    /\ robbed' = (robbed \/ (path # NoInode /\ \E x \in Procs \ {by} : fh[x] = path))

ReleaseUnlinks(p) ==
    /\ Go(p, "unlink", "exit")
    /\ UnlinkPath(p)
    /\ UNCHANGED <<fh, held, info, port, group, cli>>

(* The stores are closed and the process ends. *)
Exit(p) ==
    /\ phase[p] = "exit"
    /\ Gone(p)
    /\ UNCHANGED cli

-----------------------------------------------------------------------------
(* Signals *)

(* SIGKILL, a crash. *)
Kill(p) ==
    /\ CanKill /\ phase[p] # "off"
    /\ Gone(p)
    /\ UNCHANGED cli

HandlersOn(p) == phase[p] \in {"run", "delete", "sockets"}

(* SIGTERM: the handler sets the event; without a handler it kills. *)
Sigterm(p) ==
    IF HandlersOn(p)
    THEN /\ ev' = [ev EXCEPT ![p] = @ \cup {"shutdown", "term"}]
         /\ UNCHANGED <<phase, lockfiles, port, tasks, owed>>
    ELSE Gone(p)

(* request_shutdown *)
request_shutdown(p) ==
    /\ phase[p] = "run"
    /\ ev' = [ev EXCEPT ![p] = @ \cup {"shutdown"}]
    /\ UNCHANGED <<phase, lockfiles, port, tasks, owed, cli>>

(* _cmd_reload: SIGHUP to the process server.info names. *)
_cmd_reload ==
    /\ info # Nobody /\ phase[info] = "run"
    /\ ev' = [ev EXCEPT ![info] = @ \cup {"reload"}]
    /\ owed' = owed \cup {info}
    /\ UNCHANGED <<phase, lockfiles, port, tasks, cli>>

-----------------------------------------------------------------------------
(* longctx stop *)

(* read_server_info: None when the process is gone. *)
read_server_info == IF info # Nobody /\ phase[info] # "off" THEN info ELSE Nobody

_cmd_stop ==
    /\ cli = Quiet /\ read_server_info # Nobody
    /\ cli' = [at |-> "wait", pid |-> info]
    /\ Sigterm(info)

(* The poll finds the process gone. *)
StopSeesExit ==
    /\ cli.at = "wait" /\ phase[cli.pid] = "off"
    /\ cli' = [cli EXCEPT !.at = "sweep"]
    /\ UNCHANGED <<phase, lockfiles, port, group>>

(* Mutant: no fallback; the command gives up. *)
GiveUp ==
    /\ cli.at = "wait" /\ phase[cli.pid] # "off"
    /\ cli' = [cli EXCEPT !.at = "sweep"]
    /\ UNCHANGED <<phase, lockfiles, port, group>>

(* The grace is over: SIGKILL. *)
StopKills ==
    /\ cli.at = "wait" /\ phase[cli.pid] # "off"
    /\ cli' = [cli EXCEPT !.at = "sweep"]
    /\ Gone(cli.pid)

(* _sweep_stale_daemon_files: server.info, then server.lock. *)
SweepInfo ==
    /\ cli.at = "sweep"
    /\ cli' = [cli EXCEPT !.at = "sweep_lock"]
    /\ info' = Nobody
    /\ robbed' = (robbed \/ (info # Nobody /\ phase[info] = "run"))
    /\ UNCHANGED <<phase, fh, held, path, port, group>>

SweepLock ==
    /\ cli.at = "sweep_lock"
    /\ cli' = Quiet
    /\ UnlinkPath(Nobody)
    /\ UNCHANGED <<phase, fh, held, info, port, group>>

-----------------------------------------------------------------------------
Starts(p) == OpenLockFile(p) \/ acquire(p) \/ bind_pair(p) \/ write_server_info(p)
Runs(p) == _shutdown_watcher(p) \/ HttpStops(p) \/ _reload_watcher(p) \/ GroupEnds(p)
Unwinds(p) ==
    \/ delete_server_info(p) \/ _close_sockets(p) \/ release(p) \/ ReleaseUnlinks(p) \/ Exit(p)
StopWorks == StopSeesExit \/ StopKills \/ SweepInfo \/ SweepLock

DaemonNext ==
    \/ \E p \in Procs :
         \/ _cmd_serve(p) \/ Starts(p) \/ Runs(p) \/ Unwinds(p)
         \/ FsWatcherEnds(p) \/ TransportFails(p)
         \/ request_shutdown(p) \/ Kill(p)
    \/ _cmd_reload \/ _cmd_stop \/ StopWorks

DaemonSpec == DaemonInit /\ [][DaemonNext]_dvars

-----------------------------------------------------------------------------
(* Properties *)

DaemonTypeOK ==
    /\ fh \in [Procs -> Inodes \cup {NoInode}] /\ held \subseteq Procs
    /\ path \in Inodes \cup {NoInode} /\ info \in Procs \cup {Nobody}
    /\ tasks \in [Procs -> SUBSET Tasks]
    /\ cli \in [at : {"idle", "wait", "sweep", "sweep_lock"}, pid : Procs \cup {Nobody}]

Serving(p) == phase[p] \in {"locked", "bound", "run", "delete", "sockets"}

(* server_info.py, SingletonLock: "exactly one daemon per lock path".        *)
OneDaemon == \A p, q \in Procs : Serving(p) /\ Serving(q) => p = q

(* It is so until somebody unlinks a lock file that another process has      *)
(* open: kills, failed starts, exits and restarts do not let two in.         *)
OneDaemonUnlessRobbed == robbed \/ OneDaemon

(* A daemon that runs is the one server.info names, so that `stop`, `reload` *)
(* and `mcp-stdio` reach it: an earlier daemon on its way out never removes  *)
(* or outlives the file of its successor.                                    *)
RunningIsFindable == \A p \in Procs : phase[p] = "run" /\ ~robbed => info = p

(* OneDaemonUnlessRobbed and RunningIsFindable together.                     *)
OneDaemonFindable == OneDaemonUnlessRobbed /\ RunningIsFindable

(* What makes it inductive: who holds the lock and who has the file open is  *)
(* a matter of the phase, an inode's lock has one holder, and until somebody *)
(* is robbed every lock file that is open is the one at the path.            *)
Phases ==
    {"off", "stores", "opened", "locked", "bound", "run", "delete", "sockets", "unlock",
     "unlink", "exit"}
Holding(p) == Serving(p) \/ phase[p] = "unlock"
LockInv ==
    /\ DaemonTypeOK /\ phase \in [Procs -> Phases]
    /\ cli.at = "wait" => cli.pid \in Procs
    /\ \A p \in Procs : (p \in held <=> Holding(p)) /\ (fh[p] # NoInode <=> Holding(p) \/ phase[p] = "opened")
    /\ \A p, q \in held : fh[p] = fh[q] => p = q
    /\ ~robbed => \A p \in Procs : fh[p] \in {NoInode, path}
    /\ RunningIsFindable

(* No reload is lost: each SIGHUP is followed by a reload that begins after  *)
(* it, also one that comes while the previous reload runs.                   *)
ReloadNotLost == \A p \in Procs : (p \in owed) ~> (p \notin owed)

(* `longctx stop` ends, and with the process it was sent to gone.            *)
StopStops ==
    \A p \in Procs : (cli.at = "wait" /\ cli.pid = p) ~> (phase[p] = "off")

(* daemon.py, _run_until_shutdown: "Run all transport tasks + the            *)
(* reload/reindex watchers until _shutdown_event flips".                     *)
ShutdownEnds == \A p \in Procs : ("shutdown" \in ev[p]) ~> (phase[p] # "run")
=============================================================================
