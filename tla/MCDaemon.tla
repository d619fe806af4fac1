------------------------------ MODULE MCDaemon ------------------------------
(***************************************************************************)
(* The two services as processes.  longctx-daemon: two daemons and the      *)
(* commands that steer them, and the limits of a daemon's watcher (its      *)
(* worker, its cleanup).  longctx-svc: two engines with their sidecars.     *)
(* They share no state: a behaviour is one of one of them.                  *)
(***************************************************************************)
EXTENDS Daemon, WatchLimits, Sidecar

CONSTANTS Parts, p1, p2, w1, w2

VARIABLE part

vars == <<part, dvars, limvars, svars>>

MCProcs == {p1, p2}

(* Nothing else on the ports, or another program on every one of the walk.  *)
MCBusy == {{}, 1..MaxTries}

(* One project may queue more than the burst at once. *)
MCWatched == {w1, w2}
MCMaxQueued == [w \in MCWatched |-> IF w = w1 THEN 3 ELSE 1]

Init ==
    /\ part \in Parts
    /\ DaemonInit /\ LimitsInit /\ SidecarInit

Daemons == part = "daemon" /\ UNCHANGED <<part, limvars, svars>>
Worker == part = "worker" /\ UNCHANGED <<part, dvars, svars>>
Cleanup == part = "cleanup" /\ UNCHANGED <<part, dvars, svars>>
Sidecars == part = "sidecar" /\ UNCHANGED <<part, dvars, limvars>>

Next ==
    \/ Daemons /\ DaemonNext
    \/ Worker /\ LimitsNext
    \/ Cleanup /\ TierNext
    \/ Sidecars /\ SidecarNext

(* What is ready on an event loop runs, time passes, the cleanup tick comes  *)
(* round, commands run to their end.                                         *)
Spec ==
    /\ Init /\ [][Next]_vars
    /\ \A p \in Procs :
         /\ WF_vars(Daemons /\ Starts(p))
         /\ WF_vars(Daemons /\ _shutdown_watcher(p))
         /\ WF_vars(Daemons /\ HttpStops(p))
         /\ WF_vars(Daemons /\ _reload_watcher(p))
         /\ WF_vars(Daemons /\ GroupEnds(p))
         /\ WF_vars(Daemons /\ Unwinds(p))
    /\ WF_vars(Daemons /\ StopWorks)
    /\ WF_vars(Worker /\ WorkerSteps) /\ WF_vars(Worker /\ Second) /\ WF_vars(Worker /\ _shutdown)
    /\ WF_vars(Cleanup /\ Day)
    /\ \A w \in Watched : WF_vars(Worker /\ Expire(w)) /\ WF_vars(Cleanup /\ Ticks(w))
=============================================================================
