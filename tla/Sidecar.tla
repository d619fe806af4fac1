------------------------------- MODULE Sidecar -------------------------------
(***************************************************************************)
(* longctx_svc/sidecar.py: inference engines that each start a longctx-svc  *)
(* of their own on a free port, wait until it answers and stop it with      *)
(* themselves.  The child and the ports are external: a child binds the     *)
(* port it was told or dies, may die at any time, and ends on SIGTERM       *)
(* unless it hangs.                                                         *)
(***************************************************************************)
EXTENDS Integers, FiniteSets, FiniteSetsExt

CONSTANTS
    Engines,
    Ports,      \* the ports _free_port looks at, as numbers
    Taken,      \* those of other programs
    OsPort      \* the port the system gives when none of them is free

ASSUME SidecarAssumption == Ports \subseteq Nat /\ Taken \subseteq Ports /\ OsPort \in Nat \ Ports

VARIABLES
    engine,     \* engine |-> "idle", "picked", "waiting", "up", "stopping", "ended", "failed", "raised"
    chosen,     \* engine |-> the port in its URL
    child       \* engine |-> "none", "booting", "bound", "hung", "dead"

svars == <<engine, chosen, child>>

SidecarInit ==
    /\ engine = [e \in Engines |-> "idle"]
    /\ chosen = [e \in Engines |-> OsPort]
    /\ child = [e \in Engines |-> "none"]

Alive(e) == child[e] \in {"booting", "bound", "hung"}

(* A child that hangs had bound its port, and keeps it. *)
Bound == {chosen[e] : e \in {x \in Engines : child[x] \in {"bound", "hung"}}}

is_port_in_use(p) == p \in Taken \cup Bound

_free_port ==
    LET free == {p \in Ports : ~is_port_in_use(p)} IN IF free = {} THEN OsPort ELSE Min(free)

Move(e, from, to) == engine[e] = from /\ engine' = [engine EXCEPT ![e] = to]

(* A port asked for that is in use raises PortInUseError. *)
pick_port(e) ==
    /\ \/ Move(e, "idle", "picked") /\ chosen' = [chosen EXCEPT ![e] = _free_port]
       \/ \E preferred \in Ports :
            IF is_port_in_use(preferred) THEN Move(e, "idle", "failed") /\ UNCHANGED chosen
            ELSE Move(e, "idle", "picked") /\ chosen' = [chosen EXCEPT ![e] = preferred]
    /\ UNCHANGED child

(* spawn_sidecar: the port is looked at first, then the child is started. *)
spawn_sidecar(e) ==
    /\ Move(e, "picked", "waiting")
    /\ child' = [child EXCEPT ![e] = "booting"] /\ UNCHANGED chosen

ChildBinds(e) ==
    /\ child[e] = "booting"
    /\ child' = [child EXCEPT ![e] = IF is_port_in_use(chosen[e]) THEN "dead" ELSE "bound"]
    /\ UNCHANGED <<engine, chosen>>

ChildDies(e) ==
    /\ Alive(e) /\ child' = [child EXCEPT ![e] = "dead"] /\ UNCHANGED <<engine, chosen>>

ChildHangs(e) ==
    /\ child[e] = "bound" /\ child' = [child EXCEPT ![e] = "hung"] /\ UNCHANGED <<engine, chosen>>

(* SIGTERM to the process group of the child *)
Terminated(e) == [child EXCEPT ![e] = IF @ = "hung" THEN @ ELSE "dead"]

(* _wait_healthy returns: whoever listens on the port has answered. *)
_wait_healthy(e) ==
    /\ \E x \in Engines : child[x] = "bound" /\ chosen[x] = chosen[e]
    /\ Move(e, "waiting", "up") /\ UNCHANGED <<chosen, child>>

(* It never answered in time: the child is told to end, RuntimeError. *)
BootTimeout(e) == Move(e, "waiting", "failed") /\ child' = Terminated(e) /\ UNCHANGED chosen

(* An answer that is not HTTP, an interrupt: what is no OSError leaves          *)
(* spawn_sidecar with the child running and nobody to stop it.                *)
HealthPollRaises(e) == Move(e, "waiting", "raised") /\ UNCHANGED <<chosen, child>>

(* Sidecar.stop: nothing if the child has ended, else SIGTERM ... *)
StopSidecar(e) ==
    /\ engine[e] = "up"
    /\ engine' = [engine EXCEPT ![e] = IF Alive(e) THEN "stopping" ELSE "ended"]
    /\ child' = IF Alive(e) THEN Terminated(e) ELSE child
    /\ UNCHANGED chosen

(* Mutant: after the timeout nothing more is done. *)
StopGivesUp(e) == Move(e, "stopping", "ended") /\ UNCHANGED <<chosen, child>>

(* ... and, when the child is still there after the timeout, SIGKILL. *)
StopWaits(e) ==
    /\ Move(e, "stopping", "ended")
    /\ child' = [child EXCEPT ![e] = "dead"] /\ UNCHANGED chosen

SidecarNext ==
    \E e \in Engines :
        \/ pick_port(e) \/ spawn_sidecar(e) \/ _wait_healthy(e) \/ BootTimeout(e) \/ HealthPollRaises(e)
        \/ StopSidecar(e) \/ StopWaits(e) \/ ChildBinds(e) \/ ChildDies(e) \/ ChildHangs(e)

SidecarSpec == SidecarInit /\ [][SidecarNext]_svars

-----------------------------------------------------------------------------
(* Properties *)

SidecarTypeOK ==
    /\ engine \in [Engines -> {"idle", "picked", "waiting", "up", "stopping", "ended", "failed", "raised"}]
    /\ chosen \in [Engines -> Ports \cup {OsPort}]
    /\ child \in [Engines -> {"none", "booting", "bound", "hung", "dead"}]

(* A stopped engine leaves no process behind, however its start went and     *)
(* whoever answered on its port, and a start that timed out leaves at most a *)
(* child that hangs: on that path there is no SIGKILL.  (A start that an     *)
(* exception of the health poll left leaves its child as it is.)             *)
NoChildLeft ==
    \A e \in Engines :
        /\ engine[e] = "ended" => ~Alive(e)
        /\ engine[e] = "failed" => child[e] \in {"none", "dead", "hung"}

(* What makes NoChildLeft inductive: only spawn_sidecar makes a child.       *)
ChildInv ==
    /\ SidecarTypeOK
    /\ \A e \in Engines : engine[e] \in {"idle", "picked"} => child[e] = "none"
    /\ NoChildLeft
=============================================================================
