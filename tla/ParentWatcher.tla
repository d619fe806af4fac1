--------------------------- MODULE ParentWatcher ---------------------------
(***************************************************************************)
(* parent_watcher.py and discovery.py: which subdirectories of a directory  *)
(* are projects, kept up to date from file system events.                   *)
(*                                                                          *)
(* watchfiles is external: it reports every change made after awatch        *)
(* started, several changes of one directory as one.                        *)
(***************************************************************************)
EXTENDS Naturals, FiniteSets

CONSTANTS
    Subdirs,    \* the immediate children of parent_dir
    Excluded,   \* those discovery refuses: forbidden, .git, or matched by an
                \* exclude pattern with its "~" expanded
    Matched     \* those the stream refuses: forbidden, or matched by an
                \* exclude pattern as it is written

ASSUME SubdirsAssumption == Matched \subseteq Excluded /\ Excluded \subseteq Subdirs

VARIABLES
    marked,     \* the subdirectories with a sentinel, now
    known,      \* _known
    todo,       \* the children _initial_scan has not looked at yet
    awatch,     \* "off", "scan", "armed", "stopped"
    changed,    \* changes watchfiles has seen and not delivered
    batch,      \* delivered and not yet reconciled
    missed      \* ghost: changed between their probe and the start of awatch

wvars == <<marked, known, todo, awatch, changed, batch, missed>>

WatchInit ==
    /\ marked = {} /\ known = {} /\ todo = Subdirs
    /\ awatch = "off" /\ changed = {} /\ batch = {} /\ missed = {}

(* It is a directory with one of the sentinels in it. *)
is_project_root(d) == d \in marked

(* run: _initial_scan probes one child after another ... *)
discover_projects(d) ==
    /\ awatch \in {"off", "scan"} /\ d \in todo
    /\ awatch' = "scan" /\ todo' = todo \ {d}
    /\ known' = IF d \notin Excluded /\ is_project_root(d) THEN known \cup {d} ELSE known
    /\ UNCHANGED <<marked, changed, batch, missed>>

(* ... and then the event stream is opened. *)
OpenStream ==
    /\ awatch = "scan" /\ todo = {}
    /\ awatch' = "armed"
    /\ UNCHANGED <<marked, known, todo, changed, batch, missed>>

(* Somebody creates or removes the directory or its sentinel. *)
Touch(d) ==
    /\ marked' = IF d \in marked THEN marked \ {d} ELSE marked \cup {d}
    /\ changed' = IF awatch = "armed" THEN changed \cup {d} ELSE changed
    /\ missed' = IF awatch = "scan" /\ d \notin todo THEN missed \cup {d} ELSE missed
    /\ UNCHANGED <<known, todo, awatch, batch>>

(* _affected_basenames of the changes of one debounce window. *)
_affected_basenames ==
    /\ awatch = "armed" /\ batch = {} /\ changed # {}
    /\ batch' = changed /\ changed' = {}
    /\ UNCHANGED <<marked, known, todo, awatch, missed>>

(* Mutant: the event decides, not the directory. *)
ToggleOnEvent(d) ==
    /\ d \in batch /\ batch' = batch \ {d}
    /\ known' = IF d \in known THEN known \ {d} ELSE known \cup ({d} \ Matched)
    /\ missed' = missed \ {d}
    /\ UNCHANGED <<marked, todo, awatch, changed>>

(* _reconcile_basename probes again, by the stream's rules, and calls back on *)
(* a transition.                                                              *)
_reconcile_basename(d) ==
    /\ d \in batch /\ batch' = batch \ {d}
    /\ known' = IF d \notin Matched /\ is_project_root(d) THEN known \cup {d} ELSE known \ {d}
    /\ missed' = missed \ {d}
    /\ UNCHANGED <<marked, todo, awatch, changed>>

(* stop *)
StopWatching ==
    /\ awatch = "armed" /\ batch = {}
    /\ awatch' = "stopped" /\ changed' = {}
    /\ UNCHANGED <<marked, known, todo, batch, missed>>

WatchNext ==
    \/ \E d \in Subdirs : discover_projects(d) \/ Touch(d) \/ _reconcile_basename(d)
    \/ OpenStream \/ _affected_basenames \/ StopWatching

WatchSpec == WatchInit /\ [][WatchNext]_wvars

(* Between batches the known projects are the ones on disk, whatever is      *)
(* created and removed while a batch is waited for and worked off: all that  *)
(* discovery would find, and none without a sentinel or of those refused.  A *)
(* change between the initial probe and the start of the stream is excepted, *)
(* which stays unseen until the directory changes again; and what discovery  *)
(* refuses but the stream does not is a project or not, as it changed since. *)
KnownFollowsDisk ==
    awatch = "armed" /\ changed = {} /\ batch = {} =>
      \A d \in Subdirs \ missed :
        /\ is_project_root(d) /\ d \notin Excluded => d \in known
        /\ d \in known => is_project_root(d) /\ d \notin Matched

(* What makes it inductive: a directory that is neither waiting for its      *)
(* probe nor in a change or a batch is known for what it is.                 *)
KnownInv ==
    /\ awatch \in {"off", "scan", "armed", "stopped"}
    /\ awatch \in {"off", "scan"} => changed = {} /\ batch = {}
    /\ awatch = "off" => todo = Subdirs
    /\ awatch = "armed" => todo = {}
    /\ awatch # "stopped" =>
         \A d \in Subdirs \ (missed \cup changed \cup batch) :
           /\ d \notin todo /\ is_project_root(d) /\ d \notin Excluded => d \in known
           /\ d \in known => d \notin todo /\ is_project_root(d) /\ d \notin Matched
=============================================================================
