------------------------------ MODULE Projects ------------------------------
(***************************************************************************)
(* The life of a project in the daemon: registered by the MCP tool          *)
(* add_project or by a search from an unknown directory (auto_learn.py),    *)
(* scanned by a background thread (mcp_server.py, indexer.py), pinned by    *)
(* sessions (transports.py), and removed by the watcher's cleanup or by     *)
(* `longctx clean`, which is another process (clean.py, disk_budget.py).    *)
(*                                                                          *)
(* A tool handler runs on the event loop without a pause, so it is one      *)
(* step; a scan is a thread and takes three.  The wiring is that of         *)
(* _cmd_serve: the MCP server knows no watcher and no config file.          *)
(***************************************************************************)
EXTENDS SearchPipeline

CONSTANTS
    Conns,      \* MCP connections
    Roots,      \* directories that may be projects
    NameOf,     \* project_name_from_root: the name of each
    Forbidden,  \* is_forbidden_parent, forbidden_dirs
    NoSession,
    MaxScans,   \* bound: scans at once
    CanClean,   \* bound: whether projects get deleted
    Movable     \* bound: the roots that may vanish and return

Names == {NameOf[r] : r \in Roots}

ASSUME ProjectsAssumption ==
    /\ IsFiniteSet(Roots) /\ Forbidden \subseteq Roots /\ Movable \subseteq Roots /\ MaxScans \in Nat \ {0}
    /\ NoProject \notin Names /\ NoSession \notin Conns

VARIABLES
    disk,       \* the roots that exist
    reg,        \* the projects table: name -> [root, session, scanned]
    scans,      \* the running full_scan threads, in the order of their launch
    ctx,        \* the ConnectionContext of every open connection
    plan,       \* the targets `longctx clean` has collected and not removed yet
    pinned,     \* ghost: the project each connection pinned last
    asked,      \* ghost: name -> [root, session] as last added and not deleted
    late,       \* ghost: the names last deleted while a scan had them
    failed      \* ghost: the names a scan of which raised since they were added

pvars == <<disk, reg, scans, ctx, plan, pinned, asked, late, failed>>
table == <<reg, asked, late, failed>>

NoContext == [sticky |-> NoProject, touched |-> {}]
Open == DOMAIN ctx
Put(fn, x, v) == [y \in DOMAIN fn \cup {x} |-> IF y = x THEN v ELSE fn[y]]
Drop(fn, x) == [y \in DOMAIN fn \ {x} |-> fn[y]]

ProjectsInit ==
    /\ disk = Roots /\ reg = [n \in {} |-> n] /\ scans = <<>>
    /\ ctx = [c \in {} |-> c] /\ plan = {}
    /\ pinned = [c \in Conns |-> NoProject] /\ asked = [n \in {} |-> n]
    /\ late = {} /\ failed = {}

-----------------------------------------------------------------------------
(* Sessions *)

(* handle_sse: a fresh context for every connection.  handle_mcp makes one for *)
(* every request and drops it after it: such a request is a connection here.   *)
handle_sse(c) ==
    /\ c \notin Open
    /\ ctx' = Put(ctx, c, NoContext)
    /\ UNCHANGED <<disk, table, scans, plan, pinned>>

(* The context goes with the connection; what it registered stays. *)
Disconnect(c) ==
    /\ c \in Open
    /\ ctx' = Drop(ctx, c) /\ pinned' = [pinned EXCEPT ![c] = NoProject]
    /\ UNCHANGED <<disk, table, scans, plan>>

(* _session_state: the context variable of the task that handles the call. *)
_session_state(c) == c

_handle_set_active_project(c, n) ==
    /\ c \in Open /\ n \in DOMAIN reg
    /\ ctx' = [ctx EXCEPT ![_session_state(c)].sticky = n]
    /\ pinned' = [pinned EXCEPT ![c] = n]
    /\ UNCHANGED <<disk, table, scans, plan>>

(* What search_codebase without cwd and project searches. *)
Plain == [cued |-> {}, bare |-> {}]
_handle_search_codebase(c) ==
    _scope_to_filter(SearchScope(Plain, NoCwd, NoProject, ctx[_session_state(c)].sticky,
                                 SetToSeq(DOMAIN reg)))

-----------------------------------------------------------------------------
(* Registration *)

_launch_full_scan(n) == Append(scans, [name |-> n, at |-> "start", rec |-> [root |-> n]])

(* Mutant: the scan reads the record before the session is stamped on it. *)
RegisterScanFirst(r, session) ==
    LET n == NameOf[r]
    IN /\ reg' = Put(reg, n, [root |-> r, session |-> session, scanned |-> FALSE])
       /\ asked' = Put(asked, n, [root |-> r, session |-> session])
       /\ scans' = Append(scans, [name |-> n, at |-> "files",
                                  rec |-> [root |-> r, session |-> NoSession, scanned |-> FALSE]])
       /\ failed' = failed \ {n}

(* Indexer.add_project inserts the record and the handler stamps it with the *)
(* session; then the scan is launched.                                       *)
Register(r, session) ==
    LET n == NameOf[r]
    IN /\ reg' = Put(reg, n, [root |-> r, session |-> session, scanned |-> FALSE])
       /\ asked' = Put(asked, n, [root |-> r, session |-> session])
       /\ scans' = _launch_full_scan(n)
       /\ failed' = failed \ {n}

(* An error for a path that is not there, is forbidden or whose name is taken. *)
_handle_add_project(c, r, persist) ==
    /\ c \in Open /\ r \in disk \ Forbidden /\ NameOf[r] \notin DOMAIN reg
    /\ Len(scans) < MaxScans
    /\ Register(r, IF persist THEN NoSession ELSE c)
    /\ UNCHANGED <<disk, ctx, plan, pinned, late>>

(* Mutant: the repository is registered and nobody scans it. *)
LearnWithoutScan(c, r) ==
    /\ c \in Open /\ r \in disk \ Forbidden /\ r \notin ctx[_session_state(c)].touched
    /\ Len(scans) < MaxScans
    /\ ctx' = [ctx EXCEPT ![_session_state(c)].touched = @ \cup {r}]
    /\ NameOf[r] \notin DOMAIN reg
    /\ reg' = Put(reg, NameOf[r], [root |-> r, session |-> c, scanned |-> FALSE])
    /\ asked' = Put(asked, NameOf[r], [root |-> r, session |-> c])
    /\ UNCHANGED <<disk, scans, plan, pinned, late, failed>>

(* A search with a cwd: the repository it is in (resolve_repo_root) is       *)
(* learned at its first touch, unless its name is known.                     *)
_maybe_auto_learn_cwd(c, r) ==
    /\ c \in Open /\ r \in disk \ Forbidden /\ r \notin ctx[_session_state(c)].touched
    /\ Len(scans) < MaxScans
    /\ ctx' = [ctx EXCEPT ![_session_state(c)].touched = @ \cup {r}]
    /\ IF NameOf[r] \in DOMAIN reg THEN UNCHANGED <<reg, asked, scans, failed>> ELSE Register(r, c)
    /\ UNCHANGED <<disk, plan, pinned, late>>

-----------------------------------------------------------------------------
(* full_scan, on its thread *)

SetScan(i, scan) == scans' = [scans EXCEPT ![i] = scan]
EndScan(i) == scans' = RemoveAt(scans, i)

(* Reads the record; KeyError when there is none. *)
ScanStart(i) ==
    LET n == scans[i].name
    IN /\ scans[i].at = "start"
       /\ IF n \in DOMAIN reg THEN SetScan(i, [scans[i] EXCEPT !.at = "files", !.rec = reg[n]])
          ELSE EndScan(i)
       /\ UNCHANGED <<disk, table, ctx, plan, pinned>>

(* Walks the root and indexes its files; without the project's row the       *)
(* foreign key fails.                                                        *)
ScanFiles(i) ==
    /\ scans[i].at = "files"
    /\ IF scans[i].rec.root \in disk /\ scans[i].name \notin DOMAIN reg THEN EndScan(i)
       ELSE SetScan(i, [scans[i] EXCEPT !.at = "end"])
    /\ UNCHANGED <<disk, table, ctx, plan, pinned>>

(* Another embedder, a file or an encode that raises: _scan swallows every    *)
(* exception, and nobody scans again.                                         *)
ScanRaises(i) ==
    /\ scans[i].at \in {"start", "files"}
    /\ EndScan(i)
    /\ failed' = failed \cup {scans[i].name}
    /\ UNCHANGED <<disk, reg, asked, late, ctx, plan, pinned>>

(* Writes back the record it read, with the time of the scan. *)
ScanEnd(i) ==
    /\ scans[i].at = "end"
    /\ reg' = Put(reg, scans[i].name, [scans[i].rec EXCEPT !.scanned = TRUE])
    /\ EndScan(i)
    /\ UNCHANGED <<disk, asked, late, failed, ctx, plan, pinned>>

-----------------------------------------------------------------------------
(* Removal *)

Scanning(n) == \E i \in DOMAIN scans : scans[i].name = n /\ scans[i].at # "start"

(* Indexer.delete_project, SqliteChunkStore.delete_project: the chunks go    *)
(* with the row.                                                             *)
delete_project(n) ==
    /\ reg' = Drop(reg, n) /\ asked' = Drop(asked, n)
    /\ late' = IF Scanning(n) THEN late \cup {n} ELSE late \ {n}
    /\ failed' = failed \ {n}

(* The watcher's Tier 1: the root has been missing for too long. *)
CleanupMissing(n) ==
    /\ CanClean /\ n \in DOMAIN reg /\ reg[n].root \notin disk
    /\ delete_project(n)
    /\ UNCHANGED <<disk, scans, ctx, plan, pinned>>

(* collect_idle, collect_orphans, collect_missing, collect_disk_budget. *)
collect_idle(n) == reg[n].scanned
collect_orphans(n) == reg[n].session # NoSession
collect_missing(n) == reg[n].root \notin disk

cmd_clean ==
    /\ CanClean /\ plan = {}
    /\ plan' = {n \in DOMAIN reg : collect_idle(n) \/ collect_orphans(n) \/ collect_missing(n)}
    /\ UNCHANGED <<disk, table, scans, ctx, pinned>>

(* execute_plan removes what was collected, whatever it is by now. *)
execute_plan(n) ==
    /\ n \in plan /\ plan' = plan \ {n}
    /\ delete_project(n)
    /\ UNCHANGED <<disk, scans, ctx, pinned>>

RootVanishes(r) ==
    /\ CanClean /\ r \in disk \cap Movable /\ disk' = disk \ {r}
    /\ UNCHANGED <<table, scans, ctx, plan, pinned>>

RootReturns(r) ==
    /\ r \notin disk /\ disk' = disk \cup {r}
    /\ UNCHANGED <<table, scans, ctx, plan, pinned>>

-----------------------------------------------------------------------------
ScanSteps == \E i \in DOMAIN scans : ScanStart(i) \/ ScanFiles(i) \/ ScanRaises(i) \/ ScanEnd(i)

ProjectsNext ==
    \/ \E c \in Conns :
         \/ handle_sse(c) \/ Disconnect(c)
         \/ \E n \in Names : _handle_set_active_project(c, n)
         \/ \E r \in Roots : _maybe_auto_learn_cwd(c, r)
                             \/ \E persist \in BOOLEAN : _handle_add_project(c, r, persist)
    \/ ScanSteps
    \/ \E n \in Names : CleanupMissing(n) \/ execute_plan(n)
    \/ cmd_clean
    \/ \E r \in Roots : RootVanishes(r) \/ RootReturns(r)

ProjectsSpec == ProjectsInit /\ [][ProjectsNext]_pvars

(* Threads run; the oldest scan is one of them. *)
OldestScan == scans # <<>> /\ (ScanStart(1) \/ ScanFiles(1) \/ ScanRaises(1) \/ ScanEnd(1))

-----------------------------------------------------------------------------
(* Properties *)

(* Sessions do not see each other's state: a search that names no project    *)
(* searches the one its own connection pinned last, or all if it pinned      *)
(* none, whatever other connections pin, open and close meanwhile.           *)
SessionsIndependent ==
    \A c \in Open :
      _handle_search_codebase(c) =
        IF pinned[c] # NoProject THEN [all |-> FALSE, projects |-> {pinned[c]}]
        ELSE [all |-> DOMAIN reg = {}, projects |-> DOMAIN reg]

(* The registry holds what was added and not deleted since, with the root    *)
(* and the session it was added with: background scans writing their record  *)
(* back change neither, nor bring a project back, unless the project was     *)
(* deleted while it was scanned (the names in `late`).                       *)
RegistryAsAsked ==
    \A n \in Names \ late :
      /\ n \in DOMAIN reg <=> n \in DOMAIN asked
      /\ n \in DOMAIN reg => asked[n] = [root |-> reg[n].root, session |-> reg[n].session]

(* SessionsIndependent and RegistryAsAsked: the registry and the sessions    *)
(* hold what clients asked for.                                              *)
ProjectsAsAsked == SessionsIndependent /\ RegistryAsAsked

(* What makes it inductive: the record a scan will write back is the one in  *)
(* the registry, unless the project was deleted under the scan.              *)
ProjectRecord == [root : Roots, session : Conns \cup {NoSession}, scanned : BOOLEAN]
Scan == [name : Names, at : {"start", "files", "end"}, rec : ProjectRecord \cup [root : Names]]
TableInv ==
    /\ disk \subseteq Roots /\ DOMAIN reg \subseteq Names /\ plan \subseteq Names
    /\ \A n \in DOMAIN reg : reg[n] \in ProjectRecord
SessionsInv ==
    /\ pinned \in [Conns -> Names \cup {NoProject}] /\ Open \subseteq Conns
    /\ ctx \in [Open -> [sticky : Names \cup {NoProject}, touched : SUBSET Roots]]
    /\ \A c \in Conns : pinned[c] = IF c \in Open THEN ctx[c].sticky ELSE NoProject
WritesBackSame(scan) ==
    scan.at # "start" =>
      /\ scan.rec \in ProjectRecord
      /\ scan.name \notin late =>
           /\ scan.name \in DOMAIN reg
           /\ scan.rec.root = reg[scan.name].root /\ scan.rec.session = reg[scan.name].session
ScansInv == scans \in Seq(Scan) /\ \A i \in DOMAIN scans : WritesBackSame(scans[i])
ProjectsInv == TableInv /\ SessionsInv /\ ScansInv /\ RegistryAsAsked

(* What add_project or a search registered is scanned in the end, was        *)
(* deleted, or a scan of it raised: no registered project waits for a scan   *)
(* nobody launched.  (One whose scan raised stays unscanned, and the client  *)
(* is not told.)                                                             *)
AddedGetsScanned ==
    \A n \in Names :
      (n \in DOMAIN reg /\ ~reg[n].scanned) ~> (n \notin DOMAIN reg \/ reg[n].scanned \/ n \in failed)
=============================================================================
