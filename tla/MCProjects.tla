----------------------------- MODULE MCProjects -----------------------------
(***************************************************************************)
(* The MCP server's side of a daemon: its projects and sessions, a search   *)
(* beside the indexer, the BM25 cache over restarts, the watcher of parent  *)
(* directories and the replay log: a behaviour is one of one of them.       *)
(***************************************************************************)
EXTENDS Projects, Searcher, ParentWatcher, ReplayLog

CONSTANTS r1, r2, name, a, c, f, g

VARIABLE part

mcvars == <<part, pvars, allVars, wvars, lvars>>

(* Two clones of a repository, with one name. *)
MCRoots == {r1, r2}
MCNameOf == [r \in MCRoots |-> name]

(* Two files of one chunk each. *)
MCFileOf == (a :> f) @@ (c :> g)

MCInit ==
    /\ part \in {"projects", "search", "lexical", "parent", "log"}
    /\ ProjectsInit /\ SInit /\ WatchInit /\ LogInit

Serving == part = "projects" /\ UNCHANGED <<part, allVars, wvars, lvars>>
Searching == part = "search" /\ UNCHANGED <<part, pvars, wvars, lvars>>
Restarting == part = "lexical" /\ UNCHANGED <<part, pvars, svars, wvars, lvars>>
Watching == part = "parent" /\ UNCHANGED <<part, pvars, allVars, lvars>>
Logging == part = "log" /\ UNCHANGED <<part, pvars, allVars, wvars>>

(* The two files differ in nothing: the one indexed first is called f. *)
FirstIsF == files' = <<>> \/ files'[1] = f

MCNext ==
    \/ Serving /\ ProjectsNext
    \/ Searching /\ SNext /\ FirstIsF
    \/ Restarting /\ Next
    \/ Watching /\ WatchNext
    \/ Logging /\ LogNext

(* A scan that was launched ends, and a search goes on to its end. *)
MCSpec ==
    /\ MCInit /\ [][MCNext]_mcvars
    /\ WF_mcvars(Serving /\ OldestScan)
    /\ WF_mcvars(Searching /\ SearchSteps)
=============================================================================
