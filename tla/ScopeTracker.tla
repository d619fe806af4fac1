---------------------------- MODULE ScopeTracker ----------------------------
(***************************************************************************)
(* The phases a session's candidate scopes go through from turn to turn    *)
(* (longctx-svc: scope/tracker.py).  Turn numbers are kept as ages, capped *)
(* where the code only compares them with a threshold.                     *)
(***************************************************************************)
EXTENDS ScopeDetect

CONSTANTS
    Mentionable,            \* paths a session may mention
    MentionsPerTurn,  \* bound: files mentioned in one turn
    SpecMin,          \* speculate_min_files
    ActiveMin,        \* active_min_files
    ActiveMinTurns,   \* active_min_turns
    DemoteAfter,      \* demote_after_idle_turns
    DriftGap          \* drift_required_gap

\* The checks of ScopeClusterTracker.__init__.
ASSUME TrackerAssumption ==
    /\ SpecMin \in Nat /\ SpecMin >= 1
    /\ ActiveMin \in Nat /\ ActiveMin >= SpecMin
    /\ DemoteAfter \in Nat /\ DemoteAfter >= 1
    /\ ActiveMinTurns \in Nat /\ DriftGap \in Nat

MinDepth == 2   \* min_depth of cluster_paths

Dirs == UNION {Ancestors(f) : f \in Mentionable}

\* A session mentions finitely many paths, and two directories are never the
\* same string.
ASSUME MentionableAssumption ==
    /\ Mentionable \subseteq Seq(STRING) /\ IsFiniteSet(Mentionable)
    /\ \A c, d \in Dirs : LexRank(c) \in Nat /\ (LexRank(c) = LexRank(d) => c = d)

VARIABLES
    phases,       \* phase of each directory; "none": not a candidate
    unique,      \* unique_files of a candidate, as of its last update
    sustained,   \* turns since first_seen_turn, this one included
    idle,        \* turns since last_seen_turn
    paths_seen,  \* every path of the session
    quiet        \* ghost: turns since a file under the directory was mentioned

tvars == <<phases, unique, sustained, idle, paths_seen, quiet>>

TrackerInit ==
    /\ phases = [d \in Dirs |-> "none"]
    /\ unique = [d \in Dirs |-> 0]
    /\ sustained = [d \in Dirs |-> 0]
    /\ idle = [d \in Dirs |-> 0]
    /\ paths_seen = {}
    /\ quiet = [d \in Dirs |-> 0]

Capped(n, cap) == IF n > cap THEN cap ELSE n
Actives(ph) == {d \in Dirs : ph[d] = "active"}

\* Mutant: the ladder does not look whether another scope is active.
LadderBlind(ph, anc, files, turns) ==
    LET spec == IF ph[anc] = "watch" /\ files >= SpecMin THEN [ph EXCEPT ![anc] = "speculative"] ELSE ph
    IN  IF spec[anc] = "speculative" /\ (files >= ActiveMin \/ turns >= ActiveMinTurns)
        THEN [spec EXCEPT ![anc] = "active"] ELSE spec

\* One rung after the other of the promotion ladder for the top cluster, once
\* drift has been settled.
Ladder(ph, anc, files, turns) ==
    LET spec == IF ph[anc] = "watch" /\ files >= SpecMin THEN [ph EXCEPT ![anc] = "speculative"] ELSE ph
        activate == /\ spec[anc] = "speculative"
                    /\ files >= ActiveMin \/ turns >= ActiveMinTurns
                    /\ Actives(spec) \subseteq {anc}
    IN  IF activate THEN [spec EXCEPT ![anc] = "active"] ELSE spec

\* The active scope steps aside for a challenger with enough more files.
Drift(ph, anc, files) ==
    [d \in Dirs |-> IF ph[d] = "active" /\ d # anc /\ files >= unique[d] + DriftGap /\ files >= ActiveMin
                    THEN "demoted" ELSE ph[d]]

\* The candidate's phase before the ladder: new and demoted ones start over.
Revived(anc) == IF phases[anc] \in {"none", "demoted"} THEN [phases EXCEPT ![anc] = "watch"] ELSE phases

\* Phases after the top cluster was given fresh evidence.
_update_phases(anc, files, turns) ==
    Ladder(Drift(Revived(anc), anc, files), anc, files, turns)

\* Scopes without fresh evidence for DemoteAfter turns are demoted.
_demote_idle(ph, age) ==
    [d \in Dirs |-> IF ph[d] \in {"speculative", "active"} /\ age[d] >= DemoteAfter THEN "demoted" ELSE ph[d]]

observe(paths) ==
    LET seen == paths_seen \cup paths
        top == cluster_paths(seen, SpecMin, MinDepth)
        fresh == top # NoDir /\ FilesUnder(top, paths) # {}
        files == Cardinality(FilesUnder(top, seen))
        older == [d \in Dirs |-> IF phases[d] = "none" THEN 0 ELSE Capped(idle[d] + 1, DemoteAfter)]
        longer == [d \in Dirs |-> IF phases[d] = "none" THEN 0 ELSE Capped(sustained[d] + 1, ActiveMinTurns)]
        restarts == fresh /\ phases[top] \in {"none", "demoted"}
    IN  /\ paths_seen' = seen
        /\ idle' = IF fresh THEN [older EXCEPT ![top] = 0] ELSE older
        /\ sustained' = IF restarts THEN [longer EXCEPT ![top] = Capped(1, ActiveMinTurns)] ELSE longer
        /\ unique' = IF fresh THEN [unique EXCEPT ![top] = files] ELSE unique
        /\ phases' = _demote_idle(IF fresh THEN _update_phases(top, files, sustained'[top]) ELSE phases, idle')
        /\ quiet' = [d \in Dirs |-> IF FilesUnder(d, paths) # {} THEN 0 ELSE Capped(quiet[d] + 1, DemoteAfter)]

TrackerNext == \E paths \in SUBSET Mentionable : Cardinality(paths) <= MentionsPerTurn /\ observe(paths)

TrackerSpec == TrackerInit /\ [][TrackerNext]_tvars

-----------------------------------------------------------------------------
(* Properties *)

\* The type invariant.
TrackerTypeOK ==
    /\ phases \in [Dirs -> {"none", "watch", "speculative", "active", "demoted"}]
    /\ unique \in [Dirs -> 0..Cardinality(Mentionable)]
    /\ sustained \in [Dirs -> 0..ActiveMinTurns]
    /\ idle \in [Dirs -> 0..DemoteAfter]
    /\ quiet \in [Dirs -> 0..DemoteAfter]
    /\ paths_seen \subseteq Mentionable

\* A session works in one scope at a time: however candidates are promoted,
\* challenged, demoted and revived, two are never active, so active() and
\* _active_locked() need not care which they find first.
OneActive == Cardinality(Actives(phases)) <= 1

\* A scope is indexed or injected only on evidence: a speculative or active
\* directory is deep enough, had the files it counts, and saw a mention of one
\* of its files within the last DemoteAfter turns.
AliveOnEvidence ==
    \A d \in Dirs : phases[d] \in {"speculative", "active"} =>
        /\ SpecMin <= unique[d] /\ unique[d] <= Cardinality(FilesUnder(d, paths_seen))
        /\ Len(d) >= MinDepth
        /\ quiet[d] < DemoteAfter

\* When all files of a session live in one directory below the filesystem
\* root, the cluster is the deepest such directory: it misses none of them
\* (priority 1 of cluster_paths) and is not wider than needed (priority 2).
ClusterIsShared ==
    LET common == {d \in Dirs : paths_seen # {} /\ FilesUnder(d, paths_seen) = paths_seen} IN
    \A d \in common :
        (/\ Cardinality(paths_seen) >= SpecMin /\ Len(d) >= MinDepth
         /\ \A o \in common : Len(o) <= Len(d))
        => cluster_paths(paths_seen, SpecMin, MinDepth) = d

\* The best of all_clusters that is deep enough is the cluster.
ClusterIsFirst ==
    LET all == Among(all_clusters(paths_seen, SpecMin), {d \in Dirs : Len(d) >= MinDepth})
    IN cluster_paths(paths_seen, SpecMin, MinDepth) = IF all = <<>> THEN NoDir ELSE Head(all)

\* OneActive, AliveOnEvidence, ClusterIsShared and ClusterIsFirst: what a
\* session's scope is taken to be, and on what evidence.
PhasesSound == OneActive /\ AliveOnEvidence /\ ClusterIsShared /\ ClusterIsFirst
=============================================================================
