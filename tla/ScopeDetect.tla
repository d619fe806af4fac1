----------------------------- MODULE ScopeDetect -----------------------------
(***************************************************************************)
(* Which directory a prompt is about (longctx-svc: scope/detect.py,        *)
(* scope/cluster.py).  A path is the sequence of its parts, the root       *)
(* directory first; symbolic links and the case of letters are left out.   *)
(* A mention stands for the string that names a path in a prompt:          *)
(* [absolute, path, ext], path being the parts that the string has and ext *)
(* whether the last of them has an extension.                              *)
(***************************************************************************)
EXTENDS Integers, Sequences, FiniteSets, SequencesExt, Ordering

CONSTANTS
    SentinelDirs,   \* directories that hold a sentinel (.git, package.json, ...)
    DirPaths,       \* paths that are directories on disk
    TopDirs,        \* what _PATH_RE accepts below the root: home, tmp, data, ...
    LexRank(_)      \* position of a directory in the order of path strings

NoDir == <<>>

\* p.parents: every directory above p.
Ancestors(p) == {SubSeq(p, 1, n) : n \in 1..(Len(p) - 1)}

FilesUnder(d, paths) == {p \in paths : d \in Ancestors(p)}

-----------------------------------------------------------------------------
(* cluster.py *)

\* The sort key of cluster_paths: more files, then deeper, then later in
\* string order.
Better(a, b, paths) ==
    LET fa == Cardinality(FilesUnder(a, paths))
        fb == Cardinality(FilesUnder(b, paths))
    IN  \/ fa > fb
        \/ fa = fb /\ Len(a) > Len(b)
        \/ fa = fb /\ Len(a) = Len(b) /\ LexRank(a) > LexRank(b)

Qualifying(paths, min_files, min_depth) ==
    {d \in UNION {Ancestors(p) : p \in paths} :
        Cardinality(FilesUnder(d, paths)) >= min_files /\ Len(d) >= min_depth}

cluster_paths(paths, min_files, min_depth) ==
    LET q == Qualifying(paths, min_files, min_depth) IN
    IF q = {} THEN NoDir
    ELSE CHOOSE d \in q : \A o \in q \ {d} : Better(d, o, paths)

\* Every ancestor with enough files, the best first: no depth is asked for.
all_clusters(paths, min_files) ==
    LET q == Qualifying(paths, min_files, 1)
    IN Sorted(q, {e \in Pairs(q) : Better(e[1], e[2], paths)})

-----------------------------------------------------------------------------
(* detect.py *)

\* _PATH_RE, _REL_PATH_RE: an absolute path goes below a known directory of the
\* root, a relative one has a directory and an extension.
Recognised(m) ==
    IF m.absolute THEN Len(m.path) > 2 /\ m.path[2] \in TopDirs ELSE Len(m.path) > 1 /\ m.ext

FirstMet(s) == Picked(s, {k \in DOMAIN s : \A j \in 1..k - 1 : s[j] # s[k]})

\* Strings are listed once, paths need not be: first the absolute ones as they
\* are, then the relative ones, taken from the default scope, that exist.
extract_paths_from_prefill(mentions, default_scope, existing) ==
    LET seen == FirstMet(mentions)
        matched == {m \in Range(seen) : Recognised(m)}
        absolute == Among(seen, {m \in matched : m.absolute})
        relative == Among(seen, {m \in matched : ~m.absolute /\ default_scope # NoDir
                                                  /\ default_scope \o m.path \in existing})
    IN [k \in DOMAIN absolute |-> absolute[k].path]
       \o [k \in DOMAIN relative |-> default_scope \o relative[k].path]

\* The directories from p upwards, p itself when it is one.
Upwards(p) == Ancestors(p) \cup (IF p \in DirPaths THEN {p} ELSE {})

\* Mutant: the outermost sentinel.
FarthestRoot(start) ==
    LET hits == Upwards(start) \cap SentinelDirs
    IN IF hits = {} THEN NoDir ELSE CHOOSE d \in hits : \A o \in hits : Len(d) <= Len(o)

\* The nearest directory at or above start that holds a sentinel.
find_sentinel_root(start) ==
    LET hits == Upwards(start) \cap SentinelDirs
    IN IF hits = {} THEN NoDir ELSE CHOOSE d \in hits : \A o \in hits : Len(o) <= Len(d)

Beginnings(p) == {SubSeq(p, 1, n) : n \in 1..Len(p)}

\* The longest beginning of all paths, a file when all are the same one; of a
\* single path its directory.
_shared_subpath(paths) ==
    LET common == {d \in Beginnings(paths[1]) : \A k \in DOMAIN paths : d \in Beginnings(paths[k])}
    IN IF Len(paths) = 1 /\ paths[1] \notin DirPaths THEN SubSeq(paths[1], 1, Len(paths[1]) - 1)
       ELSE IF common = {} THEN NoDir ELSE CHOOSE d \in common : \A o \in common : Len(o) <= Len(d)

OfRoot(paths, r) == Among(paths, {p \in Range(paths) : find_sentinel_root(p) = r})

\* Every root that is mentioned, with its mentions.
detect_scopes(paths) ==
    [r \in {find_sentinel_root(p) : p \in Range(paths)} \ {NoDir} |-> OfRoot(paths, r)]

\* Counter.most_common(1): of the roots with the most mentions, the first met.
MostCommon(paths) ==
    LET rooted == {k \in DOMAIN paths : find_sentinel_root(paths[k]) # NoDir}
        Votes(k) == Len(OfRoot(paths, find_sentinel_root(paths[k])))
        first == CHOOSE k \in rooted : \A j \in rooted :
                   Votes(j) < Votes(k) \/ (Votes(j) = Votes(k) /\ k <= j)
    IN find_sentinel_root(paths[first])

\* The explicit root, or the most common one, or a sentinel directory deeper
\* inside it that its mentions share.
detect_scope(explicit_root, paths) ==
    LET rooted == Among(paths, {p \in Range(paths) : find_sentinel_root(p) # NoDir})
        top == MostCommon(paths)
        shared == _shared_subpath(OfRoot(paths, top))
        sub == find_sentinel_root(shared)
        refined == /\ shared # NoDir /\ shared # top /\ top \in Ancestors(shared)
                   /\ sub # NoDir /\ sub # top /\ top \in Ancestors(sub)
    IN  IF explicit_root # NoDir THEN [root |-> explicit_root, mentioned |-> <<explicit_root>>]
        ELSE IF rooted = <<>> THEN [root |-> NoDir, mentioned |-> <<>>]
        ELSE [root |-> IF refined THEN sub ELSE top, mentioned |-> rooted]
=============================================================================
