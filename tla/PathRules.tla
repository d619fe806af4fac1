----------------------------- MODULE PathRules -----------------------------
(***************************************************************************)
(* Which files and directories the system takes in: the walks of            *)
(* longctx_svc/scope/walk.py that list a scope's files, and the roots that  *)
(* longctx_daemon/auto_learn.py learns from an agent's directory.           *)
(*                                                                          *)
(* A directory is the sequence of names from the file system's root.  A     *)
(* tree t has t.dirs (in the order they are listed), the files of each      *)
(* directory in the order they are listed, and what the rules look at:      *)
(* t.skip, directories that are never entered (ALWAYS_SKIP_DIRS, dotted     *)
(* ones, symbolic links); t.bad, files never taken (lock files, binaries,   *)
(* too large, empty); t.ignores[d], the files that the .gitignore of d      *)
(* matches.                                                                 *)
(***************************************************************************)
EXTENDS Integers, Sequences, FiniteSets, SequencesExt, Ordering

Under(d, root) == IsPrefix(root, d)
Inside(d, root) == Under(d, root) /\ d # root

-----------------------------------------------------------------------------
(* walk.py *)

(* _file_excluded, for a walk that began at `root`: the .gitignore files     *)
(* from there down to the file's directory count.                            *)
_file_excluded(t, root, d, f) ==
    \/ f \in t.bad
    \/ \E g \in DOMAIN t.files : Under(g, root) /\ Under(d, g) /\ f \in t.ignores[g]

Children(t, d) == Among(t.dirs, {e \in Range(t.dirs) : Len(e) = Len(d) + 1 /\ Under(e, d)} \ t.skip)

(* The files of one directory that are taken. *)
FilesOf(t, root, d) == Among(t.files[d], {f \in Range(t.files[d]) : ~_file_excluded(t, root, d, f)})

(* The stack of _walk_dir: a directory's files first, then its               *)
(* subdirectories, the last listed one first.                                *)
Visited(t, root) ==
    LET visit[d \in DOMAIN t.files] ==
          FoldLeft(LAMBDA acc, e : acc \o visit[e], FilesOf(t, root, d), Reverse(Children(t, d)))
    IN visit[root]

_walk_dir(t, root, max_files, recursive) ==
    LET all == IF recursive THEN Visited(t, root) ELSE FilesOf(t, root, root)
    IN IF max_files <= 0 THEN <<>>
       ELSE SubSeq(all, 1, IF Len(all) <= max_files THEN Len(all) ELSE max_files)

(* add: what was seen is not listed again. *)
Add(out, fs) == FoldLeft(LAMBDA acc, f : IF f \in Range(acc) THEN acc ELSE Append(acc, f), out, fs)

(* Steps 1 to 4 of walk_hot_scope.  A mention is a directory, or a file in   *)
(* one; only step 1 asks whether it is inside the root.                      *)
AddMention(t, root, cap, out, mp) ==
    IF ~Under(mp.dir, root) THEN out
    ELSE IF mp.isFile THEN Add(out, <<mp.file>>)
    ELSE Add(out, _walk_dir(t, mp.dir, cap - Len(out), FALSE))

AddSiblings(t, cap, out, mp) ==
    IF mp.isFile THEN Add(out, _walk_dir(t, mp.dir, cap - Len(out), FALSE)) ELSE out

AddSource(t, root, cap, out) ==
    LET src == Append(root, "src")
    IN IF src \in DOMAIN t.files THEN Add(out, _walk_dir(t, src, cap - Len(out), TRUE)) ELSE out

(* t.small is the 50 below which the root's own files are added. *)
AddRoot(t, root, cap, out) ==
    IF Len(out) < t.small THEN Add(out, _walk_dir(t, root, cap - Len(out), FALSE)) ELSE out

walk_hot_scope(t, root, mentioned, cap) ==
    LET step1 == FoldLeft(LAMBDA out, mp : AddMention(t, root, cap, out, mp), <<>>, mentioned)
        step2 == FoldLeft(LAMBDA out, mp : AddSiblings(t, cap, out, mp), step1, mentioned)
    IN AddRoot(t, root, cap, AddSource(t, root, cap, step2))

walk_package_scope(t, root, cap) == _walk_dir(t, root, cap, TRUE)

-----------------------------------------------------------------------------
(* auto_learn.py: rules r has r.exact and r.parents, the forbidden places,   *)
(* r.exists, the directories there are, and r.git, those with a .git entry.  *)

NoRoot == <<"none">>

is_forbidden_parent(r, d) == d \in r.exact \/ \E p \in r.parents : Under(d, p)

(* _walk_for_git_root: the deepest directory at or above with a .git. *)
_walk_for_git_root(r, d) ==
    LET above == {g \in r.git : Under(d, g)}
    IN IF above = {} THEN NoRoot ELSE CHOOSE g \in above : \A k \in above : Len(k) <= Len(g)

(* Mutant: the root found by walking up is not checked again. *)
ResolveTrustsGit(r, cwd) ==
    LET git == _walk_for_git_root(r, cwd)
    IN IF cwd \notin r.exists \/ is_forbidden_parent(r, cwd) THEN NoRoot
       ELSE IF git # NoRoot THEN git ELSE cwd

(* A file stands for its directory. *)
resolve_repo_root(r, cwd) ==
    LET git == _walk_for_git_root(r, cwd)
    IN IF cwd \notin r.exists \/ is_forbidden_parent(r, cwd) THEN NoRoot
       ELSE IF git = NoRoot THEN cwd
       ELSE IF is_forbidden_parent(r, git) THEN NoRoot ELSE git

(* project_name_from_root: generic names take their parent's in front. *)
project_name_from_root(r, root) ==
    IF Last(root) \in r.generic /\ Len(root) > 1
    THEN <<root[Len(root) - 1], Last(root)>> ELSE <<Last(root)>>
=============================================================================
