---------------------------- MODULE PackRegistry ----------------------------
(***************************************************************************)
(* PackRegistry of longctx_daemon/packs.py: the index packs a user has      *)
(* registered, by name, and the scan that finds them on disk.  A directory  *)
(* on disk is [path, base, corpus, under, valid, chunks]: corpus is the     *)
(* name <corpus>-<lang> its place gives it, or ""; under, whether the walk  *)
(* of the scanned root comes upon it as a candidate; valid, whether a       *)
(* snapshot of it can be taken.                                             *)
(***************************************************************************)
EXTENDS Integers, Sequences, FiniteSets, SequencesExt, Ordering

CONSTANTS
    AutoDedup,     \* the names that begin with one of _AUTO_DEDUP_PREFIXES
    Unnameable     \* the names that register's pattern refuses

NoPacks == [n \in {} |-> n]

(* The name given, else the one its place gives, else the directory's. *)
ResolvedName(dir, name) ==
    IF name # "" THEN name ELSE IF dir.corpus # "" THEN dir.corpus ELSE dir.base

Accepted(dir, name) == dir.valid /\ ResolvedName(dir, name) \notin Unnameable

(* register: a snapshot under the name; an entry of that name is replaced,   *)
(* and keeps only its times.  dedup_by_doc_root is "auto" when not given.    *)
register(packs, dir, name, dedup_by_doc_root) ==
    LET key == ResolvedName(dir, name)
        entry == [path |-> dir.path, chunks |-> dir.chunks,
                  dedup |-> IF dedup_by_doc_root = "auto" THEN key \in AutoDedup
                            ELSE dedup_by_doc_root = "yes",
                  used |-> IF key \in DOMAIN packs THEN packs[key].used ELSE 0]
    IN IF ~Accepted(dir, name) THEN packs
       ELSE [n \in DOMAIN packs \cup {key} |-> IF n = key THEN entry ELSE packs[n]]

unregister(packs, name) == [n \in DOMAIN packs \ {name} |-> packs[n]]

(* refresh registers the path again under its own name and choice. *)
refresh(packs, disk, name) ==
    LET at == Among(disk, {d \in Range(disk) : name \in DOMAIN packs /\ d.path = packs[name].path})
    IN IF at = <<>> THEN packs ELSE register(packs, at[1], name, IF packs[name].dedup THEN "yes" ELSE "no")

mark_used(packs, name, now) ==
    IF name \in DOMAIN packs THEN [packs EXCEPT ![name].used = now] ELSE packs

(* prune_missing: entries whose path is gone, wherever it was. *)
Prune(packs, disk) ==
    LET paths == {disk[i].path : i \in DOMAIN disk}
    IN [n \in {k \in DOMAIN packs : packs[k].path \in paths} |-> packs[n]]

(* scan: every candidate of the walk is registered under its own name, with  *)
(* the automatic choice; without the root nothing is found, and nothing      *)
(* pruned.                                                                   *)
scan(packs, disk, root, prune_missing) ==
    LET found == FoldLeft(LAMBDA acc, d : IF d.under THEN register(acc, d, "", "auto") ELSE acc,
                          packs, disk)
    IN IF ~root THEN packs ELSE IF prune_missing THEN Prune(found, disk) ELSE found
=============================================================================
