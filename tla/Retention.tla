----------------------------- MODULE Retention -----------------------------
(***************************************************************************)
(* What is thrown away to stay within a disk budget, and what `longctx      *)
(* clean` proposes and removes: longctx_daemon/disk_budget.py and           *)
(* clean.py.  A project is a record of name, bytes, scanned (last full      *)
(* scan), session (bound to one) and missing (its root is gone); queried    *)
(* has the last query of the projects the watcher knows.                    *)
(***************************************************************************)
EXTENDS Integers, Sequences, FiniteSets, SequencesExt, Ordering

(* _project_footprint: the last query, else the last full scan. *)
LastUse(b, p) == IF b.queried[p.name] > 0 THEN b.queried[p.name] ELSE p.scanned

(* LRU first; the smaller of two equally old ones first. *)
Sooner(b, p, q) ==
    \/ LastUse(b, p) < LastUse(b, q)
    \/ LastUse(b, p) = LastUse(b, q) /\ p.bytes < q.bytes
    \/ LastUse(b, p) = LastUse(b, q) /\ p.bytes = q.bytes /\ p.name < q.name

ByUse(b, ps) == Sorted(ps, {e \in Pairs(ps) : Sooner(b, e[1], e[2])})

(* Mutant: every candidate is taken once the budget is exceeded. *)
PlanAll(b, acc, p) ==
    IF p.bytes = 0 THEN acc ELSE [targets |-> Append(acc.targets, p), freed |-> acc.freed + p.bytes]

PlanNext(b, acc, p) ==
    IF acc.freed >= b.size - b.budget \/ p.bytes = 0 THEN acc
    ELSE [targets |-> Append(acc.targets, p), freed |-> acc.freed + p.bytes]

(* b.size is what cache_size_bytes measures; a budget of 0 is none. *)
plan_eviction(b) ==
    IF b.budget = 0 \/ b.size <= b.budget THEN <<>>
    ELSE FoldLeft(LAMBDA acc, p : PlanNext(b, acc, p), [targets |-> <<>>, freed |-> 0],
                  ByUse(b, {p \in b.projects : p.name \notin b.pinned})).targets

(* execute_eviction: a project that fails to go does not stop the rest. *)
execute_eviction(b, fails) ==
    {p \in b.projects : p \notin Range(plan_eviction(b)) \/ p.name \in fails}

(* The collectors; a project that was never scanned is not idle. *)
Idle(b, max_age) == {p \in b.projects : p.scanned > 0 /\ b.now - p.scanned > max_age}
Orphans(b) == {p \in b.projects : p.session}
Missing(b) == {p \in b.projects : p.missing}

(* collect_disk_budget knows neither pins nor queries. *)
OverBudget(b) ==
    Range(plan_eviction([b EXCEPT !.pinned = {}, !.queried = [n \in DOMAIN b.queried |-> 0]]))

(* --replay-older-than collects log shards, which no project is. *)
Filters(args) == args.idle \/ args.orphans \/ args.missing \/ args.replay

(* The decisions of cmd_clean for its flags. *)
Proposed(b, args) ==
    LET every == args.all /\ ~Filters(args)
    IN (IF args.idle \/ every THEN Idle(b, b.max_age) ELSE {})
       \cup (IF args.orphans \/ every THEN Orphans(b) ELSE {})
       \cup (IF args.missing \/ every THEN Missing(b) ELSE {})
       \cup (IF args.budget THEN OverBudget(b) ELSE {})

(* What cmd_clean leaves: without a filter, or without --yes, everything. *)
Cleaned(b, args) ==
    IF (Filters(args) \/ args.all) /\ args.yes THEN b.projects \ Proposed(b, args) ELSE b.projects
=============================================================================
