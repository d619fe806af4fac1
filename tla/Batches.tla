------------------------------ MODULE Batches ------------------------------
(***************************************************************************)
(* The batches _coalesce_events is given: whatever happens to the files      *)
(* while the watcher collects, reported as the native watcher reports it.    *)
(***************************************************************************)
EXTENDS Coalesce

VARIABLES
    before,     \* the paths that existed, and were indexed, before the batch
    present,    \* the paths that exist now
    events      \* the batch

bvars == <<before, present, events>>

BatchInit ==
    /\ before \in SUBSET Paths
    /\ present = before
    /\ events = <<>>

Queue(e) == events' = Append(events, e) /\ UNCHANGED before

Create(p) == p \notin present /\ present' = present \cup {p} /\ Queue(Event("CREATE", p))

Modify(p) == p \in present /\ UNCHANGED present /\ Queue(Event("MODIFY", p))

Delete(p) == p \in present /\ present' = present \ {p} /\ Queue(Event("DELETE", p))

BatchNext == \E p \in Paths : Create(p) \/ Modify(p) \/ Delete(p)

BatchSpec == BatchInit /\ [][BatchNext]_bvars

Batch == _coalesce_events(events)

Updated == {Batch[i].path : i \in {j \in DOMAIN Batch : Batch[j].type # "DELETE"}}

Removed ==
    {Batch[i].path : i \in {j \in DOMAIN Batch : Batch[j].type = "DELETE"}}
    \cup {Batch[i].old : i \in {j \in DOMAIN Batch : Batch[j].type = "RENAME"}}

(* Whatever the batch, each path in it is dealt with exactly once by         *)
(* _coalesce_events: updated if the file is there at the end, removed if     *)
(* not.  CREATE, and with it the target of a RENAME, is left only for a file *)
(* that was not there before the batch: an atomic save never renames another *)
(* file's record over one that exists.                                       *)
BatchesAreFaithful ==
    /\ Updated = PathsIn(events) \cap present
    /\ Removed = PathsIn(events) \ present
    /\ \A i, j \in DOMAIN Batch : i # j => Batch[i].path # Batch[j].path
    /\ \A i \in DOMAIN Batch : Batch[i].type \in {"CREATE", "RENAME"} => Batch[i].path \notin before
=============================================================================
