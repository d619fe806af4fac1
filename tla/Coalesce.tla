------------------------------ MODULE Coalesce ------------------------------
(***************************************************************************)
(* Watcher._coalesce_events (longctx_daemon/watcher.py): a batch of queued  *)
(* events is folded into at most one event per path before it is handed to  *)
(* the indexer.  Events are records; `old` is NoPath except for a RENAME.   *)
(***************************************************************************)
EXTENDS Integers, Sequences, FiniteSets

CONSTANTS Paths, NoPath

Event(t, p) == [type |-> t, path |-> p, old |-> NoPath]

PathsIn(events) == {events[i].path : i \in DOMAIN events}

(* first_index, 0 standing for "no such event". *)
FirstIndex(events, p, t) ==
    LET at == {i \in DOMAIN events : events[i].path = p /\ events[i].type = t}
    IN IF at = {} THEN 0 ELSE CHOOSE i \in at : \A j \in at : i <= j

(* Phase 1: the last event of a path wins. *)
LastEvent(events, p) ==
    LET at == {i \in DOMAIN events : events[i].path = p}
    IN events[CHOOSE i \in at : \A j \in at : j <= i]

(* Mutant: phase 2 left out. *)
PerPathPhase1(events, p) == LastEvent(events, p)

(* Phase 2: DELETE, then CREATE, of one path is a MODIFY (an atomic save). *)
PerPath(events, p) ==
    LET surviving == LastEvent(events, p)
        del == FirstIndex(events, p, "DELETE")
        cre == FirstIndex(events, p, "CREATE")
    IN IF surviving.type = "CREATE" /\ del # 0 /\ del < cre
       THEN Event("MODIFY", p)
       ELSE surviving

Surviving(events, t) == {p \in PathsIn(events) : PerPath(events, p).type = t}

(* Phase 3: exactly one DELETE and one CREATE make a RENAME, whatever their *)
(* order and whatever the two files hold.                                   *)
IsRename(events) ==
    /\ Cardinality(Surviving(events, "DELETE")) = 1
    /\ Cardinality(Surviving(events, "CREATE")) = 1

Coalesced(events, p) ==
    IF IsRename(events) /\ p \in Surviving(events, "CREATE")
    THEN [type |-> "RENAME", path |-> p,
          old |-> CHOOSE q \in Surviving(events, "DELETE") : TRUE]
    ELSE PerPath(events, p)

(* The paths in the order of their first event; a renamed one has no event. *)
FirstEvents(events) ==
    {i \in DOMAIN events :
       /\ \A j \in 1 .. i - 1 : events[j].path # events[i].path
       /\ ~(IsRename(events) /\ events[i].path \in Surviving(events, "DELETE"))}

_coalesce_events(events) ==
    LET first == FirstEvents(events)
        nth(k) == CHOOSE i \in first : Cardinality({j \in first : j <= i}) = k
    IN [k \in 1 .. Cardinality(first) |-> Coalesced(events, events[nth(k)].path)]
=============================================================================
