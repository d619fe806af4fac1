------------------------------- MODULE Watcher -------------------------------
(***************************************************************************)
(* longctx_daemon/watcher.py: how a change on disk reaches the index.       *)
(* The watchfiles task of a project feeds a bounded queue; one asyncio      *)
(* worker drains it after a debounce; an mtime walk (periodic sweep, resume *)
(* of a paused project, or a storm's rescan) queues what the watch missed;  *)
(* searches wait for the queue to be empty.  Enqueueing happens on several  *)
(* threads under one lock; waiters are woken by a notify task that runs     *)
(* some time after it was scheduled.                                        *)
(*                                                                          *)
(* One project.  The index keeps, per path, the content and the mtime of    *)
(* the file record; how the indexer gets there is the subject of Indexer.   *)
(***************************************************************************)
EXTENDS Coalesce

CONSTANTS
    Contents,       \* file contents
    Gone,           \* no file, or no record
    QueueSize,      \* queue_size
    Ops,            \* what happens to files: subset of {"write", "delete", "move"}
    Ticks,          \* seconds between two changes: {1}, or {0, 1} for bursts
    CanLose,        \* the native watcher may fail and be restarted
    CanPause,       \* the project may be paused as cold, and resumed by a query
    CanSuspend,     \* SIGUSR2 may stop the worker
    CanReadd,       \* add_project may be called again
    CanSearch,      \* searches wait for quiescence
    SlowSweep,      \* a sweep starts when the worker is idle (30 s versus 200 ms)
    MaxEdits        \* bound: changes on disk

ASSUME QueueSizeAssumption == QueueSize \in Nat
ASSUME MaxEditsAssumption == MaxEdits \in Nat
ASSUME TicksAssumption == Ticks \subseteq {0, 1}
ASSUME WatcherGoneAssumption == Gone \notin [content : Contents, mtime : Nat]

VARIABLES
    disk,       \* path |-> [content, mtime] or Gone
    clock,      \* the second of the last change
    edits,      \* changes so far
    index,      \* path |-> [content, mtime] or Gone: the file records
    os,         \* raw changes watchfiles has not delivered yet: a set
    watching,   \* the project's watch task is inside awatch
    queue,      \* state.queue
    ripe,       \* the debounce window of queue[0] is over
    rescan,     \* state.rescan_pending
    paused,     \* state.paused
    suspended,  \* the module's _PAUSED flag
    note,       \* a _notify task is scheduled
    worker,     \* _worker_loop and the batch it is applying
    walks,      \* the mtime walks under way
    searcher    \* one caller of wait_for_quiescence

fs == <<disk, clock, edits>>
intake == <<queue, ripe, rescan, note>>
flags == <<watching, paused, suspended>>
vars == <<fs, index, os, intake, flags, worker, walks, searcher>>

Types == {"CREATE", "MODIFY", "DELETE"}

Walkers == {"worker", "sweep", "resume"}

NoWalk == [on |-> FALSE, recorded |-> [p \in Paths |-> Gone], todo |-> {}, seen |-> {}]

AtCheck == [pc |-> "check", batch |-> <<>>, read |-> Gone]

(* Every file has been scanned when the watcher is started. *)
Init ==
    /\ clock = 0
    /\ edits = 0
    /\ disk \in [Paths -> {Gone} \cup [content : Contents, mtime : {0}]]
    /\ index = disk
    /\ os = {}
    /\ watching = TRUE
    /\ queue = <<>> /\ ripe = FALSE /\ rescan = FALSE /\ note = FALSE
    /\ paused = FALSE /\ suspended = FALSE
    /\ worker = AtCheck
    /\ walks = [k \in Walkers |-> NoWalk]
    /\ searcher = "idle"

-----------------------------------------------------------------------------
(* The file system and the native watcher (watchfiles) *)

Change(changes, tick) ==
    /\ edits < MaxEdits
    /\ edits' = edits + 1
    /\ clock' = clock + tick
    /\ os' = IF watching THEN os \cup changes ELSE os
    /\ UNCHANGED <<index, intake, flags, worker, walks, searcher>>

Write(p, c, tick) ==
    /\ "write" \in Ops
    /\ disk' = [disk EXCEPT ![p] = [content |-> c, mtime |-> clock + tick]]
    /\ Change({Event(IF disk[p] = Gone THEN "CREATE" ELSE "MODIFY", p)}, tick)

Delete(p, tick) ==
    /\ "delete" \in Ops
    /\ disk[p] # Gone
    /\ disk' = [disk EXCEPT ![p] = Gone]
    /\ Change({Event("DELETE", p)}, tick)

(* A move keeps the mtime of the file. *)
Move(p, q, tick) ==
    /\ "move" \in Ops
    /\ p # q /\ disk[p] # Gone
    /\ disk' = [disk EXCEPT ![p] = Gone, ![q] = disk[p]]
    /\ Change({Event("DELETE", p), Event("CREATE", q)}, tick)

(* awatch raises: what it had not delivered is lost, and so is what happens *)
(* until it is entered again.                                               *)
WatchFails ==
    /\ CanLose
    /\ watching
    /\ watching' = FALSE
    /\ os' = {}
    /\ UNCHANGED <<fs, index, intake, paused, suspended, worker, walks, searcher>>

(* _watch_one_project enters it again after a backoff, except after a       *)
(* FileNotFoundError, which ends the task: then this never happens, until   *)
(* the project is resumed or added again.                                   *)
WatchRestarts ==
    /\ ~watching /\ ~paused /\ ~walks["resume"].on
    /\ watching' = TRUE
    /\ UNCHANGED <<fs, index, os, intake, paused, suspended, worker, walks, searcher>>

-----------------------------------------------------------------------------
(* Intake *)

(* While a rescan is pending events are dropped; the event that takes the   *)
(* queue over its size clears it and asks for a rescan.                     *)
_enqueue_event(e) ==
    IF rescan THEN UNCHANGED intake
    ELSE /\ note' = TRUE
         /\ IF Len(queue) + 1 > QueueSize
            THEN queue' = <<>> /\ ripe' = FALSE /\ rescan' = TRUE
            ELSE queue' = Append(queue, e) /\ UNCHANGED <<ripe, rescan>>

(* _watch_one_project: the changes of a batch come as a set, in no order. *)
_watch_one_project(e) ==
    /\ watching /\ e \in os
    /\ os' = os \ {e}
    /\ _enqueue_event(e)
    /\ UNCHANGED <<fs, index, flags, worker, walks, searcher>>

(* The debounce window of the oldest queued event ends. *)
Ripen ==
    /\ queue # <<>> /\ ~ripe
    /\ ripe' = TRUE
    /\ UNCHANGED <<fs, index, os, queue, rescan, note, flags, worker, walks, searcher>>

(* The notify task runs: every waiter on the condition is woken.  A worker  *)
(* in its timed wait goes on to drain, an idle one to look again.           *)
_notify_cond ==
    /\ note
    /\ note' = FALSE
    /\ worker' = CASE worker.pc = "waiting" -> [worker EXCEPT !.pc = "check"]
                   [] worker.pc = "timed" -> [worker EXCEPT !.pc = "drain"]
                   [] OTHER -> worker
    /\ searcher' = IF searcher = "blocked" THEN "looking" ELSE searcher
    /\ UNCHANGED <<fs, index, os, queue, ripe, rescan, flags, walks>>

-----------------------------------------------------------------------------
(* The worker *)

(* Mutant: the deadlines ignore rescan_pending. *)
LoopIgnoresRescan ==
    /\ worker.pc = "check" /\ ~suspended
    /\ worker' = [worker EXCEPT !.pc =
                    CASE queue = <<>> -> "waiting"
                      [] queue # <<>> /\ ~ripe -> "timed"
                      [] OTHER -> "drain"]
    /\ UNCHANGED <<fs, index, os, intake, flags, walks, searcher>>

(* Deadlines are computed and, if there is none, the idle wait begins; the  *)
(* condition's lock is fair, so a notify scheduled after the look comes     *)
(* after the wait has begun.                                                *)
_worker_loop ==
    /\ worker.pc = "check" /\ ~suspended
    /\ worker' = [worker EXCEPT !.pc =
                    CASE queue = <<>> /\ ~rescan -> "waiting"
                      [] queue # <<>> /\ ~ripe -> "timed"
                      [] OTHER -> "drain"]
    /\ UNCHANGED <<fs, index, os, intake, flags, walks, searcher>>

WaitTimeout ==
    /\ worker.pc = "timed"
    /\ ripe \/ queue = <<>>
    /\ worker' = [worker EXCEPT !.pc = "drain"]
    /\ UNCHANGED <<fs, index, os, intake, flags, walks, searcher>>

(* list_files: what is recorded, as mtimes, and the directory walk begins. *)
StartWalk(k) ==
    walks' = [walks EXCEPT ![k] =
        [on |-> TRUE, todo |-> Paths, seen |-> {},
         recorded |-> [p \in Paths |-> IF index[p] = Gone THEN Gone ELSE index[p].mtime]]]

Due == queue # <<>> /\ ripe

(* _drain_now takes the queue and the rescan flag, before anything is       *)
(* applied.  A rescan takes precedence over the events.                     *)
_drain_now ==
    /\ worker.pc = "drain"
    /\ queue' = IF Due THEN <<>> ELSE queue
    /\ ripe' = FALSE
    /\ rescan' = FALSE
    /\ worker' = CASE rescan -> [worker EXCEPT !.pc = "walk"]
                   [] ~rescan /\ Due ->
                        [worker EXCEPT !.pc = "apply", !.batch = _coalesce_events(queue)]
                   [] OTHER -> AtCheck
    /\ IF rescan THEN StartWalk("worker") ELSE UNCHANGED walks
    /\ UNCHANGED <<fs, index, os, note, flags, searcher>>

(* _drain_now returns: one more notify, and back to the loop. *)
DrainEnd ==
    /\ \/ worker.pc = "walk" /\ ~walks["worker"].on
       \/ worker.pc = "apply" /\ worker.batch = <<>>
    /\ worker' = AtCheck
    /\ note' = TRUE
    /\ UNCHANGED <<fs, index, os, queue, ripe, rescan, flags, walks, searcher>>

-----------------------------------------------------------------------------
(* _apply_events: updates go first, as one update_files; then the deletes   *)
(* and renames, in order.                                                   *)

IsUpdate(e) == e.type \in {"CREATE", "MODIFY"}

(* The position of the event to apply next. *)
NextEvent ==
    LET updates == {i \in DOMAIN worker.batch : IsUpdate(worker.batch[i])}
        from == IF updates = {} THEN DOMAIN worker.batch ELSE updates
    IN CHOOSE i \in from : \A j \in from : i <= j

Applying(t) == worker.pc = "apply" /\ worker.batch # <<>> /\ worker.batch[NextEvent].type \in t

BatchRest ==
    LET i == NextEvent
    IN SubSeq(worker.batch, 1, i - 1) \o SubSeq(worker.batch, i + 1, Len(worker.batch))

EventDone == worker' = [worker EXCEPT !.pc = "apply", !.batch = BatchRest, !.read = Gone]

(* Mutant: an unchanged mtime, not an unchanged hash, makes it a no-op. *)
UpdateTrustsMtime ==
    /\ Applying({"CREATE", "MODIFY"})
    /\ LET p == worker.batch[NextEvent].path IN
         IF disk[p] = Gone \/ (index[p] # Gone /\ index[p].mtime = disk[p].mtime)
         THEN EventDone
         ELSE worker' = [worker EXCEPT !.pc = "stat", !.read = disk[p].content]
    /\ UNCHANGED <<fs, index, os, intake, flags, walks, searcher>>

(* update_file, the read.  A file that is gone, or whose content the record *)
(* has already, is left as it is: the recorded mtime too.                   *)
ApplyUpdateRead ==
    /\ Applying({"CREATE", "MODIFY"})
    /\ LET p == worker.batch[NextEvent].path IN
         IF disk[p] = Gone \/ (index[p] # Gone /\ index[p].content = disk[p].content)
         THEN EventDone
         ELSE worker' = [worker EXCEPT !.pc = "stat", !.read = disk[p].content]
    /\ UNCHANGED <<fs, index, os, intake, flags, walks, searcher>>

(* The stat that follows the read, and upsert_file. *)
ApplyUpdateStat ==
    /\ worker.pc = "stat"
    /\ LET p == worker.batch[NextEvent].path IN
         index' = IF disk[p] = Gone THEN index
                  ELSE [index EXCEPT ![p] = [content |-> worker.read,
                                             mtime |-> disk[p].mtime]]
    /\ EventDone
    /\ UNCHANGED <<fs, os, intake, flags, walks, searcher>>

(* The record is dropped, whether or not the file is there again. *)
ApplyDelete ==
    /\ Applying({"DELETE"})
    /\ index' = [index EXCEPT ![worker.batch[NextEvent].path] = Gone]
    /\ EventDone
    /\ UNCHANGED <<fs, os, intake, flags, walks, searcher>>

(* rename_file: nothing if the old path has no record; the record is        *)
(* dropped if the new file is not there; it moves, with its content and the *)
(* new file's mtime, if the new path is free; else delete and reindex.      *)
ApplyRename ==
    /\ Applying({"RENAME"})
    /\ LET e == worker.batch[NextEvent]
           dropped == [index EXCEPT ![e.old] = Gone]
       IN CASE index[e.old] = Gone -> EventDone /\ UNCHANGED index
            [] index[e.old] # Gone /\ disk[e.path] = Gone -> EventDone /\ index' = dropped
            [] index[e.old] # Gone /\ disk[e.path] # Gone /\ index[e.path] = Gone ->
                 /\ index' = [dropped EXCEPT ![e.path] =
                                [content |-> index[e.old].content, mtime |-> disk[e.path].mtime]]
                 /\ EventDone
            [] OTHER ->
                 /\ index' = dropped
                 /\ worker' = [worker EXCEPT !.batch[NextEvent] = Event("MODIFY", e.path)]
    /\ UNCHANGED <<fs, os, intake, flags, walks, searcher>>

-----------------------------------------------------------------------------
(* _mtime_walk_project *)

(* Mutant: files without a record are passed over. *)
WalkSkipsUntracked(k, p) ==
    /\ walks[k].on /\ p \in walks[k].todo
    /\ LET rec == walks[k].recorded[p] IN
         IF disk[p] # Gone /\ rec # Gone /\ disk[p].mtime > rec
         THEN _enqueue_event(Event("MODIFY", p))
         ELSE UNCHANGED intake
    /\ walks' = [walks EXCEPT ![k].todo = @ \ {p},
                              ![k].seen = IF disk[p] = Gone THEN @ ELSE @ \cup {p}]
    /\ UNCHANGED <<fs, index, os, flags, worker, searcher>>

(* One file of the walk: new, or with an mtime beyond the recorded one. *)
WalkFile(k, p) ==
    /\ walks[k].on /\ p \in walks[k].todo
    /\ LET rec == walks[k].recorded[p] IN
         IF disk[p] # Gone /\ (rec = Gone \/ disk[p].mtime > rec)
         THEN _enqueue_event(Event(IF rec = Gone THEN "CREATE" ELSE "MODIFY", p))
         ELSE UNCHANGED intake
    /\ walks' = [walks EXCEPT ![k].todo = @ \ {p},
                              ![k].seen = IF disk[p] = Gone THEN @ ELSE @ \cup {p}]
    /\ UNCHANGED <<fs, index, os, flags, worker, searcher>>

Unseen(w) == {p \in Paths : w.recorded[p] # Gone} \ w.seen

(* After the walk: a DELETE for each record whose file was not seen. *)
WalkDelete(k, p) ==
    /\ walks[k].on /\ walks[k].todo = {} /\ p \in Unseen(walks[k])
    /\ _enqueue_event(Event("DELETE", p))
    /\ walks' = [walks EXCEPT ![k].seen = @ \cup {p}]
    /\ UNCHANGED <<fs, index, os, flags, worker, searcher>>

(* The resume task goes on to watch again, unless paused meanwhile. *)
WalkEnd(k) ==
    /\ walks[k].on /\ walks[k].todo = {} /\ Unseen(walks[k]) = {}
    /\ walks' = [walks EXCEPT ![k] = NoWalk]
    /\ watching' = IF k = "resume" THEN ~paused ELSE watching
    /\ UNCHANGED <<fs, index, os, intake, paused, suspended, worker, searcher>>

(* _sweep_loop: the periodic walk passes over a paused project. *)
_mtime_sweep_once ==
    /\ ~walks["sweep"].on
    /\ ~paused
    /\ SlowSweep => worker.pc = "waiting" /\ queue = <<>> /\ ~rescan
    /\ StartWalk("sweep")
    /\ UNCHANGED <<fs, index, os, intake, flags, worker, searcher>>

-----------------------------------------------------------------------------
(* Registry, tier 2 pause, and the SIGUSR2 flag *)

(* _cleanup_tick on a project not queried for long, if its queue is empty. *)
pause_project ==
    /\ CanPause
    /\ ~paused /\ queue = <<>>
    /\ paused' = TRUE
    /\ watching' = FALSE
    /\ os' = {}
    /\ UNCHANGED <<fs, index, intake, suspended, worker, walks, searcher>>

(* note_query on a paused project: resume_project, whose catch-up walk runs *)
(* before the watch is entered again.  Bound: one such walk at a time.      *)
resume_project ==
    /\ paused /\ ~walks["resume"].on
    /\ paused' = FALSE
    /\ StartWalk("resume")
    /\ UNCHANGED <<fs, index, os, intake, watching, suspended, worker, searcher>>

(* add_project on a known name: flags are reset, the watch spawned. *)
add_project ==
    /\ CanReadd
    /\ paused' = FALSE
    /\ rescan' = FALSE
    /\ watching' = TRUE
    /\ UNCHANGED <<fs, index, os, queue, ripe, note, suspended, worker, walks, searcher>>

set_paused ==
    /\ CanSuspend
    /\ suspended' = ~suspended
    /\ UNCHANGED <<fs, index, os, intake, watching, paused, worker, walks, searcher>>

-----------------------------------------------------------------------------
(* wait_for_quiescence: pending_updates is the length of the queue. *)

pending_updates == Len(queue)

wait_for_quiescence ==
    /\ CanSearch
    /\ searcher = "idle"
    /\ searcher' = "looking"
    /\ UNCHANGED <<fs, index, os, intake, flags, worker, walks>>

QuiescenceReturn ==
    /\ searcher = "looking" /\ pending_updates = 0
    /\ searcher' = "idle"
    /\ UNCHANGED <<fs, index, os, intake, flags, worker, walks>>

QuiescenceBlock ==
    /\ searcher = "looking" /\ pending_updates # 0
    /\ searcher' = "blocked"
    /\ UNCHANGED <<fs, index, os, intake, flags, worker, walks>>

QuiescenceTimeout ==
    /\ searcher = "blocked"
    /\ searcher' = "idle"
    /\ UNCHANGED <<fs, index, os, intake, flags, worker, walks>>

-----------------------------------------------------------------------------
FileSystem ==
    \E tick \in Ticks :
        \/ \E p \in Paths, c \in Contents : Write(p, c, tick)
        \/ \E p \in Paths : Delete(p, tick)
        \/ \E p, q \in Paths : Move(p, q, tick)

Deliver == \E p \in Paths, t \in Types : _watch_one_project(Event(t, p))

WorkerStep ==
    \/ _worker_loop \/ WaitTimeout \/ _drain_now \/ DrainEnd
    \/ ApplyUpdateRead \/ ApplyUpdateStat \/ ApplyDelete \/ ApplyRename

WalkStep(k) ==
    \/ \E p \in Paths : WalkFile(k, p)
    \/ \E p \in Paths : WalkDelete(k, p)
    \/ WalkEnd(k)

SearchStep == QuiescenceReturn \/ QuiescenceBlock

Next ==
    \/ FileSystem
    \/ WatchFails \/ WatchRestarts \/ Deliver
    \/ Ripen \/ _notify_cond
    \/ WorkerStep
    \/ \E k \in Walkers : WalkStep(k)
    \/ _mtime_sweep_once
    \/ pause_project \/ resume_project \/ add_project \/ set_paused
    \/ wait_for_quiescence \/ SearchStep \/ QuiescenceTimeout

Spec == Init /\ [][Next]_vars

(***************************************************************************)
(* Time passes, the event loop runs what is scheduled on it, threads make   *)
(* progress and the sweep comes round.  Nobody promises that files change,  *)
(* that a watch that failed comes back, that a paused project is queried,   *)
(* or that SIGUSR2 is sent again.                                           *)
(***************************************************************************)
Fairness ==
    /\ WF_vars(Deliver)
    /\ WF_vars(Ripen) /\ WF_vars(_notify_cond)
    /\ WF_vars(WorkerStep)
    /\ \A k \in Walkers : WF_vars(WalkStep(k))
    /\ WF_vars(_mtime_sweep_once)
    /\ WF_vars(SearchStep)

FairSpec == Spec /\ Fairness

-----------------------------------------------------------------------------
(* Properties *)

Records == {Gone} \cup [content : Contents, mtime : Nat]

(* Every variable has the type the code gives it. *)
TypeOK ==
    /\ disk \in [Paths -> Records] /\ index \in [Paths -> Records]
    /\ clock \in Nat /\ edits \in 0 .. MaxEdits
    /\ \A e \in os : e.type \in Types /\ e.path \in Paths
    /\ \A i \in DOMAIN queue : queue[i].type \in Types /\ queue[i].path \in Paths
    /\ {watching, ripe, rescan, paused, suspended, note} \subseteq BOOLEAN
    /\ worker.pc \in {"check", "waiting", "timed", "drain", "walk", "apply", "stat"}
    /\ \A k \in Walkers : walks[k].todo \subseteq Paths /\ walks[k].seen \subseteq Paths
    /\ searcher \in {"idle", "looking", "blocked"}

(* The storm guard bounds the queue, and a project in rescan-pending mode    *)
(* has no queued events: the drain that ignores them ignores nothing.        *)
StormGuard == Len(queue) <= QueueSize /\ (rescan => queue = <<>>)

(* No lost wakeup: an idle worker with something to do, on whatever thread   *)
(* it was queued, is about to be notified.                                   *)
NoLostWakeup == worker.pc = "waiting" /\ (queue # <<>> \/ rescan) => note

Busy == worker.pc \in {"walk", "apply", "stat"}

(* A search blocked on a queue that is empty by now is about to be notified, *)
(* or will be when the batch under way is applied: it never sits out its     *)
(* timeout for a notification that came too early.                           *)
BlockedSearchWakes == searcher = "blocked" /\ queue = <<>> => note \/ Busy

WorkerShape == worker = [pc |-> worker.pc, batch |-> worker.batch, read |-> worker.read]

(* The inductive invariant behind the three: they hold together, for a queue *)
(* of well-formed events.                                                    *)
WakeInv ==
    /\ WorkerShape
    /\ queue \in Seq([type : Types, path : Paths, old : {NoPath}])
    /\ rescan \in BOOLEAN /\ note \in BOOLEAN
    /\ StormGuard /\ NoLostWakeup /\ BlockedSearchWakes

Tracked == \A p \in Paths : index[p] = Gone <=> disk[p] = Gone

(* Once files stop changing the index has a record for exactly the files     *)
(* there are, whatever events were lost, reordered or dropped in storms, if  *)
(* the project does not stay paused nor the worker suspended.                *)
EventuallyTracked == <>[]~suspended /\ <>[]~paused => <>[]Tracked

Current(p) ==
    \/ disk[p] = Gone /\ index[p] = Gone
    \/ disk[p] # Gone /\ index[p] # Gone /\ disk[p].content = index[p].content

(* Once files stop changing every record has the content of its file. *)
EventuallyCurrent == <>[]~suspended /\ <>[]~paused => <>[](\A p \in Paths : Current(p))

(* indexer.py on the rename that the debounce coalesces: "The chunk text is  *)
(* unchanged".  The record a rename moves has the text of the file at the    *)
(* new path, unless more events for that file are on their way.              *)
RenameKeepsText ==
    [][ApplyRename =>
         \A p \in Paths :
            index[p] = Gone /\ index'[p] # Gone /\ (\A e \in os : e.path # p) /\ p \notin PathsIn(queue)
              => disk[p].content = index'[p].content]_vars

(* What wait_for_quiescence is for: when it reports no pending update, every *)
(* change was delivered and no batch is being applied, the index is up to    *)
(* date.  The last condition is not the docstring's ("a search call that     *)
(* arrives mid-batch blocks"): a batch taken off the queue is not pending.   *)
QuiescentMeansCurrent ==
    [][QuiescenceReturn /\ os = {} /\ ~Busy => \A p \in Paths : Current(p)]_vars

(* What makes it hold where files are only written, the watch never lapses   *)
(* and no storm comes: every path that is not current, or of which the       *)
(* worker holds a text the file no longer has, has an event still to be      *)
(* handled: undelivered, queued or in the batch.                             *)
Updates == [type : {"CREATE", "MODIFY"}, path : Paths, old : {NoPath}]
Awaited(p) ==
    \/ \E e \in os : e.path = p
    \/ p \in PathsIn(queue)
    \/ /\ worker.pc \in {"apply", "stat"}
       /\ \E i \in DOMAIN worker.batch :
            worker.batch[i].path = p /\ (worker.pc = "stat" => i # NextEvent)
Known(p) ==
    IF worker.pc = "stat" /\ worker.batch[NextEvent].path = p
    THEN worker.read = disk[p].content ELSE Current(p)
UpdatesOnly ==
    /\ watching /\ ~paused
    /\ os \subseteq Updates /\ queue \in Seq(Updates) /\ worker.batch \in Seq(Updates)
    /\ WorkerShape /\ worker.pc \in {"check", "waiting", "timed", "drain", "apply", "stat"}
    /\ worker.pc = "stat" => worker.batch # <<>> /\ worker.read \in Contents
FilesStay ==
    /\ clock \in Nat
    /\ disk \in [Paths -> {Gone} \cup [content : Contents, mtime : Nat]]
    /\ index \in [Paths -> {Gone} \cup [content : Contents, mtime : Nat]]
    /\ \A p \in Paths : index[p] # Gone => disk[p] # Gone
WalkRecord == [on : BOOLEAN, recorded : [Paths -> {Gone} \cup Nat],
               todo : SUBSET Paths, seen : SUBSET Paths]
WalksSound ==
    /\ walks \in [Walkers -> WalkRecord]
    /\ \A k \in Walkers : walks[k].on =>
         \A p \in Paths : walks[k].recorded[p] # Gone =>
            disk[p] # Gone /\ (p \in walks[k].todo \/ p \in walks[k].seen)
QuiescenceInv ==
    UpdatesOnly /\ FilesStay /\ WalksSound /\ \A p \in Paths : Known(p) \/ Awaited(p)
=============================================================================
