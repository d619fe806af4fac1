---------------------------- MODULE WatcherProofs ----------------------------
(***************************************************************************)
(* The watcher, for any set of paths and any size of the queue: the storm   *)
(* guard bounds the queue, no waiter sleeps through the event it waits for, *)
(* and, where files are only written, a search that waited for quiescence   *)
(* sees the files as they are.                                              *)
(***************************************************************************)
EXTENDS Watcher, SetLemmas, SequenceTheorems

(* The empty queue is within any size. *)
LEMMA EmptyQueue == <<>> \in Seq([type : Types, path : Paths, old : {NoPath}]) /\ Len(<<>>) <= QueueSize
BY QueueSizeAssumption

(* The empty queue of a starting watcher satisfies the invariant. *)
LEMMA InitWakeInv == Init => WakeInv
<1> SUFFICES ASSUME Init PROVE WakeInv
  OBVIOUS
<1>1. WorkerShape /\ worker.pc = "check"
  BY DEF Init, AtCheck, WorkerShape
<1> QED
  BY <1>1, EmptyQueue DEF Init, WakeInv, StormGuard, NoLostWakeup, BlockedSearchWakes, WorkerShape

(* _enqueue_event, from whichever thread, keeps the queue within its size    *)
(* and announces what it queues, while no waiter begins or ends its wait.    *)
LEMMA EnqueueKeeps ==
    ASSUME WakeInv, NEW t \in Types, NEW p \in Paths, _enqueue_event(Event(t, p)),
           UNCHANGED <<worker, searcher>>
    PROVE  WakeInv'
<1> DEFINE e == Event(t, p)
<1>1. e \in [type : Types, path : Paths, old : {NoPath}]
  BY DEF Event
<1>2. CASE rescan
  BY <1>2 DEF _enqueue_event, intake, WakeInv, StormGuard, NoLostWakeup, BlockedSearchWakes, Busy, WorkerShape
<1>3. CASE ~rescan /\ Len(queue) + 1 > QueueSize
  BY <1>3, QueueSizeAssumption
     DEF _enqueue_event, WakeInv, StormGuard, NoLostWakeup, BlockedSearchWakes, Busy, WorkerShape
<1>4. CASE ~rescan /\ ~(Len(queue) + 1 > QueueSize)
  <2>1. queue' = Append(queue, e) /\ note' = TRUE /\ rescan' = rescan
    BY <1>4 DEF _enqueue_event
  <2> HIDE DEF e
  <2>2. /\ queue' \in Seq([type : Types, path : Paths, old : {NoPath}])
        /\ Len(queue') = Len(queue) + 1
    BY <1>1, <2>1 DEF WakeInv
  <2>3. Len(queue') <= QueueSize
    BY <1>4, <2>2, QueueSizeAssumption DEF WakeInv
  <2> QED
    BY <1>4, <2>1, <2>2, <2>3 DEF WakeInv, StormGuard, NoLostWakeup, BlockedSearchWakes, WorkerShape
<1> QED
  BY <1>2, <1>3, <1>4

(* Steps that leave the intake and the waiters alone. *)
LEMMA OthersKeep ==
    ASSUME WakeInv, UNCHANGED <<intake, worker, searcher>>
    PROVE  WakeInv'
BY DEF intake, WakeInv, StormGuard, NoLostWakeup, BlockedSearchWakes, Busy, WorkerShape

(* Steps of the batch being applied: the worker stays busy. *)
LEMMA ApplyKeeps ==
    ASSUME WakeInv, UNCHANGED <<intake, searcher>>, Busy, Busy', WorkerShape'
    PROVE  WakeInv'
BY DEF intake, WakeInv, StormGuard, NoLostWakeup, BlockedSearchWakes, Busy, WorkerShape

(* The notify task leaves nobody waiting. *)
LEMMA NotifyKeeps ==
    ASSUME WakeInv, _notify_cond
    PROVE  WakeInv'
<1>1. worker'.pc # "waiting" /\ searcher' # "blocked" /\ WorkerShape'
  <2>0. WorkerShape
    BY DEF WakeInv
  <2>1. CASE worker.pc = "waiting"
    BY <2>0, <2>1 DEF _notify_cond, WorkerShape
  <2>2. CASE worker.pc = "timed"
    BY <2>0, <2>2 DEF _notify_cond, WorkerShape
  <2>3. CASE worker.pc \notin {"waiting", "timed"}
    BY <2>0, <2>3 DEF _notify_cond, WorkerShape
  <2> QED
    BY <2>1, <2>2, <2>3
<1>2. UNCHANGED <<queue, rescan>> /\ note' = FALSE
  BY DEF _notify_cond
<1> QED
  BY <1>1, <1>2 DEF WakeInv, StormGuard, NoLostWakeup, BlockedSearchWakes, WorkerShape

(* _drain_now takes the queue only together with the work it stands for. *)
LEMMA DrainKeeps ==
    ASSUME WakeInv, _drain_now
    PROVE  WakeInv'
<1>1. /\ queue' = IF Due THEN <<>> ELSE queue
      /\ rescan' = FALSE /\ UNCHANGED <<note, searcher>>
      /\ worker.pc = "drain" /\ WorkerShape
  BY DEF _drain_now, WakeInv
<1>2. CASE rescan
  <2>1. worker'.pc = "walk" /\ WorkerShape'
    BY <1>1, <1>2 DEF _drain_now, WorkerShape
  <2> QED
    BY <1>1, <2>1, EmptyQueue
       DEF WakeInv, StormGuard, NoLostWakeup, BlockedSearchWakes, Busy
<1>3. CASE ~rescan /\ Due
  <2>1. worker'.pc = "apply" /\ WorkerShape'
    BY <1>1, <1>3 DEF _drain_now, WorkerShape
  <2> QED
    BY <1>1, <2>1, EmptyQueue
       DEF WakeInv, StormGuard, NoLostWakeup, BlockedSearchWakes, Busy
<1>4. CASE ~rescan /\ ~Due
  <2>1. worker'.pc = "check" /\ WorkerShape'
    BY <1>4 DEF _drain_now, AtCheck, WorkerShape
  <2> QED
    BY <1>1, <1>4, <2>1
       DEF WakeInv, StormGuard, NoLostWakeup, BlockedSearchWakes, Busy
<1> QED
  BY <1>2, <1>3, <1>4

(* The steps of the worker. *)
LEMMA WorkerKeeps ==
    ASSUME WakeInv, WorkerStep
    PROVE  WakeInv'
<1>0. WorkerShape
  BY DEF WakeInv
<1>1. CASE _worker_loop
  <2>1. /\ worker.pc = "check" /\ UNCHANGED <<queue, rescan, note, searcher>>
        /\ worker'.pc = "waiting" => queue = <<>> /\ ~rescan
        /\ WorkerShape'
    BY <1>0, <1>1 DEF _worker_loop, intake, WorkerShape
  <2> QED
    BY <2>1 DEF WakeInv, StormGuard, NoLostWakeup, BlockedSearchWakes, Busy, WorkerShape
<1>2. CASE WaitTimeout
  BY <1>2 DEF WaitTimeout, intake, WakeInv, StormGuard, NoLostWakeup, BlockedSearchWakes, Busy, WorkerShape
<1>3. CASE _drain_now
  BY <1>3, DrainKeeps
<1>4. CASE DrainEnd
  <2>1. /\ worker'.pc = "check" /\ WorkerShape'
        /\ note' = TRUE /\ UNCHANGED <<queue, rescan, searcher>>
    BY <1>4 DEF DrainEnd, AtCheck, WorkerShape
  <2> QED
    BY <2>1 DEF WakeInv, StormGuard, NoLostWakeup, BlockedSearchWakes, WorkerShape
<1>5. CASE ApplyUpdateRead
  <2>1. worker'.pc \in {"apply", "stat"} /\ worker.pc = "apply" /\ WorkerShape'
    BY <1>0, <1>5 DEF ApplyUpdateRead, Applying, EventDone, WorkerShape
  <2>2. UNCHANGED <<intake, searcher>>
    BY <1>5 DEF ApplyUpdateRead
  <2> QED
    BY <2>1, <2>2, ApplyKeeps DEF Busy
<1>6. CASE ApplyUpdateStat
  <2>1. worker'.pc = "apply" /\ worker.pc = "stat" /\ WorkerShape'
    BY <1>0, <1>6 DEF ApplyUpdateStat, EventDone, WorkerShape
  <2>2. UNCHANGED <<intake, searcher>>
    BY <1>6 DEF ApplyUpdateStat
  <2> QED
    BY <2>1, <2>2, ApplyKeeps DEF Busy
<1>7. CASE ApplyDelete
  <2>1. worker'.pc = "apply" /\ worker.pc = "apply" /\ WorkerShape'
    BY <1>0, <1>7 DEF ApplyDelete, Applying, EventDone, WorkerShape
  <2>2. UNCHANGED <<intake, searcher>>
    BY <1>7 DEF ApplyDelete
  <2> QED
    BY <2>1, <2>2, ApplyKeeps DEF Busy
<1>8. CASE ApplyRename
  <2>1. worker'.pc = "apply" /\ worker.pc = "apply" /\ WorkerShape'
    BY <1>0, <1>8 DEF ApplyRename, Applying, EventDone, WorkerShape
  <2>2. UNCHANGED <<intake, searcher>>
    BY <1>8 DEF ApplyRename
  <2> QED
    BY <2>1, <2>2, ApplyKeeps DEF Busy
<1> QED
  BY <1>1, <1>2, <1>3, <1>4, <1>5, <1>6, <1>7, <1>8 DEF WorkerStep

(* The steps of a walk enqueue events or leave the intake alone. *)
LEMMA WalkKeeps ==
    ASSUME WakeInv, NEW k \in Walkers, WalkStep(k)
    PROVE  WakeInv'
<1>1. ASSUME NEW p \in Paths, WalkFile(k, p) PROVE WakeInv'
  <2>1. UNCHANGED <<worker, searcher>>
    BY <1>1 DEF WalkFile
  <2>2. \/ UNCHANGED intake
        \/ _enqueue_event(Event("CREATE", p))
        \/ _enqueue_event(Event("MODIFY", p))
    BY <1>1 DEF WalkFile
  <2> QED
    BY <2>1, <2>2, EnqueueKeeps, OthersKeep DEF Types
<1>2. ASSUME NEW p \in Paths, WalkDelete(k, p) PROVE WakeInv'
  <2>1. UNCHANGED <<worker, searcher>> /\ _enqueue_event(Event("DELETE", p))
    BY <1>2 DEF WalkDelete
  <2> QED
    BY <2>1, EnqueueKeeps DEF Types
<1>3. CASE WalkEnd(k)
  BY <1>3, OthersKeep DEF WalkEnd
<1> QED
  BY <1>1, <1>2, <1>3 DEF WalkStep

(* The searches. *)
LEMMA SearchKeeps ==
    ASSUME WakeInv, wait_for_quiescence \/ SearchStep \/ QuiescenceTimeout
    PROVE  WakeInv'
BY DEF wait_for_quiescence, SearchStep, QuiescenceReturn, QuiescenceBlock, QuiescenceTimeout,
       pending_updates, intake, WakeInv, StormGuard, NoLostWakeup, BlockedSearchWakes, Busy, WorkerShape

(* Every step keeps the invariant. *)
LEMMA NextWakeInv == WakeInv /\ [Next]_vars => WakeInv'
<1> SUFFICES ASSUME WakeInv, [Next]_vars PROVE WakeInv'
  OBVIOUS
<1>1. CASE FileSystem
  BY <1>1, OthersKeep DEF FileSystem, Write, Delete, Move, Change
<1>2. CASE WatchFails \/ WatchRestarts
  BY <1>2, OthersKeep DEF WatchFails, WatchRestarts
<1>3. CASE Deliver
  <2>1. PICK p \in Paths, t \in Types : _watch_one_project(Event(t, p))
    BY <1>3 DEF Deliver
  <2>2. _enqueue_event(Event(t, p)) /\ UNCHANGED <<worker, searcher>>
    BY <2>1 DEF _watch_one_project
  <2> QED
    BY <2>2, EnqueueKeeps
<1>4. CASE Ripen
  BY <1>4 DEF Ripen, WakeInv, StormGuard, NoLostWakeup, BlockedSearchWakes, Busy, WorkerShape
<1>5. CASE _notify_cond
  BY <1>5, NotifyKeeps
<1>6. CASE WorkerStep
  BY <1>6, WorkerKeeps
<1>7. CASE \E k \in Walkers : WalkStep(k)
  BY <1>7, WalkKeeps
<1>8. CASE _mtime_sweep_once \/ pause_project \/ resume_project \/ set_paused
  BY <1>8, OthersKeep DEF _mtime_sweep_once, pause_project, resume_project, set_paused
<1>9. CASE add_project
  BY <1>9 DEF add_project, WakeInv, StormGuard, NoLostWakeup, BlockedSearchWakes, Busy, WorkerShape
<1>10. CASE wait_for_quiescence \/ SearchStep \/ QuiescenceTimeout
  BY <1>10, SearchKeeps
<1>11. CASE UNCHANGED vars
  BY <1>11, OthersKeep DEF vars
<1> QED
  BY <1>1, <1>2, <1>3, <1>4, <1>5, <1>6, <1>7, <1>8, <1>9, <1>10, <1>11 DEF Next

(* The inductive invariant holds throughout. *)
THEOREM WakeInvariant == Spec => []WakeInv
BY InitWakeInv, NextWakeInv, PTL DEF Spec

(* The queue never exceeds queue_size, and _drain_now, which ignores queued  *)
(* events when a rescan is pending, never has any to ignore.                 *)
THEOREM StormGuardHolds == Spec => []StormGuard
<1>1. WakeInv => StormGuard
  BY DEF WakeInv
<1> QED
  BY <1>1, WakeInvariant, PTL

(* The worker's idle wait misses no event: what is queued while it waits, on *)
(* whatever thread, has a notify task that will wake it.                     *)
THEOREM WorkerNeverMissesAnEvent == Spec => []NoLostWakeup
<1>1. WakeInv => NoLostWakeup
  BY DEF WakeInv
<1> QED
  BY <1>1, WakeInvariant, PTL

(* A search that waits for a queue which has been emptied is about to be     *)
(* woken, or will be once the batch is applied.                              *)
THEOREM SearchNeverMissesTheDrain == Spec => []BlockedSearchWakes
<1>1. WakeInv => BlockedSearchWakes
  BY DEF WakeInv
<1> QED
  BY <1>1, WakeInvariant, PTL

-----------------------------------------------------------------------------
(* A search that waited sees every write *)

(* A queue of updates is folded to updates, of the same paths. *)
LEMMA LastIsUpdate ==
    ASSUME NEW events \in Seq(Updates), NEW p \in PathsIn(events)
    PROVE  LastEvent(events, p) \in Updates /\ LastEvent(events, p).path = p
<1> DEFINE at == {i \in DOMAIN events : events[i].path = p}
<1>1. Len(events) \in Nat /\ DOMAIN events = 1 .. Len(events)
  OBVIOUS
<1>2. at \subseteq 1 .. Len(events) /\ at \subseteq Nat /\ at # {}
  BY <1>1 DEF PathsIn
<1>3. IsFiniteSet(1 .. Len(events))
  BY <1>1, FS_Interval
<1>4. IsFiniteSet(at)
  BY <1>2, <1>3, FS_Subset
<1>5. \E x \in at : \A y \in at : y <= x
  BY <1>2, <1>4, MaxIsGreatest
<1>6. PICK x \in at : LastEvent(events, p) = events[x]
  BY <1>5 DEF LastEvent
<1> QED
  BY <1>6

LEMMA NoDeletes ==
    ASSUME NEW events \in Seq(Updates)
    PROVE  ~IsRename(events) /\ \A p \in PathsIn(events) : PerPath(events, p) = LastEvent(events, p)
<1>1. ASSUME NEW p \in PathsIn(events) PROVE PerPath(events, p) = LastEvent(events, p)
  <2>0. \A i \in DOMAIN events : events[i] \in Updates
    OBVIOUS
  <2>1. {i \in DOMAIN events : events[i].path = p /\ events[i].type = "DELETE"} = {}
    BY <2>0 DEF Updates
  <2>2. FirstIndex(events, p, "DELETE") = 0
    BY <2>1 DEF FirstIndex
  <2> QED
    BY <2>2 DEF PerPath
<1>2. Surviving(events, "DELETE") = {}
  <2> SUFFICES ASSUME NEW p \in PathsIn(events), PerPath(events, p).type = "DELETE" PROVE FALSE
    BY DEF Surviving
  <2> QED
    BY <1>1, LastIsUpdate DEF Updates
<1>3. Cardinality(Surviving(events, "DELETE")) = 0
  BY <1>2, FS_EmptySet
<1> QED
  BY <1>1, <1>3 DEF IsRename

LEMMA CoalesceKeepsUpdates ==
    ASSUME NEW events \in Seq(Updates)
    PROVE  /\ _coalesce_events(events) \in Seq(Updates)
           /\ PathsIn(events) \subseteq PathsIn(_coalesce_events(events))
<1> DEFINE first == FirstEvents(events)
           n == Cardinality(first)
           nth(k) == CHOOSE i \in first : Cardinality({j \in first : j <= i}) = k
           batch == _coalesce_events(events)
<1>1. Len(events) \in Nat /\ DOMAIN events = 1 .. Len(events)
  OBVIOUS
<1>2. first \subseteq DOMAIN events /\ first \subseteq Int /\ IsFiniteSet(first)
  <2>1. first \subseteq 1 .. Len(events)
    BY <1>1 DEF FirstEvents
  <2>2. IsFiniteSet(1 .. Len(events))
    BY <1>1, FS_Interval
  <2> QED
    BY <1>1, <2>1, <2>2, FS_Subset
<1>3. /\ n \in Nat
      /\ \A i \in first : Cardinality({j \in first : j <= i}) \in 1 .. n
      /\ \A i, j \in first :
           Cardinality({k \in first : k <= i}) = Cardinality({k \in first : k <= j}) => i = j
      /\ \A k \in 1 .. n : \E i \in first : Cardinality({j \in first : j <= i}) = k
  BY <1>2, CountNumbers
<1>4. batch = [k \in 1 .. n |-> Coalesced(events, events[nth(k)].path)]
  BY DEF _coalesce_events
<1>5. \A p \in PathsIn(events) : Coalesced(events, p) \in Updates /\ Coalesced(events, p).path = p
  BY NoDeletes, LastIsUpdate DEF Coalesced
<1> HIDE DEF batch, first, n
<1>6. \A k \in 1 .. n : nth(k) \in first
  BY <1>3
<1>7. \A k \in 1 .. n : events[nth(k)].path \in PathsIn(events)
  BY <1>2, <1>6 DEF PathsIn
<1>8. batch \in [1 .. n -> Updates]
  BY <1>4, <1>5, <1>7
<1>9. batch \in Seq(Updates)
  BY <1>3, <1>8
<1>10. ASSUME NEW p \in PathsIn(events) PROVE p \in PathsIn(batch)
  <2> DEFINE at == {i \in DOMAIN events : events[i].path = p}
  <2>1. at \subseteq Nat /\ at # {}
    BY <1>1, <1>10 DEF PathsIn
  <2>2. PICK i \in at : \A j \in at : i <= j
    BY <2>1, LeastNat
  <2>3. i \in first
    <3>1. \A j \in 1 .. i - 1 : j \in DOMAIN events /\ ~(i <= j)
      BY <1>1
    <3>2. \A j \in 1 .. i - 1 : events[j].path # events[i].path
      BY <2>2, <3>1
    <3> QED
      BY <3>2, NoDeletes DEF FirstEvents, first
  <2>4. PICK k \in 1 .. n : Cardinality({j \in first : j <= i}) = k
    BY <1>3, <2>3
  <2>5. nth(k) = i
    BY <1>3, <2>3, <2>4
  <2>6. batch[k].path = p /\ k \in DOMAIN batch
    BY <1>4, <1>5, <2>4, <2>5, <1>10
  <2> QED
    BY <2>6 DEF PathsIn
<1> QED
  BY <1>9, <1>10 DEF batch

(* The worker takes one update off the batch. *)
LEMMA BatchRestIs ==
    ASSUME worker.batch \in Seq(Updates), worker.batch # <<>>
    PROVE  /\ NextEvent \in DOMAIN worker.batch /\ BatchRest \in Seq(Updates)
           /\ \A i \in DOMAIN worker.batch :
                i # NextEvent => \E j \in DOMAIN BatchRest : BatchRest[j] = worker.batch[i]
<1> DEFINE b == worker.batch
           n == NextEvent
<1>1. Len(b) \in Nat /\ Len(b) # 0 /\ DOMAIN b = 1 .. Len(b)
  OBVIOUS
<1>2. {i \in DOMAIN b : IsUpdate(b[i])} = DOMAIN b
  <2>1. \A i \in DOMAIN b : b[i] \in Updates
    OBVIOUS
  <2> QED
    BY <2>1 DEF IsUpdate, Updates
<1>3. n = CHOOSE i \in DOMAIN b : \A j \in DOMAIN b : i <= j
  BY <1>2 DEF NextEvent
<1>4. DOMAIN b \subseteq Nat /\ DOMAIN b # {}
  BY <1>1
<1>5. n \in DOMAIN b
  BY <1>3, <1>4, LeastNat
<1>6. BatchRest = SubSeq(b, 1, n - 1) \o SubSeq(b, n + 1, Len(b))
  BY DEF BatchRest
<1> HIDE DEF b, n
<1>7. n \in 1 .. Len(b)
  BY <1>1, <1>5
<1> DEFINE l == SubSeq(b, 1, n - 1)
           r == SubSeq(b, n + 1, Len(b))
<1>8. /\ l \in Seq(Updates) /\ Len(l) = n - 1 /\ \A i \in 1 .. n - 1 : l[i] = b[i]
      /\ r \in Seq(Updates) /\ Len(r) = Len(b) - n /\ \A i \in 1 .. Len(b) - n : r[i] = b[n + i]
  BY <1>1, <1>7 DEF b
<1> HIDE DEF l, r
<1>9. /\ l \o r \in Seq(Updates) /\ DOMAIN (l \o r) = 1 .. Len(b) - 1
      /\ \A i \in 1 .. n - 1 : (l \o r)[i] = b[i]
      /\ \A i \in 1 .. Len(b) - n : (l \o r)[n - 1 + i] = b[n + i]
  <2>1. l \o r \in Seq(Updates) /\ Len(l \o r) = Len(b) - 1
    <3>1. l \o r \in Seq(Updates) /\ Len(l \o r) = Len(l) + Len(r)
      BY <1>8, ConcatProperties
    <3> QED
      BY <1>1, <1>7, <1>8, <3>1
  <2>2. DOMAIN (l \o r) = 1 .. Len(b) - 1
    BY <2>1
  <2>3. \A i \in 1 .. Len(l) : (l \o r)[i] = l[i]
    BY <1>8
  <2>4. \A i \in 1 .. Len(r) : (l \o r)[Len(l) + i] = r[i]
    BY <1>8
  <2> QED
    BY <1>8, <2>1, <2>2, <2>3, <2>4
<1>10. ASSUME NEW i \in DOMAIN b, i # n PROVE \E j \in DOMAIN (l \o r) : (l \o r)[j] = b[i]
  <2>1. CASE i < n
    <3>1. i \in 1 .. n - 1 /\ i \in 1 .. Len(b) - 1
      BY <1>1, <1>7, <2>1
    <3> QED
      BY <1>9, <3>1
  <2>2. CASE i > n
    <3>1. i - n \in 1 .. Len(b) - n /\ i - 1 \in 1 .. Len(b) - 1 /\ n - 1 + (i - n) = i - 1 /\ n + (i - n) = i
      BY <1>1, <1>7, <2>2
    <3>2. (l \o r)[n - 1 + (i - n)] = b[n + (i - n)]
      BY <1>9, <3>1
    <3> QED
      BY <1>9, <3>1, <3>2
  <2> QED
    BY <1>1, <1>7, <1>10, <2>1, <2>2
<1> QED
  BY <1>5, <1>6, <1>9, <1>10 DEF b, n, l, r

-----------------------------------------------------------------------------
(* A step that leaves disk and index alone and keeps every event somewhere   *)
(* keeps every path current or awaited.                                      *)
LEMMA AwaitedKeeps ==
    ASSUME \A p \in Paths : Known(p) \/ Awaited(p),
           UNCHANGED <<disk, index>>,
           \/ worker' = worker
           \/ worker.pc \notin {"apply", "stat"} /\ worker'.pc # "stat",
           PathsIn(queue) \subseteq PathsIn(queue'),
           \A e \in os : e \in os' \/ e.path \in PathsIn(queue')
    PROVE  \A p \in Paths : (Known(p) \/ Awaited(p))'
<1> SUFFICES ASSUME NEW p \in Paths PROVE (Known(p) \/ Awaited(p))'
  OBVIOUS
<1>0. CASE Known(p)
  BY <1>0 DEF Known, Current, NextEvent
<1>1. CASE \E e \in os : e.path = p
  BY <1>1 DEF Awaited
<1>2. CASE p \in PathsIn(queue)
  BY <1>2 DEF Awaited
<1>3. CASE /\ worker.pc \in {"apply", "stat"}
           /\ \E i \in DOMAIN worker.batch :
                worker.batch[i].path = p /\ (worker.pc = "stat" => i # NextEvent)
  <2>1. worker' = worker
    BY <1>3
  <2> QED
    BY <1>3, <2>1 DEF Awaited, NextEvent
<1> QED
  BY <1>0, <1>1, <1>2, <1>3 DEF Awaited

(* _enqueue_event, while no storm comes. *)
LEMMA EnqueueAppends ==
    ASSUME queue \in Seq(Updates), NEW e \in Updates, ~rescan, ~rescan', _enqueue_event(e)
    PROVE  queue' \in Seq(Updates) /\ PathsIn(queue) \subseteq PathsIn(queue')
           /\ e.path \in PathsIn(queue')
<1>1. queue' = Append(queue, e)
  BY DEF _enqueue_event
<1>2. /\ queue' \in Seq(Updates) /\ Len(queue') = Len(queue) + 1
      /\ \A i \in 1 .. Len(queue) : queue'[i] = queue[i]
      /\ queue'[Len(queue) + 1] = e /\ Len(queue) \in Nat
  BY <1>1, AppendProperties
<1>3. DOMAIN queue = 1 .. Len(queue) /\ DOMAIN queue' = 1 .. Len(queue) + 1
  BY <1>2
<1> HIDE <1>1
<1>4. \A i \in DOMAIN queue : i \in DOMAIN queue' /\ queue'[i].path = queue[i].path
  BY <1>2, <1>3
<1>5. Len(queue) + 1 \in DOMAIN queue'
  BY <1>2, <1>3
<1> QED
  BY <1>2, <1>4, <1>5 DEF PathsIn

(* Files are only written, and the watch does not lapse. *)
WritesOnly == Ops \subseteq {"write"} /\ ~CanLose /\ ~CanPause

LEMMA QuiescenceStart == Init => QuiescenceInv
<1> SUFFICES ASSUME Init PROVE QuiescenceInv
  OBVIOUS
<1>1. worker = [pc |-> "check", batch |-> <<>>, read |-> Gone]
  BY DEF Init, AtCheck
<1>2. UpdatesOnly
  BY <1>1 DEF Init, UpdatesOnly, WorkerShape
<1>3. disk \in [Paths -> {Gone} \cup [content : Contents, mtime : Nat]]
  BY DEF Init
<1>4. FilesStay
  BY <1>3 DEF Init, FilesStay
<1>5. WalksSound
  <2>1. NoWalk \in WalkRecord /\ ~NoWalk.on
    BY DEF NoWalk, WalkRecord
  <2> QED
    BY <2>1 DEF Init, WalksSound
<1>6. \A p \in Paths : Current(p)
  BY DEF Init, Current
<1> QED
  BY <1>1, <1>2, <1>4, <1>5, <1>6 DEF QuiescenceInv, Known

(* A write leaves its event, whatever the worker has read. *)
LEMMA WriteAwaits == ASSUME QuiescenceInv, WritesOnly, FileSystem PROVE QuiescenceInv'
<1>1. PICK tick \in Ticks, p \in Paths, c \in Contents : Write(p, c, tick)
  BY DEF FileSystem, WritesOnly, Delete, Move
<1>2. /\ UpdatesOnly /\ FilesStay /\ WalksSound
      /\ UNCHANGED <<index, intake, flags, worker, walks>>
      /\ clock' = clock + tick
  BY <1>1 DEF QuiescenceInv, Write, Change
<1> DEFINE rec == [content |-> c, mtime |-> clock + tick]
           e == Event(IF disk[p] = Gone THEN "CREATE" ELSE "MODIFY", p)
<1>3. rec \in [content : Contents, mtime : Nat] /\ rec # Gone /\ clock + tick \in Nat
  <2>1. clock + tick \in Nat
    BY <1>2, TicksAssumption DEF FilesStay
  <2> QED
    BY <2>1, WatcherGoneAssumption
<1>4. disk' = [disk EXCEPT ![p] = rec] /\ os' = os \cup {e}
  BY <1>1, <1>2 DEF Write, Change, UpdatesOnly
<1>5. e \in Updates /\ e.path = p
  BY DEF Event, Updates
<1> HIDE DEF rec, e
<1>6. disk'[p] = rec /\ \A q \in Paths : q # p => disk'[q] = disk[q]
  BY <1>2, <1>4 DEF FilesStay
<1>7. UpdatesOnly'
  BY <1>2, <1>4, <1>5 DEF UpdatesOnly, intake, flags, WorkerShape
<1>8. FilesStay'
  <2>1. disk' \in [Paths -> {Gone} \cup [content : Contents, mtime : Nat]]
    BY <1>2, <1>3, <1>4 DEF FilesStay
  <2> QED
    BY <1>2, <1>3, <1>6, <2>1 DEF FilesStay
<1>9. WalksSound'
  BY <1>2, <1>3, <1>6 DEF WalksSound
<1>10. ASSUME NEW q \in Paths PROVE (Known(q) \/ Awaited(q))'
  <2>1. CASE q = p
    BY <1>4, <1>5, <2>1 DEF Awaited
  <2>2. CASE q # p /\ Known(q)
    BY <1>2, <1>6, <2>2 DEF Known, Current, NextEvent
  <2>3. CASE q # p /\ Awaited(q)
    BY <1>2, <1>4, <1>6, <2>3 DEF Awaited, NextEvent, intake
  <2> QED
    BY <2>1, <2>2, <2>3 DEF QuiescenceInv
<1> QED
  BY <1>7, <1>8, <1>9, <1>10 DEF QuiescenceInv

(* Events move from the watch to the queue. *)
LEMMA DeliverAwaits == ASSUME QuiescenceInv, ~rescan, ~rescan', Deliver PROVE QuiescenceInv'
<1>1. PICK p \in Paths, t \in Types : _watch_one_project(Event(t, p))
  BY DEF Deliver
<1> DEFINE e == Event(t, p)
<1>2. /\ e \in os /\ os' = os \ {e} /\ _enqueue_event(e)
      /\ UNCHANGED <<fs, index, flags, worker, walks>>
  BY <1>1 DEF _watch_one_project
<1> HIDE DEF e
<1>3. UpdatesOnly /\ FilesStay /\ WalksSound /\ \A q \in Paths : Known(q) \/ Awaited(q)
  BY DEF QuiescenceInv
<1>4. e \in Updates
  BY <1>2, <1>3 DEF UpdatesOnly
<1>5. /\ queue' \in Seq(Updates) /\ PathsIn(queue) \subseteq PathsIn(queue')
      /\ e.path \in PathsIn(queue')
  BY <1>2, <1>3, <1>4, EnqueueAppends DEF UpdatesOnly
<1>6. \A x \in os : x \in os' \/ x.path \in PathsIn(queue')
  BY <1>2, <1>5
<1>7. \A q \in Paths : (Known(q) \/ Awaited(q))'
  BY <1>2, <1>3, <1>5, <1>6, AwaitedKeeps DEF fs
<1>8. UpdatesOnly'
  BY <1>2, <1>3, <1>5 DEF UpdatesOnly, flags, WorkerShape
<1>9. FilesStay' /\ WalksSound'
  BY <1>2, <1>3 DEF FilesStay, WalksSound, fs
<1> QED
  BY <1>7, <1>8, <1>9 DEF QuiescenceInv

(* Steps that move no event and touch no file, no record and no walk. *)
LEMMA IdleAwaits ==
    ASSUME QuiescenceInv, UNCHANGED <<disk, clock, index, os, queue, walks>>,
           watching', ~paused', worker'.batch \in Seq(Updates), WorkerShape',
           \/ worker' = worker
           \/ /\ worker.pc \notin {"apply", "stat"}
              /\ worker'.pc \in {"check", "waiting", "timed", "drain"}
    PROVE  QuiescenceInv'
<1>1. UpdatesOnly /\ FilesStay /\ WalksSound /\ \A q \in Paths : Known(q) \/ Awaited(q)
  BY DEF QuiescenceInv
<1>2. \A q \in Paths : (Known(q) \/ Awaited(q))'
  <2>1. /\ PathsIn(queue) \subseteq PathsIn(queue')
        /\ \A e \in os : e \in os' \/ e.path \in PathsIn(queue')
    OBVIOUS
  <2> QED
    BY <1>1, <2>1, AwaitedKeeps
<1>3. UpdatesOnly'
  BY <1>1 DEF UpdatesOnly
<1>4. FilesStay' /\ WalksSound'
  BY <1>1 DEF FilesStay, WalksSound
<1> QED
  BY <1>2, <1>3, <1>4 DEF QuiescenceInv

LEMMA NotifyAwaits == ASSUME QuiescenceInv, _notify_cond PROVE QuiescenceInv'
<1>1. WorkerShape /\ watching /\ ~paused /\ worker.batch \in Seq(Updates)
  BY DEF QuiescenceInv, UpdatesOnly
<1>2. /\ WorkerShape' /\ worker'.batch \in Seq(Updates)
      /\ \/ worker' = worker
         \/ /\ worker.pc \notin {"apply", "stat"}
            /\ worker'.pc \in {"check", "waiting", "timed", "drain"}
  <2>1. CASE worker.pc = "waiting"
    <3>1. worker' = [worker EXCEPT !.pc = "check"]
      BY <2>1 DEF _notify_cond
    <3> QED
      BY <1>1, <2>1, <3>1 DEF WorkerShape
  <2>2. CASE worker.pc = "timed"
    <3>1. worker' = [worker EXCEPT !.pc = "drain"]
      BY <2>2 DEF _notify_cond
    <3> QED
      BY <1>1, <2>2, <3>1 DEF WorkerShape
  <2>3. CASE worker.pc \notin {"waiting", "timed"}
    BY <1>1, <2>3 DEF _notify_cond, WorkerShape
  <2> QED
    BY <2>1, <2>2, <2>3
<1>3. UNCHANGED <<disk, clock, index, os, queue, walks, watching, paused>>
  BY DEF _notify_cond, fs, flags
<1> QED
  BY <1>1, <1>2, <1>3, IdleAwaits

(* _drain_now hands what was queued to the worker. *)
LEMMA DrainAwaits == ASSUME QuiescenceInv, ~rescan, _drain_now PROVE QuiescenceInv'
<1>1. UpdatesOnly /\ FilesStay /\ WalksSound /\ \A q \in Paths : Known(q) \/ Awaited(q)
  BY DEF QuiescenceInv
<1>2. worker.pc = "drain" /\ UNCHANGED <<disk, clock, index, os, walks, watching, paused>>
  BY DEF _drain_now, fs, flags
<1>3. CASE ~Due
  <2>1. worker' = [pc |-> "check", batch |-> <<>>, read |-> Gone] /\ queue' = queue
    BY <1>3 DEF _drain_now, AtCheck
  <2> QED
    BY <1>1, <1>2, <2>1, IdleAwaits DEF WorkerShape, UpdatesOnly
<1>4. CASE Due
  <2> DEFINE batch == _coalesce_events(queue)
  <2>1. worker' = [worker EXCEPT !.pc = "apply", !.batch = batch] /\ queue' = <<>>
    BY <1>4 DEF _drain_now
  <2>2. batch \in Seq(Updates) /\ PathsIn(queue) \subseteq PathsIn(batch)
    BY <1>1, CoalesceKeepsUpdates DEF UpdatesOnly
  <2> HIDE DEF batch
  <2>3. worker'.pc = "apply" /\ worker'.batch = batch /\ WorkerShape'
    BY <1>1, <2>1 DEF UpdatesOnly, WorkerShape
  <2>4. UpdatesOnly'
    BY <1>1, <1>2, <2>1, <2>2, <2>3 DEF UpdatesOnly
  <2>5. FilesStay' /\ WalksSound'
    BY <1>1, <1>2 DEF FilesStay, WalksSound
  <2>6. ASSUME NEW q \in Paths PROVE (Known(q) \/ Awaited(q))'
    <3>1. CASE Known(q)
      BY <1>2, <2>3, <3>1 DEF Known, Current
    <3>2. CASE \E e \in os : e.path = q
      BY <1>2, <3>2 DEF Awaited
    <3>3. CASE q \in PathsIn(queue)
      <4>1. \E i \in DOMAIN batch : batch[i].path = q
        BY <2>2, <3>3 DEF PathsIn
      <4> QED
        BY <2>3, <4>1 DEF Awaited
    <3> QED
      BY <1>1, <1>2, <3>1, <3>2, <3>3 DEF Awaited
  <2> QED
    BY <2>4, <2>5, <2>6 DEF QuiescenceInv
<1> QED
  BY <1>3, <1>4

(* An update done with, and its path current or awaited once more: the       *)
(* others are still to come.                                                 *)
LEMMA DoneAwaits ==
    ASSUME QuiescenceInv, worker.pc \in {"apply", "stat"}, worker.batch # <<>>, EventDone,
           UNCHANGED <<disk, clock, os, queue, walks, watching, paused>>, FilesStay',
           NEW p, p = worker.batch[NextEvent].path,
           \A q \in Paths : q # p => index'[q] = index[q],
           Current(p)' \/ (worker.pc = "stat" /\ Awaited(p))
    PROVE  QuiescenceInv'
<1>1. UpdatesOnly /\ FilesStay /\ WalksSound /\ \A q \in Paths : Known(q) \/ Awaited(q)
  BY DEF QuiescenceInv
<1>2. /\ BatchRest \in Seq(Updates)
      /\ \A i \in DOMAIN worker.batch :
           i # NextEvent => \E j \in DOMAIN BatchRest : BatchRest[j] = worker.batch[i]
  BY <1>1, BatchRestIs DEF UpdatesOnly
<1> DEFINE rest == BatchRest
<1>3. worker'.pc = "apply" /\ worker'.batch = rest /\ WorkerShape'
  BY <1>1 DEF EventDone, UpdatesOnly, WorkerShape
<1> HIDE DEF rest
<1>4. UpdatesOnly'
  BY <1>1, <1>2, <1>3 DEF UpdatesOnly, rest
<1>5. WalksSound'
  BY <1>1 DEF WalksSound
<1>6. ASSUME NEW i \in DOMAIN worker.batch, i # NextEvent,
             NEW q, q = worker.batch[i].path
      PROVE  Awaited(q)'
  <2>1. PICK j \in DOMAIN rest : rest[j] = worker.batch[i]
    BY <1>2, <1>6 DEF rest
  <2> QED
    BY <1>3, <1>6, <2>1 DEF Awaited
<1>7. ASSUME NEW q \in Paths, q # p \/ worker.pc = "stat", Awaited(q) PROVE Awaited(q)'
  <2>1. CASE (\E e \in os : e.path = q) \/ q \in PathsIn(queue)
    BY <2>1 DEF Awaited
  <2>2. CASE \E i \in DOMAIN worker.batch :
               worker.batch[i].path = q /\ (worker.pc = "stat" => i # NextEvent)
    <3>1. PICK i \in DOMAIN worker.batch :
               worker.batch[i].path = q /\ (worker.pc = "stat" => i # NextEvent)
      BY <2>2
    <3>2. i # NextEvent
      BY <1>7, <3>1
    <3> QED
      BY <1>6, <3>1, <3>2
  <2> QED
    BY <1>7, <2>1, <2>2 DEF Awaited
<1>8. ASSUME NEW q \in Paths PROVE (Known(q) \/ Awaited(q))'
  <2>1. CASE q = p
    <3>1. CASE Current(p)'
      BY <1>3, <2>1, <3>1 DEF Known
    <3>2. CASE worker.pc = "stat" /\ Awaited(p)
      BY <1>7, <2>1, <3>2
    <3> QED
      BY <3>1, <3>2
  <2>2. CASE q # p /\ Known(q)
    BY <1>3, <2>2 DEF Known, Current
  <2>3. CASE q # p /\ Awaited(q)
    BY <1>7, <2>3
  <2> QED
    BY <1>1, <2>1, <2>2, <2>3
<1> QED
  BY <1>4, <1>5, <1>8 DEF QuiescenceInv

(* The read of an update. *)
LEMMA ReadAwaits == ASSUME QuiescenceInv, ApplyUpdateRead PROVE QuiescenceInv'
<1>1. UpdatesOnly /\ FilesStay /\ WalksSound /\ \A q \in Paths : Known(q) \/ Awaited(q)
  BY DEF QuiescenceInv
<1>2. /\ worker.pc = "apply" /\ worker.batch # <<>>
      /\ UNCHANGED <<disk, clock, index, os, queue, walks, watching, paused>>
  BY DEF ApplyUpdateRead, Applying, fs, intake, flags
<1>3. PICK p \in Paths : p = worker.batch[NextEvent].path
  <2> DEFINE n == NextEvent
  <2>1. n \in DOMAIN worker.batch
    BY <1>1, <1>2, BatchRestIs DEF UpdatesOnly
  <2>2. worker.batch[n] \in Updates
    BY <1>1, <2>1 DEF UpdatesOnly
  <2> QED
    BY <2>1, <2>2 DEF Updates
<1>4. CASE disk[p] = Gone \/ (index[p] # Gone /\ index[p].content = disk[p].content)
  <2>1. EventDone
    BY <1>3, <1>4 DEF ApplyUpdateRead
  <2>2. Current(p)
    BY <1>1, <1>3, <1>4 DEF Current, FilesStay
  <2>3. Current(p)' /\ FilesStay'
    BY <1>1, <1>2, <2>2 DEF Current, FilesStay
  <2> QED
    BY <1>2, <1>3, <2>1, <2>3, DoneAwaits
<1>5. CASE ~(disk[p] = Gone \/ (index[p] # Gone /\ index[p].content = disk[p].content))
  <2>1. worker' = [worker EXCEPT !.pc = "stat", !.read = disk[p].content]
    BY <1>3, <1>5 DEF ApplyUpdateRead
  <2>2. disk[p].content \in Contents
    BY <1>1, <1>3, <1>5 DEF FilesStay
  <2>3. /\ worker'.pc = "stat" /\ worker'.batch = worker.batch /\ WorkerShape'
        /\ worker'.read = disk[p].content
    BY <1>1, <2>1 DEF UpdatesOnly, WorkerShape
  <2>4. PICK n : n = NextEvent
    OBVIOUS
  <2>5. NextEvent' = n
    BY <2>3, <2>4 DEF NextEvent
  <2>6. UpdatesOnly'
    BY <1>1, <1>2, <2>2, <2>3 DEF UpdatesOnly
  <2>7. FilesStay' /\ WalksSound'
    BY <1>1, <1>2 DEF FilesStay, WalksSound
  <2>8. ASSUME NEW q \in Paths PROVE (Known(q) \/ Awaited(q))'
    <3>1. CASE q = p
      BY <1>2, <1>3, <2>3, <2>4, <2>5, <3>1 DEF Known
    <3>2. CASE q # p /\ Known(q)
      BY <1>2, <1>3, <2>3, <2>4, <2>5, <3>2 DEF Known, Current
    <3>3. CASE q # p /\ Awaited(q)
      BY <1>2, <1>3, <2>3, <2>4, <2>5, <3>3 DEF Awaited
    <3> QED
      BY <1>1, <3>1, <3>2, <3>3
  <2> QED
    BY <2>6, <2>7, <2>8 DEF QuiescenceInv
<1> QED
  BY <1>4, <1>5

(* The record of an update: what was read, or an event says there is more.   *)
LEMMA StatAwaits == ASSUME QuiescenceInv, ApplyUpdateStat PROVE QuiescenceInv'
<1>1. UpdatesOnly /\ FilesStay /\ WalksSound /\ \A q \in Paths : Known(q) \/ Awaited(q)
  BY DEF QuiescenceInv
<1>2. /\ worker.pc = "stat" /\ worker.batch # <<>> /\ worker.read \in Contents /\ EventDone
      /\ UNCHANGED <<disk, clock, os, queue, walks, watching, paused>>
  BY <1>1 DEF ApplyUpdateStat, fs, intake, flags, UpdatesOnly
<1>3. PICK p \in Paths : p = worker.batch[NextEvent].path
  <2>1. NextEvent \in DOMAIN worker.batch
    BY <1>1, <1>2, BatchRestIs DEF UpdatesOnly
  <2>2. worker.batch[NextEvent] \in Updates
    BY <1>1, <2>1 DEF UpdatesOnly
  <2> QED
    BY <2>2 DEF Updates
<1>4. CASE disk[p] = Gone
  <2>1. index' = index
    BY <1>3, <1>4 DEF ApplyUpdateStat
  <2>2. Current(p)' /\ FilesStay'
    BY <1>1, <1>2, <1>3, <1>4, <2>1 DEF Current, FilesStay
  <2> QED
    BY <1>2, <1>3, <2>1, <2>2, DoneAwaits
<1>5. CASE disk[p] # Gone
  <2> DEFINE rec == [content |-> worker.read, mtime |-> disk[p].mtime]
  <2>1. index' = [index EXCEPT ![p] = rec]
    BY <1>3, <1>5 DEF ApplyUpdateStat
  <2>2. disk[p].mtime \in Nat
    BY <1>1, <1>3, <1>5 DEF FilesStay
  <2>3. rec \in [content : Contents, mtime : Nat] /\ rec # Gone /\ rec.content = worker.read
    BY <1>2, <2>2, WatcherGoneAssumption
  <2>4. Known(p) \/ Awaited(p)
    BY <1>1, <1>3
  <2>5. Known(p) => worker.read = disk[p].content
    BY <1>2, <1>3 DEF Known
  <2> HIDE DEF rec
  <2>6. /\ index' \in [Paths -> {Gone} \cup [content : Contents, mtime : Nat]]
        /\ index'[p] = rec /\ \A q \in Paths : q # p => index'[q] = index[q]
    BY <1>1, <1>3, <2>1, <2>3 DEF FilesStay
  <2>7. FilesStay'
    BY <1>1, <1>2, <1>5, <2>6 DEF FilesStay
  <2>8. Current(p)' \/ (worker.pc = "stat" /\ Awaited(p))
    BY <1>2, <1>5, <2>3, <2>4, <2>5, <2>6 DEF Current
  <2> QED
    BY <1>2, <1>3, <2>6, <2>7, <2>8, DoneAwaits
<1> QED
  BY <1>4, <1>5

(* The steps of the worker. *)
LEMMA WorkerAwaits == ASSUME QuiescenceInv, ~rescan, WorkerStep PROVE QuiescenceInv'
<1>1. /\ WorkerShape /\ watching /\ ~paused /\ worker.batch \in Seq(Updates)
      /\ worker.pc \in {"check", "waiting", "timed", "drain", "apply", "stat"}
  BY DEF QuiescenceInv, UpdatesOnly
<1>2. CASE _worker_loop
  <2>1. /\ worker.pc = "check" /\ worker'.pc \in {"waiting", "timed", "drain"}
        /\ worker'.batch = worker.batch /\ WorkerShape'
    BY <1>1, <1>2 DEF _worker_loop, WorkerShape
  <2>2. UNCHANGED <<disk, clock, index, os, queue, walks, watching, paused>>
    BY <1>2 DEF _worker_loop, fs, intake, flags
  <2> QED
    BY <1>1, <2>1, <2>2, IdleAwaits
<1>3. CASE WaitTimeout
  <2>1. /\ worker.pc = "timed" /\ worker'.pc = "drain"
        /\ worker'.batch = worker.batch /\ WorkerShape'
    BY <1>1, <1>3 DEF WaitTimeout, WorkerShape
  <2>2. UNCHANGED <<disk, clock, index, os, queue, walks, watching, paused>>
    BY <1>3 DEF WaitTimeout, fs, intake, flags
  <2> QED
    BY <1>1, <2>1, <2>2, IdleAwaits
<1>4. CASE _drain_now
  BY <1>4, DrainAwaits
<1>5. CASE DrainEnd
  <2>1. /\ worker.pc = "apply" /\ worker.batch = <<>>
        /\ worker' = [pc |-> "check", batch |-> <<>>, read |-> Gone]
        /\ UNCHANGED <<disk, clock, index, os, queue, walks, watching, paused>>
    BY <1>1, <1>5 DEF DrainEnd, AtCheck, fs, flags
  <2>2. UpdatesOnly /\ FilesStay /\ WalksSound /\ \A q \in Paths : Known(q) \/ Awaited(q)
    BY DEF QuiescenceInv
  <2>3. UpdatesOnly' /\ FilesStay' /\ WalksSound'
    BY <2>1, <2>2 DEF UpdatesOnly, FilesStay, WalksSound, WorkerShape
  <2>4. \A q \in Paths : (Known(q) \/ Awaited(q))'
    BY <2>1, <2>2 DEF Known, Current, Awaited
  <2> QED
    BY <2>3, <2>4 DEF QuiescenceInv
<1>6. CASE ApplyUpdateRead \/ ApplyUpdateStat
  BY <1>6, ReadAwaits, StatAwaits
<1>7. ~ApplyDelete /\ ~ApplyRename
  <2>1. worker.batch # <<>> => worker.batch[NextEvent] \in Updates
    BY <1>1, BatchRestIs
  <2> QED
    BY <2>1 DEF ApplyDelete, ApplyRename, Applying, Updates
<1> QED
  BY <1>2, <1>3, <1>4, <1>5, <1>6, <1>7 DEF WorkerStep

(* A walk finds nothing to delete: its records are of files that are there.  *)
LEMMA WalkAwaits ==
    ASSUME QuiescenceInv, ~rescan, ~rescan', NEW k \in Walkers, WalkStep(k)
    PROVE  QuiescenceInv'
<1>1. UpdatesOnly /\ FilesStay /\ WalksSound /\ \A q \in Paths : Known(q) \/ Awaited(q)
  BY DEF QuiescenceInv
<1>2. ASSUME NEW p \in Paths, WalkFile(k, p) PROVE QuiescenceInv'
  <2>1. UNCHANGED <<disk, clock, index, os, watching, paused, worker>>
    BY <1>2 DEF WalkFile, fs, flags
  <2>2. \/ UNCHANGED intake
        \/ _enqueue_event(Event("CREATE", p)) \/ _enqueue_event(Event("MODIFY", p))
    BY <1>2 DEF WalkFile
  <2>3. Event("CREATE", p) \in Updates /\ Event("MODIFY", p) \in Updates
    BY DEF Event, Updates
  <2>4. queue' \in Seq(Updates) /\ PathsIn(queue) \subseteq PathsIn(queue')
    BY <1>1, <2>2, <2>3, EnqueueAppends DEF UpdatesOnly, intake
  <2>5. \A q \in Paths : (Known(q) \/ Awaited(q))'
    <3>1. \A e \in os : e \in os'
      BY <2>1
    <3> QED
      BY <1>1, <2>1, <2>4, <3>1, AwaitedKeeps
  <2>6. walks' = [walks EXCEPT ![k].todo = @ \ {p},
                               ![k].seen = IF disk[p] = Gone THEN @ ELSE @ \cup {p}]
    BY <1>2 DEF WalkFile
  <2>7. WalksSound'
    <3>1. walks \in [Walkers -> WalkRecord]
      BY <1>1 DEF WalksSound
    <3> DEFINE w == walks'[k]
    <3>2. /\ walks' \in [Walkers -> WalkRecord]
          /\ w.on = walks[k].on /\ w.recorded = walks[k].recorded /\ w.todo = walks[k].todo \ {p}
          /\ w.seen = IF disk[p] = Gone THEN walks[k].seen ELSE walks[k].seen \cup {p}
          /\ \A j \in Walkers : j # k => walks'[j] = walks[j]
      BY <2>6, <3>1 DEF WalkRecord
    <3> HIDE DEF w
    <3>3. ASSUME NEW j \in Walkers, walks'[j].on, NEW q \in Paths, walks'[j].recorded[q] # Gone
          PROVE  disk'[q] # Gone /\ (q \in walks'[j].todo \/ q \in walks'[j].seen)
      <4>1. CASE j # k
        BY <1>1, <2>1, <3>2, <3>3, <4>1 DEF WalksSound
      <4>2. CASE j = k
        BY <1>1, <2>1, <3>2, <3>3, <4>2 DEF WalksSound, w
      <4> QED
        BY <4>1, <4>2
    <3> QED
      BY <3>2, <3>3 DEF WalksSound
  <2>8. UpdatesOnly' /\ FilesStay'
    BY <1>1, <2>1, <2>4 DEF UpdatesOnly, FilesStay, WorkerShape
  <2> QED
    BY <2>5, <2>7, <2>8 DEF QuiescenceInv
<1>3. ASSUME NEW p \in Paths PROVE ~WalkDelete(k, p)
  BY <1>1 DEF WalkDelete, Unseen, WalksSound
<1>4. CASE WalkEnd(k)
  <2>1. /\ UNCHANGED <<disk, clock, index, os, queue, paused, worker>>
        /\ walks' = [walks EXCEPT ![k] = NoWalk] /\ watching'
    BY <1>1, <1>4 DEF WalkEnd, fs, intake, UpdatesOnly
  <2>2. WalksSound'
    <3>1. NoWalk \in WalkRecord /\ ~NoWalk.on
      BY DEF NoWalk, WalkRecord
    <3> QED
      BY <1>1, <2>1, <3>1 DEF WalksSound
  <2>3. UpdatesOnly' /\ FilesStay'
    BY <1>1, <2>1 DEF UpdatesOnly, FilesStay, WorkerShape
  <2>4. \A q \in Paths : (Known(q) \/ Awaited(q))'
    BY <1>1, <2>1 DEF Known, Current, Awaited, NextEvent
  <2> QED
    BY <2>2, <2>3, <2>4 DEF QuiescenceInv
<1> QED
  BY <1>2, <1>3, <1>4 DEF WalkStep

(* The sweep's walk begins with the records there are. *)
LEMMA SweepAwaits == ASSUME QuiescenceInv, _mtime_sweep_once PROVE QuiescenceInv'
<1>1. UpdatesOnly /\ FilesStay /\ WalksSound /\ \A q \in Paths : Known(q) \/ Awaited(q)
  BY DEF QuiescenceInv
<1>2. /\ UNCHANGED <<disk, clock, index, os, queue, watching, paused, worker>>
      /\ StartWalk("sweep")
  BY DEF _mtime_sweep_once, fs, intake, flags
<1> DEFINE w == [on |-> TRUE, todo |-> Paths, seen |-> {},
                 recorded |-> [p \in Paths |-> IF index[p] = Gone THEN Gone ELSE index[p].mtime]]
<1>3. WalksSound'
  <2>1. walks' = [walks EXCEPT !["sweep"] = w]
    BY <1>2 DEF StartWalk
  <2>2. \A p \in Paths : index[p] # Gone => index[p].mtime \in Nat
    BY <1>1 DEF FilesStay
  <2>3. w \in WalkRecord
    BY <2>2 DEF WalkRecord
  <2>4. \A p \in Paths : p \in w.todo /\ (w.recorded[p] # Gone => disk[p] # Gone)
    BY <1>1 DEF FilesStay
  <2> HIDE DEF w
  <2>5. walks \in [Walkers -> WalkRecord] /\ "sweep" \in Walkers
    BY <1>1 DEF WalksSound, Walkers
  <2>6. /\ walks' \in [Walkers -> WalkRecord] /\ walks'["sweep"] = w
        /\ \A j \in Walkers : j # "sweep" => walks'[j] = walks[j]
    BY <2>1, <2>3, <2>5
  <2> QED
    BY <1>1, <1>2, <2>4, <2>6 DEF WalksSound
<1>4. UpdatesOnly' /\ FilesStay'
  BY <1>1, <1>2 DEF UpdatesOnly, FilesStay, WorkerShape
<1>5. \A q \in Paths : (Known(q) \/ Awaited(q))'
  <2>1. PathsIn(queue) \subseteq PathsIn(queue') /\ \A e \in os : e \in os'
    BY <1>2
  <2> QED
    BY <1>1, <1>2, <2>1, AwaitedKeeps
<1> QED
  BY <1>3, <1>4, <1>5 DEF QuiescenceInv

(* Every step without a storm keeps the invariant. *)
LEMMA QuiescenceStep ==
    ASSUME WritesOnly, QuiescenceInv, ~rescan, ~rescan', [Next]_vars
    PROVE  QuiescenceInv'
<1>1. /\ WorkerShape /\ watching /\ ~paused /\ worker.batch \in Seq(Updates)
  BY DEF QuiescenceInv, UpdatesOnly
<1>2. ASSUME UNCHANGED <<disk, clock, index, os, queue, walks, worker>>, watching', ~paused'
      PROVE  QuiescenceInv'
  BY <1>1, <1>2, IdleAwaits DEF WorkerShape
<1>3. CASE FileSystem
  BY <1>3, WriteAwaits
<1>4. ~WatchFails /\ ~WatchRestarts /\ ~pause_project /\ ~resume_project
  BY <1>1 DEF WritesOnly, WatchFails, WatchRestarts, pause_project, resume_project
<1>5. CASE Deliver
  BY <1>5, DeliverAwaits
<1>6. CASE Ripen \/ add_project \/ set_paused
  BY <1>1, <1>2, <1>6 DEF Ripen, add_project, set_paused, fs, flags, intake
<1>7. CASE _notify_cond
  BY <1>7, NotifyAwaits
<1>8. CASE WorkerStep
  BY <1>8, WorkerAwaits
<1>9. CASE \E k \in Walkers : WalkStep(k)
  BY <1>9, WalkAwaits
<1>10. CASE _mtime_sweep_once
  BY <1>10, SweepAwaits
<1>11. CASE wait_for_quiescence \/ SearchStep \/ QuiescenceTimeout
  BY <1>1, <1>2, <1>11 DEF wait_for_quiescence, SearchStep, QuiescenceReturn, QuiescenceBlock,
                           QuiescenceTimeout, fs, flags, intake
<1>12. CASE UNCHANGED vars
  BY <1>1, <1>2, <1>12 DEF vars, fs, flags, intake
<1> QED
  BY <1>3, <1>4, <1>5, <1>6, <1>7, <1>8, <1>9, <1>10, <1>11, <1>12 DEF Next

(* For any paths and contents, where files are only written, the watch does  *)
(* not lapse and no storm comes: a search that finds nothing pending while   *)
(* everything is delivered and no batch is being applied sees every file as  *)
(* it is.                                                                    *)
THEOREM QuiescentForAll == ASSUME WritesOnly PROVE Spec /\ []~rescan => QuiescentMeansCurrent
<1>1. QuiescenceInv /\ [Next]_vars =>
        [QuiescenceReturn /\ os = {} /\ ~Busy => \A p \in Paths : Current(p)]_vars
  <2> SUFFICES ASSUME QuiescenceInv, QuiescenceReturn, os = {}, ~Busy, NEW p \in Paths
               PROVE  Current(p)
    OBVIOUS
  <2>1. queue = <<>>
    BY DEF QuiescenceInv, UpdatesOnly, QuiescenceReturn, pending_updates
  <2>2. PathsIn(queue) = {}
    BY <2>1 DEF PathsIn
  <2> QED
    BY <2>2 DEF QuiescenceInv, Known, Awaited, Busy
<1>2. QuiescenceInv /\ ~rescan /\ (~rescan)' /\ [Next]_vars => QuiescenceInv'
  BY QuiescenceStep
<1> QED
  BY <1>1, <1>2, QuiescenceStart, PTL DEF Spec, QuiescentMeansCurrent
=============================================================================
